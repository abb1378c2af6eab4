--------------------------- MODULE ApprovalsProofs --------------------------
(***************************************************************************)
(* Proofs about Approvals, for every set of approvals, users, requests and *)
(* proposals, any initial registry, any number of crashes, both            *)
(* topologies and any overlap of handlers.                                 *)
(***************************************************************************)
EXTENDS Approvals, SequenceTheorems, FiniteSetTheorems, WellFoundedInduction, TLAPS

(***************************************************************************)
(* Facts about the operators.                                              *)
(***************************************************************************)

\* Every decision leads to a terminal state (_ACTION_TARGET).
LEMMA ActionTargets ==
    /\ ACTION_TARGET["approve"] = "approved"
    /\ ACTION_TARGET["reject"] = "rejected"
    /\ ACTION_TARGET["withdraw"] = "withdrawn"
    /\ \A op \in DECISIONS : ACTION_TARGET[op] \in TERMINAL_STATES
  BY DEF ACTION_TARGET, DECISIONS, TERMINAL_STATES

\* The side effect of a proposal has one of the four recorded outcomes.
LEMMA OutcomeType ==
    ASSUME NEW p \in Proposals PROVE Outcome(p) \in EFFECTS
  <1>1. p.type \in APPROVAL_TYPES
    BY ApprovalsAssumption
  <1>2. CASE p.type = "model_promotion"
    BY <1>2 DEF Outcome, EFFECTS
  <1>3. CASE p.type = "param_tuning"
    BY <1>3 DEF Outcome, EFFECTS
  <1>4. CASE p.type = "scenario_activation"
    BY <1>4 DEF Outcome, EFFECTS
  <1> QED
    BY <1>1, <1>2, <1>3, <1>4 DEF APPROVAL_TYPES

\* The columns a decision and an effect write keep a row a row, and neither
\* touches the proposal or its proposer.
LEMMA RowUpdates ==
    ASSUME NEW row \in Row, NEW q \in Handler,
           q.op \in DECISIONS, q.user \in Users, q.role \in VALID_ROLES
    PROVE  /\ DecidedRow(row, q) \in Row
           /\ DecidedRow(row, q).state = ACTION_TARGET[q.op]
           /\ DecidedRow(row, q).decided_by = q.user
           /\ DecidedRow(row, q).decided_role = q.role
           /\ DecidedRow(row, q).prop = row.prop
           /\ DecidedRow(row, q).proposed_by = row.proposed_by
           /\ DecidedRow(row, q).effect = row.effect
  <1>1. ACTION_TARGET[q.op] \in APPROVAL_STATES
    BY ActionTargets DEF TERMINAL_STATES, APPROVAL_STATES
  <1> QED
    BY <1>1 DEF DecidedRow, Row

\* A row whose effect is set keeps its type and its other columns.
LEMMA EffectUpdate ==
    ASSUME NEW row \in Row, NEW e \in EFFECTS
    PROVE  /\ [row EXCEPT !.effect = e] \in Row
           /\ [row EXCEPT !.effect = e].effect = e
           /\ [row EXCEPT !.effect = e].state = row.state
           /\ [row EXCEPT !.effect = e].decided_by = row.decided_by
           /\ [row EXCEPT !.effect = e].decided_role = row.decided_role
           /\ [row EXCEPT !.effect = e].prop = row.prop
           /\ [row EXCEPT !.effect = e].proposed_by = row.proposed_by
  BY DEF Row

\* Appending keeps the log's old entries where they are.
LEMMA AppendFacts ==
    ASSUME NEW s \in Seq(Entry), NEW e \in Entry
    PROVE  /\ Append(s, e) \in Seq(Entry)
           /\ Len(Append(s, e)) = Len(s) + 1
           /\ DOMAIN Append(s, e) = 1..(Len(s) + 1)
           /\ DOMAIN s = 1..Len(s)
           /\ Len(s) \in Nat
           /\ \A i \in 1..Len(s) : Append(s, e)[i] = s[i]
           /\ Append(s, e)[Len(s) + 1] = e
  OBVIOUS

(***************************************************************************)
(* Type correctness.                                                       *)
(***************************************************************************)
LEMMA InitType == Init => TypeOK
  BY ApprovalsAssumption
  DEF Init, TypeOK, NoRow, NewRequest, Row, Entry, Handler, Exists, InFlight

\* Every step keeps the types.
LEMMA TypeStep == TypeOK /\ [Next]_vars => TypeOK'
  <1> SUFFICES ASSUME TypeOK, [Next]_vars PROVE TypeOK'
    OBVIOUS
  <1> USE ApprovalsAssumption
  <1>1. ASSUME NEW a \in Approvals, NEW p \in Proposals, NEW u \in Users,
               NEW role \in VALID_ROLES, Propose(a, p, u, role)
        PROVE  TypeOK'
    <2>1. AuditEntry("propose", a, u, role, "pending") \in Entry
      BY DEF AuditEntry, Entry, APPROVAL_STATES
    <2>2. rows' \in [Approvals -> Row]
      BY <1>1 DEF Propose, TypeOK, Row, NoRow, APPROVAL_STATES
    <2> QED
      BY <1>1, <2>1, <2>2 DEF Propose, TypeOK, NoRow, Exists, InFlight
  <1>2. ASSUME NEW r \in Requests, NEW op \in DECISIONS, NEW u \in Users,
               NEW role \in VALID_ROLES, Deny(r, op, u, role)
        PROVE  TypeOK'
    <2>1. AuditEntry("authz.denied", NoOne, u, role, "denied") \in Entry
      BY DEF AuditEntry, Entry
    <2>2. Answered \in Handler /\ Answered.pc = "done"
      BY DEF Answered, NewRequest, Handler
    <2>3. /\ req' = [req EXCEPT ![r] = Answered]
          /\ rows' = rows /\ crashes' = crashes
      BY <1>2 DEF Deny
    <2>4. audit' \in Seq(Entry)
      <3>1. PICK e : e = AuditEntry("authz.denied", NoOne, u, role, "denied")
        OBVIOUS
      <3>2. audit' = Append(audit, e) \/ audit' = audit
        BY <1>2, <3>1 DEF Deny
      <3>3. e \in Entry /\ audit \in Seq(Entry)
        BY <2>1, <3>1 DEF TypeOK
      <3> QED
        BY <3>2, <3>3, AppendFacts
    <2>5. req' \in [Requests -> Handler]
      BY <2>2, <2>3 DEF TypeOK
    <2>6. \A s \in InFlight' : s \in InFlight /\ req'[s] = req[s]
      BY <2>2, <2>3 DEF TypeOK, InFlight
    <2> QED
      BY <2>3, <2>4, <2>5, <2>6 DEF TypeOK, Exists
  <1>3. ASSUME NEW r \in Requests, NEW op \in DECISIONS, NEW u \in Users,
               NEW role \in VALID_ROLES, NEW a \in Approvals, Refuse(r, op, a, u, role)
        PROVE  TypeOK'
    <2>1. Answered \in Handler /\ Answered.pc = "done"
      BY DEF Answered, NewRequest, Handler
    <2> QED
      BY <1>3, <2>1 DEF Refuse, TypeOK, Exists, InFlight
  <1>4. ASSUME NEW r \in Requests, NEW op \in DECISIONS, NEW u \in Users,
               NEW role \in VALID_ROLES, NEW a \in Approvals, Read(r, op, a, u, role)
        PROVE  TypeOK'
    BY <1>4 DEF Read, TypeOK, Handler, Exists, InFlight
  <1>5. ASSUME NEW r \in Requests, Decide(r)
        PROVE  TypeOK'
    <2> DEFINE q == req[r]
    <2>1. q \in Handler /\ q.pc = "decide" /\ r \in InFlight
      BY <1>5 DEF Decide, TypeOK, InFlight
    <2>2. q.id \in Approvals /\ q.op \in DECISIONS /\ q.user \in Users /\ q.role \in VALID_ROLES
          /\ Exists(q.id)
      BY <2>1 DEF TypeOK
    <2>3. ACTION_TARGET[q.op] \in TERMINAL_STATES
      BY <2>2, ActionTargets
    <2>4. AuditEntry(q.op, q.id, q.user, q.role, ACTION_TARGET[q.op]) \in Entry
      BY <2>2, <2>3 DEF AuditEntry, Entry, TERMINAL_STATES, APPROVAL_STATES
    <2>5. rows' \in [Approvals -> Row]
      BY <1>5, <2>1, <2>2, RowUpdates DEF Decide, TypeOK
    <2>6. \A a \in Approvals : Exists(a)' = Exists(a) /\ rows'[a].prop = rows[a].prop
                               /\ rows'[a].proposed_by = rows[a].proposed_by
      BY <1>5, <2>1, <2>2, <2>3, RowUpdates DEF Decide, TypeOK, Exists, TERMINAL_STATES
    <2>7. Answered \in Handler /\ Answered.pc = "done"
      BY DEF Answered, NewRequest, Handler
    <2>8. req' \in [Requests -> Handler]
      BY <1>5, <2>1, <2>7 DEF Decide, TypeOK, Handler
    <2>9. \A s \in Requests : s \in InFlight' =>
             /\ s \in InFlight /\ req'[s].id = req[s].id /\ req'[s].op = req[s].op
             /\ req'[s].user = req[s].user /\ req'[s].role = req[s].role
             /\ req'[s].pc = "record" => req[s].pc = "record" /\ req'[s].outcome = req[s].outcome
      BY <1>5, <2>1, <2>7 DEF Decide, TypeOK, InFlight, Handler
    <2>10. audit' \in Seq(Entry)
      BY <1>5, <2>4, AppendFacts DEF Decide, TypeOK
    <2>11. crashes' \in 0..MaxCrashes
      BY <1>5 DEF Decide, TypeOK
    <2> HIDE DEF q
    <2>12. InFlight' \subseteq Requests
      BY DEF InFlight
    <2> QED
      BY <2>5, <2>6, <2>8, <2>9, <2>10, <2>11, <2>12 DEF TypeOK
  <1>6. ASSUME NEW r \in Requests, ApplyEffect(r)
        PROVE  TypeOK'
    <2> DEFINE q == req[r]
    <2>1. q \in Handler /\ r \in InFlight /\ q.id \in Approvals /\ Exists(q.id)
      BY <1>6 DEF ApplyEffect, TypeOK, InFlight
    <2>2. Outcome(rows[q.id].prop) \in EFFECTS
      BY <2>1, OutcomeType DEF TypeOK
    <2>3. [q EXCEPT !.pc = "record", !.outcome = Outcome(rows[q.id].prop)] \in Handler
      BY <2>1, <2>2 DEF Handler
    <2>4. req' = [req EXCEPT ![r] = [q EXCEPT !.pc = "record", !.outcome = Outcome(rows[q.id].prop)]]
      BY <1>6 DEF ApplyEffect
    <2>5. req' \in [Requests -> Handler]
      BY <2>3, <2>4 DEF TypeOK
    <2>6. \A s \in Requests : s \in InFlight' =>
             /\ s \in InFlight /\ req'[s].id = req[s].id /\ req'[s].op = req[s].op
             /\ req'[s].user = req[s].user /\ req'[s].role = req[s].role
             /\ req'[s].pc = "record" => req'[s].outcome \in EFFECTS
      BY <2>1, <2>2, <2>4 DEF TypeOK, InFlight, Handler
    <2>7. UNCHANGED <<rows, audit, crashes>> /\ InFlight' \subseteq Requests
      BY <1>6 DEF ApplyEffect, InFlight
    <2> HIDE DEF q
    <2> QED
      BY <2>5, <2>6, <2>7 DEF TypeOK, Exists
  <1>7. ASSUME NEW r \in Requests, EffectRaises(r)
        PROVE  TypeOK'
    <2>1. Answered \in Handler /\ Answered.pc = "done"
      BY DEF Answered, NewRequest, Handler
    <2> QED
      BY <1>7, <2>1 DEF EffectRaises, TypeOK, Exists, InFlight
  <1>8. ASSUME NEW r \in Requests, RecordEffect(r)
        PROVE  TypeOK'
    <2> DEFINE q == req[r]
    <2>1. q \in Handler /\ r \in InFlight /\ q.id \in Approvals /\ Exists(q.id)
          /\ q.user \in Users /\ q.role \in VALID_ROLES /\ q.outcome \in EFFECTS
      BY <1>8 DEF RecordEffect, TypeOK, InFlight
    <2>2. AuditEntry("apply", q.id, q.user, q.role, q.outcome) \in Entry
      BY <1>8, <2>1 DEF AuditEntry, Entry
    <2>3. rows' \in [Approvals -> Row]
      BY <1>8, <2>1, EffectUpdate DEF RecordEffect, TypeOK
    <2>4. \A a \in Approvals : Exists(a)' = Exists(a) /\ rows'[a].prop = rows[a].prop
                               /\ rows'[a].proposed_by = rows[a].proposed_by
      BY <1>8, <2>1, EffectUpdate DEF RecordEffect, TypeOK, Exists
    <2>5. Answered \in Handler /\ Answered.pc = "done"
      BY DEF Answered, NewRequest, Handler
    <2>6. [q EXCEPT !.pc = "alarm"] \in Handler /\ [q EXCEPT !.pc = "publish"] \in Handler
      BY <2>1 DEF Handler
    <2>7. req'[r] \in {Answered, [q EXCEPT !.pc = "alarm"], [q EXCEPT !.pc = "publish"]}
          /\ req' = [req EXCEPT ![r] = req'[r]]
      BY <1>8 DEF RecordEffect, TypeOK
    <2>8. req' \in [Requests -> Handler]
      BY <2>5, <2>6, <2>7 DEF TypeOK
    <2>9. \A s \in Requests : s \in InFlight' =>
             /\ s \in InFlight /\ req'[s].id = req[s].id /\ req'[s].op = req[s].op
             /\ req'[s].user = req[s].user /\ req'[s].role = req[s].role
             /\ req'[s].pc = "record" => req[s].pc = "record" /\ req'[s].outcome = req[s].outcome
      BY <2>1, <2>5, <2>7 DEF TypeOK, InFlight, Handler
    <2>10. audit' \in Seq(Entry)
      BY <1>8, <2>2, AppendFacts DEF RecordEffect, TypeOK
    <2>11. crashes' \in 0..MaxCrashes
      BY <1>8 DEF RecordEffect, TypeOK
    <2>12. InFlight' \subseteq Requests
      BY DEF InFlight
    <2> HIDE DEF q
    <2> QED
      BY <2>3, <2>4, <2>8, <2>9, <2>10, <2>11, <2>12 DEF TypeOK
  <1>9. ASSUME NEW r \in Requests, RaiseAlarm(r)
        PROVE  TypeOK'
    <2>1. AuditEntry("alarm.raised", req[r].id, NoOne, NoOne, "active") \in Entry
      BY <1>9 DEF RaiseAlarm, TypeOK, InFlight, AuditEntry, Entry
    <2>2. Answered \in Handler /\ Answered.pc = "done"
      BY DEF Answered, NewRequest, Handler
    <2> QED
      BY <1>9, <2>1, <2>2 DEF RaiseAlarm, TypeOK, Exists, InFlight
  <1>10. ASSUME NEW r \in Requests, PublishModelChanged(r)
        PROVE  TypeOK'
    <2>1. Answered \in Handler /\ Answered.pc = "done"
      BY DEF Answered, NewRequest, Handler
    <2> QED
      BY <1>10, <2>1 DEF PublishModelChanged, TypeOK, Exists, InFlight
  <1>11. ASSUME Crash
         PROVE  TypeOK'
    <2>1. Answered \in Handler /\ Answered.pc = "done"
      BY DEF Answered, NewRequest, Handler
    <2>2. crashes' \in 0..MaxCrashes
      BY <1>11 DEF Crash, TypeOK
    <2> QED
      BY <1>11, <2>1, <2>2 DEF Crash, TypeOK, Exists, InFlight
  <1>12. CASE UNCHANGED vars
    BY <1>12 DEF vars, TypeOK, Exists, InFlight
  <1> QED
    BY <1>1, <1>2, <1>3, <1>4, <1>5, <1>6, <1>7, <1>8, <1>9, <1>10, <1>11, <1>12
    DEF Next, Arrive, Continue, Quiescent

\* Type correctness of the workflow: rows, log and handlers keep their types,
\* and a handler in flight always works on a row that exists.
THEOREM TypeCorrect == Spec => []TypeOK
  BY InitType, TypeStep, PTL DEF Spec

(***************************************************************************)
(* The inductive invariant.  What a handler checked when it read the row   *)
(* is still true when it commits, because a row's proposal and proposer    *)
(* never change and neither do permissions; and a handler past its commit  *)
(* has left an approve entry behind.                                       *)
(***************************************************************************)
ApprovedBy(q) ==
    \E i \in DOMAIN audit :
        /\ audit[i].action = "approve"
        /\ audit[i].id = q.id
        /\ audit[i].user = q.user
        /\ audit[i].role = q.role

HandlerInv ==
    \A r \in InFlight :
        /\ MayDecide(req[r].op, rows[req[r].id], req[r].user, req[r].role)
        /\ req[r].pc # "decide" => req[r].op = "approve" /\ ApprovedBy(req[r])

Inv == TypeOK /\ HandlerInv /\ SeparationOfDuties /\ AuditTruth /\ EffectsAuthorised

\* The log only grows.
LogGrows(e) == e \in Entry /\ audit' = Append(audit, e)

\* A step that writes no decision keeps the proposals and what was decided.
NoDecision ==
    /\ \A a \in Approvals :
          Exists(a) => /\ rows'[a].prop = rows[a].prop
                       /\ rows'[a].proposed_by = rows[a].proposed_by
                       /\ rows'[a].state = rows[a].state
                       /\ rows'[a].decided_by = rows[a].decided_by
                       /\ rows'[a].decided_role = rows[a].decided_role
    /\ \A a \in Approvals :
          ~Exists(a) => rows'[a].state \in {"absent", "pending"}
    /\ \/ audit' = audit
       \/ \E e \in Entry : e.action \notin DECISIONS /\ LogGrows(e)

\* An approve entry once written stays.
LEMMA ApprovalStays ==
    ASSUME TypeOK, NEW q, ApprovedBy(q),
           audit' = audit \/ \E e \in Entry : LogGrows(e)
    PROVE  \E i \in DOMAIN audit' :
               /\ audit'[i].action = "approve"
               /\ audit'[i].id = q.id
               /\ audit'[i].user = q.user
               /\ audit'[i].role = q.role
  <1>1. CASE audit' = audit
    BY <1>1 DEF ApprovedBy
  <1>2. CASE \E e \in Entry : LogGrows(e)
    <2>1. PICK e \in Entry : LogGrows(e)
      BY <1>2
    <2>2. PICK i \in DOMAIN audit :
               /\ audit[i].action = "approve"
               /\ audit[i].id = q.id
               /\ audit[i].user = q.user
               /\ audit[i].role = q.role
      BY DEF ApprovedBy
    <2>3. i \in 1..Len(audit) /\ Len(audit) \in Nat /\ DOMAIN audit' = 1..(Len(audit) + 1)
          /\ audit'[i] = audit[i]
      BY <2>1, <2>2, AppendFacts DEF LogGrows, TypeOK
    <2>4. i \in DOMAIN audit'
      BY <2>3
    <2> QED
      BY <2>2, <2>3, <2>4
  <1> QED
    BY <1>1, <1>2

\* Separation of duties and audit truth survive any step without a decision.
LEMMA NoDecisionKeeps ==
    ASSUME TypeOK, TypeOK', SeparationOfDuties, AuditTruth, NoDecision
    PROVE  SeparationOfDuties' /\ AuditTruth'
  <1>1. SeparationOfDuties'
    <2> SUFFICES ASSUME NEW a \in Approvals
                 PROVE  /\ rows'[a].state \in {"approved", "rejected"} =>
                             /\ rows'[a].decided_by \in Users \ {rows'[a].proposed_by}
                             /\ has_permission(rows'[a].decided_role,
                                               APPROVE_CODE[rows'[a].prop.type])
                        /\ rows'[a].state = "withdrawn" =>
                             rows'[a].decided_by = rows'[a].proposed_by
      BY DEF SeparationOfDuties, has_permission
    <2>1. CASE Exists(a)
      BY <2>1 DEF NoDecision, SeparationOfDuties
    <2>2. CASE ~Exists(a)
      BY <2>2 DEF NoDecision
    <2> QED
      BY <2>1, <2>2
  <1>2. AuditTruth'
    <2> SUFFICES ASSUME NEW a \in Approvals
                 PROVE  IF rows'[a].state \in TERMINAL_STATES
                          THEN \E i \in DecisionEntries(a)' :
                                  /\ \A j \in DecisionEntries(a)' : j <= i
                                  /\ audit'[i].result = rows'[a].state
                                  /\ audit'[i].user = rows'[a].decided_by
                                  /\ audit'[i].role = rows'[a].decided_role
                          ELSE DecisionEntries(a)' = {}
      BY DEF AuditTruth
    <2>1. DecisionEntries(a)' = DecisionEntries(a)
          /\ \A i \in DecisionEntries(a) : audit'[i] = audit[i]
      <3>1. CASE audit' = audit
        BY <3>1 DEF DecisionEntries
      <3>2. CASE \E e \in Entry : e.action \notin DECISIONS /\ LogGrows(e)
        <4>1. PICK e \in Entry : e.action \notin DECISIONS /\ LogGrows(e)
          BY <3>2
        <4>2. /\ DOMAIN audit = 1..Len(audit) /\ Len(audit) \in Nat
              /\ DOMAIN audit' = 1..(Len(audit) + 1)
              /\ \A i \in 1..Len(audit) : audit'[i] = audit[i]
              /\ audit'[Len(audit) + 1] = e
          BY <4>1, AppendFacts DEF LogGrows, TypeOK
        <4> QED
          BY <4>1, <4>2 DEF DecisionEntries
      <3> QED
        BY <3>1, <3>2 DEF NoDecision
    <2>2. CASE Exists(a)
      BY <2>1, <2>2 DEF NoDecision, AuditTruth
    <2>3. CASE ~Exists(a)
      <3>1. DecisionEntries(a) = {}
        BY <2>3 DEF AuditTruth, Exists, TERMINAL_STATES
      <3> QED
        BY <2>1, <2>3, <3>1 DEF NoDecision, TERMINAL_STATES
    <2> QED
      BY <2>2, <2>3
  <1> QED
    BY <1>1, <1>2

\* Handlers keep their caller, operation and row, and none commits.
HandlersAdvance ==
    \A s \in InFlight' :
        /\ s \in InFlight
        /\ req'[s].id = req[s].id /\ req'[s].op = req[s].op
        /\ req'[s].user = req[s].user /\ req'[s].role = req[s].role
        /\ req'[s].pc # "decide" => req[s].pc # "decide"

ProposalsKept ==
    \A a \in Approvals :
        Exists(a) => /\ rows'[a].prop = rows[a].prop
                     /\ rows'[a].proposed_by = rows[a].proposed_by

LogKept == audit' = audit \/ \E e \in Entry : LogGrows(e)

\* What entitled a handler to decide does not depend on columns that change.
LEMMA MayDecideKept ==
    ASSUME NEW op, NEW row1, NEW row2, NEW u, NEW role,
           row1.prop = row2.prop, row1.proposed_by = row2.proposed_by,
           MayDecide(op, row1, u, role)
    PROVE  MayDecide(op, row2, u, role)
  BY DEF MayDecide

\* What a handler in flight relies on, one handler at a time.
LEMMA OneHandlerKept ==
    ASSUME TypeOK, HandlerInv, ProposalsKept, LogKept,
           NEW s \in InFlight,
           req'[s].id = req[s].id, req'[s].op = req[s].op,
           req'[s].user = req[s].user, req'[s].role = req[s].role
    PROVE  /\ MayDecide(req'[s].op, rows'[req'[s].id], req'[s].user, req'[s].role)
           /\ req[s].pc # "decide" => req'[s].op = "approve" /\ ApprovedBy(req[s])'
  <1>1. req[s].id \in Approvals /\ Exists(req[s].id)
    BY DEF TypeOK
  <1>2. MayDecide(req'[s].op, rows'[req'[s].id], req'[s].user, req'[s].role)
    BY <1>1, MayDecideKept DEF HandlerInv, ProposalsKept
  <1>3. ASSUME req[s].pc # "decide"
        PROVE  req'[s].op = "approve" /\ ApprovedBy(req[s])'
    <2>1. req[s].op = "approve" /\ ApprovedBy(req[s])
      BY <1>3 DEF HandlerInv
    <2>2. \E i \in DOMAIN audit' :
               /\ audit'[i].action = "approve"
               /\ audit'[i].id = req[s].id
               /\ audit'[i].user = req[s].user
               /\ audit'[i].role = req[s].role
      BY <2>1, ApprovalStays DEF LogKept
    <2> QED
      BY <2>1, <2>2 DEF ApprovedBy
  <1> QED
    BY <1>2, <1>3

\* Handlers that do not move keep what is said of them.
LEMMA HandlersKept ==
    ASSUME TypeOK, HandlerInv, ProposalsKept, LogKept, HandlersAdvance
    PROVE  HandlerInv'
  <1> SUFFICES ASSUME NEW s \in InFlight'
               PROVE  /\ MayDecide(req'[s].op, rows'[req'[s].id], req'[s].user, req'[s].role)
                      /\ req'[s].pc # "decide" => req'[s].op = "approve" /\ ApprovedBy(req[s])'
    BY DEF HandlerInv, MayDecide, has_permission
  <1> QED
    BY OneHandlerKept DEF HandlersAdvance

\* EffectsAuthorised survives a step that records no effect.
LEMMA NoEffectKeeps ==
    ASSUME TypeOK, EffectsAuthorised,
           \A a \in Approvals : rows'[a].effect \in {rows[a].effect, NoOne},
           audit' = audit \/ \E e \in Entry : e.action # "apply" /\ LogGrows(e)
    PROVE  EffectsAuthorised'
  <1>1. CASE audit' = audit
    BY <1>1 DEF EffectsAuthorised
  <1>2. CASE \E e \in Entry : e.action # "apply" /\ LogGrows(e)
    <2>1. PICK e \in Entry : e.action # "apply" /\ LogGrows(e)
      BY <1>2
    <2>2. /\ DOMAIN audit = 1..Len(audit) /\ Len(audit) \in Nat
          /\ DOMAIN audit' = 1..(Len(audit) + 1)
          /\ \A i \in 1..Len(audit) : audit'[i] = audit[i]
          /\ audit'[Len(audit) + 1] = e
      BY <2>1, AppendFacts DEF LogGrows, TypeOK
    <2>3. ASSUME NEW i \in DOMAIN audit', audit'[i].action = "apply"
          PROVE  \E j \in 1..(i - 1) :
                    /\ audit'[j].action = "approve"
                    /\ audit'[j].id = audit'[i].id
                    /\ audit'[j].user = audit'[i].user
                    /\ audit'[j].role = audit'[i].role
      <3>1. i \in 1..Len(audit) /\ audit[i].action = "apply"
        BY <2>1, <2>2, <2>3
      <3>2. PICK j \in 1..(i - 1) :
                    /\ audit[j].action = "approve"
                    /\ audit[j].id = audit[i].id
                    /\ audit[j].user = audit[i].user
                    /\ audit[j].role = audit[i].role
        BY <2>2, <3>1 DEF EffectsAuthorised
      <3>3. j \in 1..Len(audit)
        BY <2>2, <3>1, <3>2
      <3> QED
        BY <2>2, <3>1, <3>2, <3>3
    <2>4. ASSUME NEW a \in Approvals, rows'[a].effect # NoOne
          PROVE  \E i \in DOMAIN audit' :
                    /\ audit'[i].action = "apply"
                    /\ audit'[i].id = a
                    /\ audit'[i].result = rows'[a].effect
      <3>1. PICK i \in DOMAIN audit :
                    /\ audit[i].action = "apply"
                    /\ audit[i].id = a
                    /\ audit[i].result = rows[a].effect
        BY <2>4 DEF EffectsAuthorised
      <3>2. i \in DOMAIN audit' /\ audit'[i] = audit[i]
        BY <2>2, <3>1
      <3> QED
        BY <2>4, <3>1, <3>2
    <2> QED
      BY <2>3, <2>4 DEF EffectsAuthorised
  <1> QED
    BY <1>1, <1>2

\* Initially no approval exists and no handler runs.
LEMMA InitInv == Init => Inv
  <1> SUFFICES ASSUME Init PROVE Inv
    OBVIOUS
  <1>1. TypeOK
    BY InitType
  <1>2. InFlight = {}
    BY DEF Init, InFlight, NewRequest
  <1>3. DOMAIN audit = {} /\ \A a \in Approvals : rows[a].state = "absent" /\ rows[a].effect = NoOne
    BY DEF Init, NoRow
  <1> QED
    BY <1>1, <1>2, <1>3
    DEF Inv, HandlerInv, SeparationOfDuties, AuditTruth, EffectsAuthorised,
        DecisionEntries, TERMINAL_STATES

\* An answered handler is done; an absent row has no effect.
LEMMA AnsweredFacts == Answered.pc = "done" /\ NoRow.effect = NoOne /\ NoRow.state = "absent"
  BY DEF Answered, NewRequest, NoRow

\* Steps that commit no decision, record no effect and start no handler.
LEMMA PlainStep ==
    ASSUME Inv, TypeOK', HandlersAdvance, NoDecision,
           \A a \in Approvals : rows'[a].effect \in {rows[a].effect, NoOne},
           audit' = audit \/ \E e \in Entry : e.action \notin DECISIONS /\ e.action # "apply" /\ LogGrows(e)
    PROVE  Inv'
  <1>1. SeparationOfDuties' /\ AuditTruth'
    BY NoDecisionKeeps DEF Inv
  <1>2. HandlerInv'
    BY HandlersKept DEF Inv, NoDecision, ProposalsKept, LogKept
  <1>3. EffectsAuthorised'
    BY NoEffectKeeps DEF Inv
  <1> QED
    BY <1>1, <1>2, <1>3 DEF Inv

\* The commit of a decision keeps the invariant.
LEMMA InvDecide ==
    ASSUME Inv, TypeOK', NEW r \in Requests, Decide(r)
    PROVE  Inv'
  <1> DEFINE q == req[r]
             e == AuditEntry(q.op, q.id, q.user, q.role, ACTION_TARGET[q.op])
  <1>1. /\ r \in InFlight /\ q \in Handler /\ q.pc = "decide"
        /\ q.id \in Approvals /\ Exists(q.id) /\ q.op \in DECISIONS
        /\ q.user \in Users /\ q.role \in VALID_ROLES
    BY DEF Decide, Inv, TypeOK, InFlight
  <1>2. /\ e \in Entry /\ e.action = q.op /\ e.id = q.id /\ e.user = q.user
        /\ e.role = q.role /\ e.result = ACTION_TARGET[q.op]
    BY <1>1, ActionTargets DEF AuditEntry, Entry, TERMINAL_STATES, APPROVAL_STATES
  <1>3. LogGrows(e)
    BY <1>2 DEF Decide, LogGrows
  <1>4. /\ rows' = [rows EXCEPT ![q.id] = DecidedRow(rows[q.id], q)]
        /\ rows[q.id] \in Row
    BY <1>1 DEF Decide, Inv, TypeOK
  <1>5. /\ rows'[q.id].state = ACTION_TARGET[q.op]
        /\ rows'[q.id].decided_by = q.user
        /\ rows'[q.id].decided_role = q.role
        /\ rows'[q.id].prop = rows[q.id].prop
        /\ rows'[q.id].proposed_by = rows[q.id].proposed_by
        /\ rows'[q.id].effect = rows[q.id].effect
        /\ \A a \in Approvals : a # q.id => rows'[a] = rows[a]
    BY <1>1, <1>4, RowUpdates DEF Inv, TypeOK
  <1>6. MayDecide(q.op, rows[q.id], q.user, q.role)
    BY <1>1 DEF Inv, HandlerInv
  <1>7. /\ DOMAIN audit = 1..Len(audit) /\ Len(audit) \in Nat
        /\ DOMAIN audit' = 1..(Len(audit) + 1)
        /\ \A i \in 1..Len(audit) : audit'[i] = audit[i]
        /\ audit'[Len(audit) + 1] = e
    BY <1>2, <1>3, AppendFacts DEF LogGrows, Inv, TypeOK
  <1>8. SeparationOfDuties'
    <2> SUFFICES ASSUME NEW a \in Approvals
                 PROVE  /\ rows'[a].state \in {"approved", "rejected"} =>
                             /\ rows'[a].decided_by \in Users \ {rows'[a].proposed_by}
                             /\ has_permission(rows'[a].decided_role,
                                               APPROVE_CODE[rows'[a].prop.type])
                        /\ rows'[a].state = "withdrawn" =>
                             rows'[a].decided_by = rows'[a].proposed_by
      BY DEF SeparationOfDuties, has_permission
    <2>1. CASE a # q.id
      BY <1>5, <2>1 DEF Inv, SeparationOfDuties
    <2>2. CASE a = q.id /\ q.op = "withdraw"
      BY <1>5, <1>6, <2>2, ActionTargets DEF MayDecide
    <2>3. CASE a = q.id /\ q.op # "withdraw"
      BY <1>1, <1>5, <1>6, <2>3, ActionTargets DEF MayDecide, DECISIONS
    <2> QED
      BY <2>1, <2>2, <2>3
  <1>9. AuditTruth'
    <2> SUFFICES ASSUME NEW a \in Approvals
                 PROVE  IF rows'[a].state \in TERMINAL_STATES
                          THEN \E i \in DecisionEntries(a)' :
                                  /\ \A j \in DecisionEntries(a)' : j <= i
                                  /\ audit'[i].result = rows'[a].state
                                  /\ audit'[i].user = rows'[a].decided_by
                                  /\ audit'[i].role = rows'[a].decided_role
                          ELSE DecisionEntries(a)' = {}
      BY DEF AuditTruth
    <2> HIDE DEF q, e
    <2>1. CASE a # q.id
      <3>1. DecisionEntries(a)' = DecisionEntries(a)
            /\ \A i \in DecisionEntries(a) : audit'[i] = audit[i]
        BY <1>2, <1>7, <2>1 DEF DecisionEntries
      <3> QED
        BY <1>5, <2>1, <3>1 DEF Inv, AuditTruth
    <2>2. CASE a = q.id
      <3>1. Len(audit) + 1 \in DecisionEntries(a)'
        BY <1>1, <1>2, <1>7, <2>2 DEF DecisionEntries
      <3>2. \A j \in DecisionEntries(a)' : j <= Len(audit) + 1
        BY <1>7 DEF DecisionEntries
      <3>3. rows'[a].state \in TERMINAL_STATES
        BY <1>1, <1>5, <2>2, ActionTargets
      <3> QED
        BY <1>2, <1>5, <1>7, <2>2, <3>1, <3>2, <3>3
    <2> QED
      BY <2>1, <2>2
  <1>10. ProposalsKept /\ LogKept
    BY <1>2, <1>3, <1>5 DEF ProposalsKept, LogKept
  <1>11. HandlerInv'
    <2> SUFFICES ASSUME NEW s \in InFlight'
                 PROVE  /\ MayDecide(req'[s].op, rows'[req'[s].id], req'[s].user, req'[s].role)
                        /\ req'[s].pc # "decide" => req'[s].op = "approve" /\ ApprovedBy(req[s])'
      BY DEF HandlerInv, MayDecide, has_permission
    <2>1. /\ s \in InFlight
          /\ req'[s].id = req[s].id /\ req'[s].op = req[s].op
          /\ req'[s].user = req[s].user /\ req'[s].role = req[s].role
          /\ s # r => req'[s].pc = req[s].pc
          /\ s = r => q.op = "approve"
      BY <1>1, AnsweredFacts DEF Decide, InFlight, Inv, TypeOK, Handler
    <2>2. CASE s # r
      BY <1>10, <2>1, <2>2, OneHandlerKept DEF Inv
    <2>3. CASE s = r
      <3>1. ApprovedBy(req[s])'
        BY <1>2, <1>7, <2>1, <2>3 DEF ApprovedBy
      <3> QED
        BY <1>10, <2>1, <2>3, <3>1, OneHandlerKept DEF Inv
    <2> QED
      BY <2>2, <2>3
  <1>12. EffectsAuthorised'
    <2>1. e.action # "apply"
      BY <1>1, <1>2 DEF DECISIONS
    <2>2. \A a \in Approvals : rows'[a].effect \in {rows[a].effect, NoOne}
      BY <1>5
    <2> QED
      BY <1>2, <1>3, <2>1, <2>2, NoEffectKeeps DEF Inv
  <1> QED
    BY <1>8, <1>9, <1>11, <1>12 DEF Inv

\* The SELECT and its checks establish what the handler may rely on.
LEMMA InvRead ==
    ASSUME Inv, TypeOK', NEW r \in Requests, NEW op \in DECISIONS, NEW a \in Approvals,
           NEW u \in Users, NEW role \in VALID_ROLES, Read(r, op, a, u, role)
    PROVE  Inv'
  <1>1. UNCHANGED <<rows, audit>> /\ NoDecision /\ ProposalsKept /\ LogKept
    BY DEF Read, NoDecision, ProposalsKept, LogKept, Inv, TypeOK, Exists
  <1>2. SeparationOfDuties' /\ AuditTruth'
    BY <1>1, NoDecisionKeeps DEF Inv
  <1>3. EffectsAuthorised'
    BY <1>1, NoEffectKeeps DEF Inv
  <1>4. HandlerInv'
    <2> SUFFICES ASSUME NEW s \in InFlight'
                 PROVE  /\ MayDecide(req'[s].op, rows'[req'[s].id], req'[s].user, req'[s].role)
                        /\ req'[s].pc # "decide" => req'[s].op = "approve" /\ ApprovedBy(req[s])'
      BY DEF HandlerInv, MayDecide, has_permission
    <2>1. CASE s = r
      BY <1>1, <2>1 DEF Read, Inv, TypeOK
    <2>2. CASE s # r
      <3>1. s \in InFlight /\ req'[s] = req[s]
        BY <2>2 DEF Read, InFlight, Inv, TypeOK
      <3> QED
        BY <1>1, <3>1, OneHandlerKept DEF Inv
    <2> QED
      BY <2>1, <2>2
  <1> QED
    BY <1>2, <1>3, <1>4 DEF Inv

\* The commit of an effect keeps the invariant.
LEMMA InvRecord ==
    ASSUME Inv, TypeOK', NEW r \in Requests, RecordEffect(r)
    PROVE  Inv'
  <1> DEFINE q == req[r]
             e == AuditEntry("apply", q.id, q.user, q.role, q.outcome)
  <1>1. /\ r \in InFlight /\ q \in Handler /\ q.pc = "record"
        /\ q.id \in Approvals /\ Exists(q.id) /\ q.outcome \in EFFECTS
        /\ q.user \in Users /\ q.role \in VALID_ROLES
    BY DEF RecordEffect, Inv, TypeOK, InFlight
  <1>2. /\ e \in Entry /\ e.action = "apply" /\ e.id = q.id /\ e.user = q.user
        /\ e.role = q.role /\ e.result = q.outcome /\ e.action \notin DECISIONS
    BY <1>1 DEF AuditEntry, Entry, DECISIONS
  <1>3. LogGrows(e)
    BY <1>2 DEF RecordEffect, LogGrows
  <1>4. /\ rows'[q.id].state = rows[q.id].state
        /\ rows'[q.id].decided_by = rows[q.id].decided_by
        /\ rows'[q.id].decided_role = rows[q.id].decided_role
        /\ rows'[q.id].prop = rows[q.id].prop
        /\ rows'[q.id].proposed_by = rows[q.id].proposed_by
        /\ rows'[q.id].effect = q.outcome
        /\ \A a \in Approvals : a # q.id => rows'[a] = rows[a]
    BY <1>1, EffectUpdate DEF RecordEffect, Inv, TypeOK
  <1>5. NoDecision /\ ProposalsKept /\ LogKept
    <2> HIDE DEF q, e
    <2>1. \A a \in Approvals : ~Exists(a) => rows'[a].state \in {"absent", "pending"}
      BY <1>1, <1>4 DEF Exists
    <2> QED
      BY <1>2, <1>3, <1>4, <2>1 DEF NoDecision, ProposalsKept, LogKept
  <1>6. SeparationOfDuties' /\ AuditTruth'
    BY <1>5, NoDecisionKeeps DEF Inv
  <1>7. HandlersAdvance
    BY <1>1, AnsweredFacts DEF HandlersAdvance, RecordEffect, InFlight, Inv, TypeOK, Handler
  <1>8. HandlerInv'
    BY <1>5, <1>7, HandlersKept DEF Inv
  <1>9. ApprovedBy(q)
    BY <1>1 DEF Inv, HandlerInv
  <1>10. EffectsAuthorised'
    <2> HIDE DEF q, e
    <2>1. /\ DOMAIN audit = 1..Len(audit) /\ Len(audit) \in Nat
          /\ DOMAIN audit' = 1..(Len(audit) + 1)
          /\ \A i \in 1..Len(audit) : audit'[i] = audit[i]
          /\ audit'[Len(audit) + 1] = e
      BY <1>2, <1>3, AppendFacts DEF LogGrows, Inv, TypeOK
    <2>2. PICK k \in 1..Len(audit) :
               /\ audit[k].action = "approve"
               /\ audit[k].id = q.id
               /\ audit[k].user = q.user
               /\ audit[k].role = q.role
      BY <1>9, <2>1 DEF ApprovedBy
    <2>3. ASSUME NEW i \in DOMAIN audit', audit'[i].action = "apply"
          PROVE  \E j \in 1..(i - 1) :
                    /\ audit'[j].action = "approve"
                    /\ audit'[j].id = audit'[i].id
                    /\ audit'[j].user = audit'[i].user
                    /\ audit'[j].role = audit'[i].role
      <3>1. CASE i = Len(audit) + 1
        <4>1. k \in 1..(i - 1)
          BY <2>1, <2>2, <3>1
        <4> QED
          BY <1>2, <2>1, <2>2, <3>1, <4>1
      <3>2. CASE i \in 1..Len(audit)
        <4>1. PICK j \in 1..(i - 1) :
                    /\ audit[j].action = "approve"
                    /\ audit[j].id = audit[i].id
                    /\ audit[j].user = audit[i].user
                    /\ audit[j].role = audit[i].role
          BY <2>1, <2>3, <3>2 DEF Inv, EffectsAuthorised
        <4>2. j \in 1..Len(audit)
          BY <2>1, <3>2, <4>1
        <4> QED
          BY <2>1, <3>2, <4>1, <4>2
      <3> QED
        BY <2>1, <2>3, <3>1, <3>2
    <2>4. ASSUME NEW a \in Approvals, rows'[a].effect # NoOne
          PROVE  \E i \in DOMAIN audit' :
                    /\ audit'[i].action = "apply"
                    /\ audit'[i].id = a
                    /\ audit'[i].result = rows'[a].effect
      <3>1. CASE a = q.id
        <4>1. Len(audit) + 1 \in DOMAIN audit'
          BY <2>1
        <4> QED
          BY <1>2, <1>4, <2>1, <3>1, <4>1
      <3>2. CASE a # q.id
        <4>1. PICK i \in DOMAIN audit :
                    /\ audit[i].action = "apply"
                    /\ audit[i].id = a
                    /\ audit[i].result = rows[a].effect
          BY <1>4, <2>4, <3>2 DEF Inv, EffectsAuthorised
        <4>2. i \in DOMAIN audit' /\ audit'[i] = audit[i]
          BY <2>1, <4>1
        <4> QED
          BY <1>4, <3>2, <4>1, <4>2
      <3> QED
        BY <3>1, <3>2
    <2> QED
      BY <2>3, <2>4 DEF EffectsAuthorised
  <1> QED
    BY <1>6, <1>8, <1>10 DEF Inv

\* Every step of the workflow preserves the inductive invariant.
LEMMA InvStep == Inv /\ [Next]_vars => Inv'
  <1> SUFFICES ASSUME Inv, [Next]_vars PROVE Inv'
    OBVIOUS
  <1>t. TypeOK'
    BY TypeStep DEF Inv
  <1> USE ApprovalsAssumption
  <1>1. ASSUME NEW a \in Approvals, NEW p \in Proposals, NEW u \in Users,
               NEW role \in VALID_ROLES, Propose(a, p, u, role)
        PROVE  Inv'
    <2> DEFINE e == AuditEntry("propose", a, u, role, "pending")
    <2>1. e \in Entry /\ e.action = "propose" /\ LogGrows(e)
      BY <1>1 DEF Propose, LogGrows, AuditEntry, Entry, APPROVAL_STATES
    <2>2. rows'[a].state = "pending" /\ rows'[a].effect = NoOne
          /\ \A b \in Approvals : b # a => rows'[b] = rows[b]
      BY <1>1 DEF Propose, NoRow, Inv, TypeOK
    <2>3. ~Exists(a)
      BY <1>1 DEF Propose
    <2> HIDE DEF e
    <2>4. NoDecision
      BY <2>1, <2>2, <2>3 DEF NoDecision, Exists, DECISIONS
    <2>5. HandlersAdvance
      BY <1>1 DEF HandlersAdvance, Propose, InFlight
    <2> QED
      BY <1>t, <2>1, <2>2, <2>4, <2>5, PlainStep DEF DECISIONS
  <1>2. ASSUME NEW r \in Requests, NEW op \in DECISIONS, NEW u \in Users,
               NEW role \in VALID_ROLES, Deny(r, op, u, role)
        PROVE  Inv'
    <2> DEFINE e == AuditEntry("authz.denied", NoOne, u, role, "denied")
    <2>1. e \in Entry /\ e.action = "authz.denied"
      BY DEF AuditEntry, Entry
    <2>2. (audit' = audit \/ LogGrows(e)) /\ UNCHANGED rows
      BY <1>2, <2>1 DEF Deny, LogGrows
    <2> HIDE DEF e
    <2>3. NoDecision
      BY <2>1, <2>2 DEF NoDecision, Exists, DECISIONS
    <2>4. HandlersAdvance
      BY <1>2, AnsweredFacts DEF HandlersAdvance, Deny, InFlight, Inv, TypeOK
    <2> QED
      BY <1>t, <2>1, <2>2, <2>3, <2>4, PlainStep DEF DECISIONS
  <1>3. ASSUME NEW r \in Requests, NEW op \in DECISIONS, NEW u \in Users,
               NEW role \in VALID_ROLES, NEW a \in Approvals, Refuse(r, op, a, u, role)
        PROVE  Inv'
    <2>1. NoDecision /\ UNCHANGED <<rows, audit>>
      BY <1>3 DEF Refuse, NoDecision, Exists
    <2>2. HandlersAdvance
      BY <1>3, AnsweredFacts DEF HandlersAdvance, Refuse, InFlight, Inv, TypeOK
    <2> QED
      BY <1>t, <2>1, <2>2, PlainStep
  <1>4. ASSUME NEW r \in Requests, NEW op \in DECISIONS, NEW u \in Users,
               NEW role \in VALID_ROLES, NEW a \in Approvals, Read(r, op, a, u, role)
        PROVE  Inv'
    BY <1>t, <1>4, InvRead
  <1>5. ASSUME NEW r \in Requests, Decide(r)
        PROVE  Inv'
    BY <1>t, <1>5, InvDecide
  <1>6. ASSUME NEW r \in Requests, ApplyEffect(r)
        PROVE  Inv'
    <2>1. NoDecision /\ UNCHANGED <<rows, audit>>
      BY <1>6 DEF ApplyEffect, NoDecision, Exists
    <2>2. req[r] \in Handler /\ req[r].pc = "effect"
      BY <1>6 DEF ApplyEffect, Inv, TypeOK
    <2>3. HandlersAdvance
      BY <1>6, <2>2 DEF HandlersAdvance, ApplyEffect, InFlight, Inv, TypeOK, Handler
    <2> QED
      BY <1>t, <2>1, <2>3, PlainStep
  <1>7. ASSUME NEW r \in Requests, EffectRaises(r)
        PROVE  Inv'
    <2>1. NoDecision /\ UNCHANGED <<rows, audit>>
      BY <1>7 DEF EffectRaises, NoDecision, Exists
    <2>2. HandlersAdvance
      BY <1>7, AnsweredFacts DEF HandlersAdvance, EffectRaises, InFlight, Inv, TypeOK
    <2> QED
      BY <1>t, <2>1, <2>2, PlainStep
  <1>8. ASSUME NEW r \in Requests, RecordEffect(r)
        PROVE  Inv'
    BY <1>t, <1>8, InvRecord
  <1>9. ASSUME NEW r \in Requests, RaiseAlarm(r)
        PROVE  Inv'
    <2> DEFINE e == AuditEntry("alarm.raised", req[r].id, NoOne, NoOne, "active")
    <2>1. e \in Entry /\ e.action = "alarm.raised" /\ LogGrows(e) /\ UNCHANGED rows
      BY <1>9 DEF RaiseAlarm, LogGrows, Inv, TypeOK, InFlight, AuditEntry, Entry
    <2> HIDE DEF e
    <2>2. NoDecision
      BY <2>1 DEF NoDecision, Exists, DECISIONS
    <2>3. HandlersAdvance
      BY <1>9, AnsweredFacts DEF HandlersAdvance, RaiseAlarm, InFlight, Inv, TypeOK
    <2> QED
      BY <1>t, <2>1, <2>2, <2>3, PlainStep DEF DECISIONS
  <1>10. ASSUME NEW r \in Requests, PublishModelChanged(r)
         PROVE  Inv'
    <2>1. NoDecision /\ UNCHANGED <<rows, audit>>
      BY <1>10 DEF PublishModelChanged, NoDecision, Exists
    <2>2. HandlersAdvance
      BY <1>10, AnsweredFacts DEF HandlersAdvance, PublishModelChanged, InFlight, Inv, TypeOK
    <2> QED
      BY <1>t, <2>1, <2>2, PlainStep
  <1>11. ASSUME Crash
         PROVE  Inv'
    <2>1. NoDecision /\ UNCHANGED <<rows, audit>>
      BY <1>11 DEF Crash, NoDecision, Exists
    <2>2. HandlersAdvance
      BY <1>11, AnsweredFacts DEF HandlersAdvance, Crash, InFlight, Inv, TypeOK
    <2> QED
      BY <1>t, <2>1, <2>2, PlainStep
  <1>12. CASE UNCHANGED vars
    <2>1. NoDecision /\ UNCHANGED <<rows, audit>>
      BY <1>12 DEF vars, NoDecision, Exists
    <2>2. HandlersAdvance
      BY <1>12 DEF vars, HandlersAdvance, InFlight
    <2> QED
      BY <1>t, <2>1, <2>2, PlainStep
  <1> QED
    BY <1>1, <1>2, <1>3, <1>4, <1>5, <1>6, <1>7, <1>8, <1>9, <1>10, <1>11, <1>12
    DEF Next, Arrive, Continue, Quiescent

\* Under every interleaving of handlers, crashes included, an approval is
\* approved or rejected only by somebody other than its proposer holding the
\* approve code, and withdrawn only by its proposer.
THEOREM SeparationHolds == Spec => []SeparationOfDuties
  <1>1. Inv => SeparationOfDuties
    BY DEF Inv
  <1> QED
    BY <1>1, InitInv, InvStep, PTL DEF Spec

\* The decision a row shows is always the last one the audit log records.
THEOREM AuditTruthHolds == Spec => []AuditTruth
  <1>1. Inv => AuditTruth
    BY DEF Inv
  <1> QED
    BY <1>1, InitInv, InvStep, PTL DEF Spec

\* No side effect is ever recorded without an earlier approval by the same user.
THEOREM EffectsAuthorisedHolds == Spec => []EffectsAuthorised
  <1>1. Inv => EffectsAuthorised
    BY DEF Inv
  <1> QED
    BY <1>1, InitInv, InvStep, PTL DEF Spec

(***************************************************************************)
(* One request at a time: the workflow implements DecisionRegister.  The   *)
(* row a handler works on is then still as the handler read or left it,    *)
(* and a row that nobody has decided bears no trace of a decision.         *)
(***************************************************************************)
UndisturbedRow(q) ==
    /\ q.pc = "decide" => rows[q.id].state = "pending"
    /\ q.pc \in {"effect", "record"} =>
          rows[q.id].state = "approved" /\ rows[q.id].effect = NoOne

Untouched(row) ==
    /\ row.state = "absent" => row = NoRow
    /\ row.state = "pending" => row.decided_by = NoOne /\ row.effect = NoOne

SerialInv ==
    /\ \A r, s \in InFlight : r = s
    /\ \A r \in InFlight : UndisturbedRow(req[r])
    /\ \A a \in Approvals : Untouched(rows[a])

\* It holds initially: no row and no handler.
LEMMA SerialInit == Init => SerialInv
  BY DEF Init, SerialInv, Untouched, InFlight, NewRequest, NoRow

\* Steps that leave the table alone and start no handler.
LEMMA SerialPlain ==
    ASSUME SerialInv, rows' = rows, InFlight' \subseteq InFlight,
           \A r \in InFlight' :
              /\ req'[r].id = req[r].id
              /\ req'[r].pc = "decide" => req[r].pc = "decide"
              /\ req'[r].pc \in {"effect", "record"} => req[r].pc \in {"effect", "record"}
    PROVE  SerialInv' /\ UNCHANGED Decisions
  <1>1. \A r \in InFlight' : UndisturbedRow(req[r])'
    BY DEF SerialInv, UndisturbedRow
  <1> QED
    BY <1>1 DEF SerialInv, Untouched, Decisions

\* A proposal is entered in the register.
LEMMA SerialPropose ==
    ASSUME Inv, SerialInv, NEW a \in Approvals, NEW p \in Proposals, NEW u \in Users,
           NEW role \in VALID_ROLES, Propose(a, p, u, role)
    PROVE  SerialInv' /\ Register!Propose(a, u)
  <1>1. /\ rows[a] = NoRow
        /\ rows' = [rows EXCEPT ![a] = [NoRow EXCEPT !.state = "pending",
                                                     !.prop = p, !.proposed_by = u]]
        /\ UNCHANGED req
    BY DEF Propose, SerialInv, Untouched, Exists
  <1>2. \A r \in InFlight : req[r].id \in Approvals /\ req[r].id # a
    BY <1>1 DEF Inv, TypeOK, Exists, NoRow
  <1>3. \A b \in Approvals : b # a => rows'[b] = rows[b]
    BY <1>1 DEF Inv, TypeOK
  <1>4. /\ rows'[a].state = "pending" /\ rows'[a].proposed_by = u
        /\ rows'[a].decided_by = NoOne /\ rows'[a].effect = NoOne
    BY <1>1 DEF Inv, TypeOK, NoRow
  <1>5. SerialInv'
    <2>1. InFlight' = InFlight
      BY <1>1 DEF InFlight
    <2>2. \A r \in InFlight : UndisturbedRow(req[r])'
      BY <1>1, <1>2, <1>3 DEF SerialInv, UndisturbedRow
    <2>3. \A b \in Approvals : Untouched(rows[b])'
      BY <1>3, <1>4 DEF SerialInv, Untouched
    <2> QED
      BY <1>1, <2>1, <2>2, <2>3 DEF SerialInv
  <1>6. Register!Propose(a, u)
    <2>1. Decisions[a] = Register!Blank
      BY <1>1 DEF Decisions, Register!Blank, NoRow
    <2>2. rows[a].decided_by = NoOne /\ rows[a].effect = NoOne
      BY <1>1 DEF NoRow
    <2>3. Decisions' = [Decisions EXCEPT ![a] = [@ EXCEPT !.state = "pending", !.proposer = u]]
      BY <1>3, <1>4, <2>2 DEF Decisions
    <2> QED
      BY <2>1, <2>3 DEF Register!Propose
  <1> QED
    BY <1>5, <1>6

\* A handler starts when no other is in flight, on a pending row.
LEMMA SerialRead ==
    ASSUME ~Concurrent, Inv, SerialInv, NEW r \in Requests, NEW op \in DECISIONS,
           NEW a \in Approvals, NEW u \in Users, NEW role \in VALID_ROLES,
           Read(r, op, a, u, role)
    PROVE  SerialInv' /\ UNCHANGED Decisions
  <1>1. InFlight = {} /\ rows' = rows /\ rows[a].state = "pending"
    BY DEF Read, CanStart, can_transition
  <1>2. req'[r].pc = "decide" /\ req'[r].id = a /\ \A s \in Requests : s # r => req'[s] = req[s]
    BY DEF Read, Inv, TypeOK
  <1>3. \A s \in InFlight' : s = r
    BY <1>1, <1>2 DEF InFlight
  <1>4. UndisturbedRow(req[r])'
    BY <1>1, <1>2 DEF UndisturbedRow
  <1> QED
    BY <1>1, <1>3, <1>4 DEF SerialInv, Untouched, Decisions

\* The decision of a pending row, by somebody entitled to it.
LEMMA SerialDecide ==
    ASSUME Inv, SerialInv, NEW r \in Requests, Decide(r)
    PROVE  SerialInv' /\ Register!Next
  <1> DEFINE q == req[r]
  <1>1. /\ r \in InFlight /\ q \in Handler /\ q.pc = "decide"
        /\ q.id \in Approvals /\ q.op \in DECISIONS
        /\ q.user \in Users /\ q.role \in VALID_ROLES
    BY DEF Decide, Inv, TypeOK, InFlight
  <1>2. rows[q.id].state = "pending" /\ rows[q.id].effect = NoOne
    BY <1>1 DEF SerialInv, UndisturbedRow, Untouched
  <1>3. MayDecide(q.op, rows[q.id], q.user, q.role)
    BY <1>1 DEF Inv, HandlerInv
  <1>4. /\ rows'[q.id].state = ACTION_TARGET[q.op]
        /\ rows'[q.id].decided_by = q.user
        /\ rows'[q.id].proposed_by = rows[q.id].proposed_by
        /\ rows'[q.id].effect = NoOne
        /\ \A a \in Approvals : a # q.id => rows'[a] = rows[a]
    BY <1>1, <1>2, RowUpdates DEF Decide, Inv, TypeOK
  <1>5. /\ req'[r].pc # "decide"
        /\ req'[r].pc \in {"effect", "record"} => q.op = "approve" /\ req'[r].id = q.id
        /\ \A s \in Requests : s # r => req'[s] = req[s]
    BY <1>1, AnsweredFacts DEF Decide, Inv, TypeOK, Handler
  <1>6. ACTION_TARGET[q.op] \in TERMINAL_STATES
    BY <1>1, ActionTargets
  <1> HIDE DEF q
  <1>7. SerialInv'
    <2>1. \A s \in InFlight' : s = r
      BY <1>1, <1>5 DEF SerialInv, InFlight
    <2>2. UndisturbedRow(req[r])'
      BY <1>4, <1>5, ActionTargets DEF UndisturbedRow
    <2>3. \A a \in Approvals : Untouched(rows[a])'
      BY <1>4, <1>6 DEF SerialInv, Untouched, TERMINAL_STATES
    <2> QED
      BY <2>1, <2>2, <2>3 DEF SerialInv
  <1>8. Register!Decide(q.id, ACTION_TARGET[q.op], q.user)
    <2>1. Decisions[q.id].state = "pending" /\ Decisions[q.id].proposer = rows[q.id].proposed_by
      BY <1>1, <1>2 DEF Decisions
    <2>2. ACTION_TARGET[q.op] = "withdrawn" <=> q.user = rows[q.id].proposed_by
      BY <1>1, <1>3, ActionTargets DEF MayDecide, DECISIONS
    <2>3. Decisions' = [Decisions EXCEPT ![q.id] = [@ EXCEPT !.state = ACTION_TARGET[q.op],
                                                             !.decider = q.user]]
      BY <1>1, <1>2, <1>4 DEF Decisions
    <2> QED
      BY <2>1, <2>2, <2>3 DEF Register!Decide
  <1> QED
    BY <1>1, <1>6, <1>7, <1>8 DEF Register!Next, TERMINAL_STATES

\* The effect of an approved row that has none.
LEMMA SerialRecord ==
    ASSUME Inv, SerialInv, NEW r \in Requests, RecordEffect(r)
    PROVE  SerialInv' /\ Register!Next
  <1> DEFINE q == req[r]
  <1>1. /\ r \in InFlight /\ q \in Handler /\ q.pc = "record"
        /\ q.id \in Approvals /\ q.outcome \in EFFECTS
    BY DEF RecordEffect, Inv, TypeOK, InFlight
  <1>2. rows[q.id].state = "approved" /\ rows[q.id].effect = NoOne
    BY <1>1 DEF SerialInv, UndisturbedRow
  <1>3. /\ rows'[q.id].state = "approved"
        /\ rows'[q.id].decided_by = rows[q.id].decided_by
        /\ rows'[q.id].proposed_by = rows[q.id].proposed_by
        /\ rows'[q.id].effect = q.outcome
        /\ \A a \in Approvals : a # q.id => rows'[a] = rows[a]
    BY <1>1, <1>2, EffectUpdate DEF RecordEffect, Inv, TypeOK
  <1>4. /\ req'[r].pc \notin {"decide", "effect", "record"}
        /\ \A s \in Requests : s # r => req'[s] = req[s]
    BY <1>1, AnsweredFacts DEF RecordEffect, Inv, TypeOK, Handler
  <1> HIDE DEF q
  <1>5. SerialInv'
    <2>1. \A s \in InFlight' : s = r
      BY <1>1, <1>4 DEF SerialInv, InFlight
    <2>2. UndisturbedRow(req[r])'
      BY <1>4 DEF UndisturbedRow
    <2>3. \A a \in Approvals : Untouched(rows[a])'
      BY <1>3 DEF SerialInv, Untouched
    <2> QED
      BY <2>1, <2>2, <2>3 DEF SerialInv
  <1>6. Register!Settle(q.id, q.outcome)
    <2>1. Decisions[q.id].state = "approved" /\ Decisions[q.id].effect = NoOne
      BY <1>1, <1>2 DEF Decisions
    <2>2. Decisions' = [Decisions EXCEPT ![q.id] = [@ EXCEPT !.effect = q.outcome]]
      BY <1>1, <1>2, <1>3 DEF Decisions
    <2> QED
      BY <2>1, <2>2 DEF Register!Settle
  <1> QED
    BY <1>1, <1>5, <1>6 DEF Register!Next

\* Every step is a step of the register or leaves it alone.
LEMMA SerialStep ==
    ASSUME ~Concurrent
    PROVE  Inv /\ SerialInv /\ [Next]_vars => SerialInv' /\ [Register!Next]_Decisions
  <1> SUFFICES ASSUME Inv, SerialInv, [Next]_vars
               PROVE  SerialInv' /\ [Register!Next]_Decisions
    OBVIOUS
  <1>1. ASSUME NEW a \in Approvals, NEW p \in Proposals, NEW u \in Users,
               NEW role \in VALID_ROLES, Propose(a, p, u, role)
        PROVE  SerialInv' /\ Register!Next
    BY <1>1, SerialPropose DEF Register!Next
  <1>2. ASSUME NEW r \in Requests, NEW op \in DECISIONS, NEW a \in Approvals, NEW u \in Users,
               NEW role \in VALID_ROLES, Read(r, op, a, u, role)
        PROVE  SerialInv' /\ UNCHANGED Decisions
    BY <1>2, SerialRead
  <1>3. ASSUME NEW r \in Requests, Decide(r) \/ RecordEffect(r)
        PROVE  SerialInv' /\ Register!Next
    BY <1>3, SerialDecide, SerialRecord
  <1>4. ASSUME NEW r \in Requests, NEW op \in DECISIONS, NEW a, NEW u, NEW role,
               Deny(r, op, u, role) \/ Refuse(r, op, a, u, role)
        PROVE  SerialInv' /\ UNCHANGED Decisions
    BY <1>4, AnsweredFacts, SerialPlain DEF Deny, Refuse, InFlight, Inv, TypeOK
  <1>5. ASSUME NEW r \in Requests, ApplyEffect(r)
        PROVE  SerialInv' /\ UNCHANGED Decisions
    <2>1. req[r] \in Handler /\ req[r].pc = "effect"
      BY <1>5 DEF ApplyEffect, Inv, TypeOK
    <2> QED
      BY <1>5, <2>1, SerialPlain DEF ApplyEffect, InFlight, Inv, TypeOK, Handler
  <1>6. ASSUME NEW r \in Requests,
               EffectRaises(r) \/ RaiseAlarm(r) \/ PublishModelChanged(r)
        PROVE  SerialInv' /\ UNCHANGED Decisions
    BY <1>6, AnsweredFacts, SerialPlain
    DEF EffectRaises, RaiseAlarm, PublishModelChanged, InFlight, Inv, TypeOK
  <1>7. ASSUME Crash
        PROVE  SerialInv' /\ UNCHANGED Decisions
    BY <1>7, AnsweredFacts, SerialPlain DEF Crash, InFlight, Inv, TypeOK
  <1>8. ASSUME UNCHANGED vars
        PROVE  SerialInv' /\ UNCHANGED Decisions
    BY <1>8, SerialPlain DEF vars, InFlight
  <1> QED
    BY <1>1, <1>2, <1>3, <1>4, <1>5, <1>6, <1>7, <1>8 DEF Next, Arrive, Continue, Quiescent

\* With one request at a time the workflow is a register of final decisions,
\* for any users, proposals and crashes: no row is decided twice, by the wrong
\* person, or given an effect without an approval (approve, reject, withdraw).
THEOREM ImplementsRegister ==
    ASSUME ~Concurrent
    PROVE  Spec => RegisterSpec
  <1>1. Init => Register!Init
    BY DEF Init, Register!Init, Register!Blank, Decisions, NoRow
  <1>2. Inv /\ SerialInv /\ [Next]_vars => SerialInv' /\ [Register!Next]_Decisions
    BY SerialStep
  <1> QED
    BY <1>1, <1>2, InitInv, InvStep, SerialInit, PTL DEF Spec, RegisterSpec, Register!Spec

\* A step of the register never takes a decision back.
LEMMA RegisterKeepsDecisions ==
    ASSUME [Register!Next]_Decisions, NEW a \in Approvals, rows[a].state \in TERMINAL_STATES
    PROVE  rows'[a].state = rows[a].state
  <1>1. /\ Decisions[a].state = rows[a].state /\ Decisions'[a].state = rows'[a].state
        /\ Decisions[a].state \notin {"absent", "pending"}
    BY DEF Decisions, TERMINAL_STATES
  <1>2. /\ DOMAIN Decisions = Approvals
        /\ \A b \in Approvals : DOMAIN Decisions[b] = {"state", "proposer", "decider", "effect"}
    BY DEF Decisions
  <1> HIDE DEF Decisions
  <1>3. ASSUME NEW b \in Approvals, NEW u, Register!Propose(b, u)
        PROVE  Decisions'[a] = Decisions[a]
    BY <1>1, <1>2, <1>3 DEF Register!Propose, Register!Blank
  <1>4. ASSUME NEW b \in Approvals, NEW state, NEW u, Register!Decide(b, state, u)
        PROVE  Decisions'[a] = Decisions[a]
    BY <1>1, <1>2, <1>4 DEF Register!Decide
  <1>5. ASSUME NEW b \in Approvals, NEW effect, Register!Settle(b, effect)
        PROVE  Decisions'[a].state = Decisions[a].state
    BY <1>1, <1>2, <1>5 DEF Register!Settle
  <1> QED
    BY <1>1, <1>3, <1>4, <1>5 DEF Register!Next

\* A decided approval never changes its state while requests do not overlap:
\* what domain/approvals.py says of next_state fails by overlapping reads only.
THEOREM DecidedIsFinal ==
    ASSUME ~Concurrent
    PROVE  Spec => DecidedIsTerminal
  <1>1. Inv /\ SerialInv /\ [Next]_vars => SerialInv' /\ [Register!Next]_Decisions
    BY SerialStep
  <1>2. Inv /\ SerialInv /\ [Next]_vars =>
           [\A a \in Approvals :
               rows[a].state \in TERMINAL_STATES => rows'[a].state = rows[a].state]_vars
    BY <1>1, RegisterKeepsDecisions
  <1> QED
    BY <1>1, <1>2, InitInv, InvStep, SerialInit, PTL DEF Spec, DecidedIsTerminal

(***************************************************************************)
(* The registry and the event.  An entry of the log names an approval      *)
(* whose proposal never changes again, so what the log says of a promotion *)
(* stays true; a handler past its commit has left its approve entry, and   *)
(* one that is about to publish its apply entry.                           *)
(***************************************************************************)
LogIds ==
    \A i \in DOMAIN audit :
        audit[i].action \in DECISIONS \cup {"apply"} =>
           audit[i].id \in Approvals /\ Exists(audit[i].id)

PromotionInv ==
    \A r \in InFlight :
        /\ req[r].pc = "record" /\ rows[req[r].id].prop.type = "model_promotion" =>
              req[r].outcome \in {"applied", "apply_failed"}
        /\ req[r].pc = "publish" =>
              /\ rows[req[r].id].prop.type = "model_promotion"
              /\ \E i \in DOMAIN audit : /\ audit[i].action = "apply"
                                         /\ audit[i].result = "applied"
                                         /\ audit[i].id = req[r].id

RegistryInv ==
    /\ LogIds
    /\ PromotionInv
    /\ models \in Seq(ModelRecord) /\ DOMAIN models = DOMAIN InitialModels
    /\ ActiveVersionWasApproved
    /\ ModelChangedIsRecorded

\* A set of positions that is not empty has a first one.
LEMMA MinIsMember ==
    ASSUME NEW S, S \subseteq Nat, S # {}
    PROVE  Min(S) \in S
  <1> DEFINE R == OpToRel(<, Nat)
  <1>1. IsWellFoundedOn(R, Nat)
    BY NatLessThanWellFounded
  <1>2. R = {ss \in Nat \X Nat : ss[1] < ss[2]}
    BY DEF OpToRel
  <1> HIDE DEF R
  <1>3. PICK x \in S : \A y \in S : ~(<<y, x>> \in R)
    BY <1>1, WFMin
  <1>4. \A y \in S : ~(y < x)
    BY <1>2, <1>3
  <1>5. \A y \in S : x =< y
    BY <1>4
  <1> QED
    BY <1>5, Zenon DEF Min

\* A position after which there is none is the last one.
LEMMA MaxIs ==
    ASSUME NEW S, S \subseteq Nat, NEW m \in S, \A i \in S : i <= m
    PROVE  Max(S) = m
  <1>1. \A x \in S : (\A y \in S : x >= y) => x = m
    OBVIOUS
  <1>2. \A y \in S : m >= y
    OBVIOUS
  <1> QED
    BY <1>1, <1>2, Zenon DEF Max

\* The index promote() looks up is the one of a record of the version.
LEMMA TargetFacts ==
    ASSUME NEW ms \in Seq(ModelRecord), NEW s, NEW v, CanPromote(ms, s, v)
    PROVE  LET target == TargetIndex(ms, s, v)
           IN  /\ target \in DOMAIN ms
               /\ ms[target].scenario_id = s /\ ms[target].version = v
  <1> DEFINE I == {i \in 1 .. Len(ms) : ms[i].scenario_id = s /\ ms[i].version = v}
  <1>1. TargetIndex(ms, s, v) = IF I # {} THEN Min(I) ELSE 0
    BY DEF TargetIndex, SelectInSeq
  <1>2. DOMAIN ms = 1 .. Len(ms) /\ Len(ms) \in Nat
    BY LenProperties
  <1>3. I # {} /\ I \subseteq Nat
    BY <1>1, <1>2 DEF CanPromote
  <1>4. TargetIndex(ms, s, v) \in I
    BY <1>1, <1>3, MinIsMember
  <1> QED
    BY <1>2, <1>4

\* promote makes the record of the version the only active one of its scenario
\* and leaves the other scenarios alone.
LEMMA PromoteFacts ==
    ASSUME NEW ms \in Seq(ModelRecord), NEW s, NEW v, CanPromote(ms, s, v),
           NEW new, new = Promote(ms, s, v)
    PROVE  /\ new \in Seq(ModelRecord) /\ DOMAIN new = DOMAIN ms
           /\ \A k \in DOMAIN ms : /\ new[k].scenario_id = ms[k].scenario_id
                                   /\ new[k].version = ms[k].version
           /\ \A k \in DOMAIN ms :
                 new[k].status = "active" =>
                    ms[k].status = "active" \/ (ms[k].scenario_id = s /\ ms[k].version = v)
           /\ \E k \in ActiveIndices(new, s) : ActiveIndices(new, s) = {k} /\ new[k].version = v
           /\ \A o : o # s => ActiveIndices(new, o) = ActiveIndices(ms, o)
  <1>1. PICK target : target = TargetIndex(ms, s, v)
    OBVIOUS
  <1>2. target \in DOMAIN ms /\ ms[target].scenario_id = s /\ ms[target].version = v
    BY <1>1, TargetFacts
  <1>3. /\ Len(ms) \in Nat /\ DOMAIN ms = 1 .. Len(ms)
        /\ \A k \in DOMAIN ms : ms[k] \in ModelRecord
    BY LenProperties, ElementOfSeq
  <1>4. new = [k \in DOMAIN ms |->
                  IF k = target
                    THEN [ms[k] EXCEPT !.status = "active"]
                  ELSE IF ms[k].scenario_id = s /\ ms[k].status = "active"
                    THEN [ms[k] EXCEPT !.status = "archived"]
                  ELSE ms[k]]
    BY <1>1 DEF Promote
  <1>5. ASSUME NEW k \in DOMAIN ms
        PROVE  /\ new[k] \in ModelRecord
               /\ new[k].scenario_id = ms[k].scenario_id
               /\ new[k].version = ms[k].version
               /\ k = target => new[k].status = "active"
               /\ k # target /\ ms[k].scenario_id = s => new[k].status # "active"
               /\ k # target /\ ms[k].scenario_id # s => new[k].status = ms[k].status
    <2>1. ms[k] \in ModelRecord
      BY <1>3
    <2>2. CASE k = target
      <3>1. new[k] = [ms[k] EXCEPT !.status = "active"]
        BY <1>4, <2>2
      <3> QED
        BY <2>1, <2>2, <3>1 DEF ModelRecord, MODEL_STATUSES
    <2>3. CASE k # target /\ ms[k].scenario_id = s /\ ms[k].status = "active"
      <3>1. new[k] = [ms[k] EXCEPT !.status = "archived"]
        BY <1>4, <2>3
      <3> QED
        BY <2>1, <2>3, <3>1 DEF ModelRecord, MODEL_STATUSES
    <2>4. CASE k # target /\ ~(ms[k].scenario_id = s /\ ms[k].status = "active")
      <3>1. new[k] = ms[k]
        BY <1>4, <2>4
      <3> QED
        BY <2>1, <2>4, <3>1
    <2> QED
      BY <2>2, <2>3, <2>4
  <1>6. DOMAIN new = DOMAIN ms /\ new \in [1 .. Len(ms) -> ModelRecord]
    BY <1>3, <1>4, <1>5
  <1>7. new \in Seq(ModelRecord)
    BY <1>3, <1>6, SeqDef
  <1>8. ActiveIndices(new, s) = {target} /\ new[target].version = v
    BY <1>2, <1>5, <1>6 DEF ActiveIndices
  <1>9. \A o : o # s => ActiveIndices(new, o) = ActiveIndices(ms, o)
    BY <1>2, <1>5, <1>6 DEF ActiveIndices
  <1>10. \A k \in DOMAIN ms :
            new[k].status = "active" =>
               ms[k].status = "active" \/ (ms[k].scenario_id = s /\ ms[k].version = v)
    BY <1>2, <1>5
  <1> QED
    BY <1>5, <1>6, <1>7, <1>8, <1>9, <1>10

\* What a step may do to the table and the log: approvals and their proposals
\* stay, and an entry that is added is about an approval that exists.
Frame ==
    /\ ProposalsKept
    /\ \A a \in Approvals : Exists(a) => Exists(a)'
    /\ \/ audit' = audit
       \/ \E e \in Entry : /\ LogGrows(e)
                           /\ e.action \in DECISIONS \cup {"apply"} =>
                                 e.id \in Approvals /\ Exists(e.id)

\* Every step is one of these.
LEMMA FrameStep ==
    ASSUME Inv, [Next]_vars
    PROVE  Frame
  <1> USE ApprovalsAssumption
  <1>1. ASSUME NEW a \in Approvals, NEW p \in Proposals, NEW u \in Users,
               NEW role \in VALID_ROLES, Propose(a, p, u, role)
        PROVE  Frame
    <2>1. PICK e : e = AuditEntry("propose", a, u, role, "pending")
      OBVIOUS
    <2>2. e \in Entry /\ e.action = "propose" /\ LogGrows(e)
      BY <1>1, <2>1 DEF Propose, LogGrows, AuditEntry, Entry, APPROVAL_STATES
    <2>3. ~Exists(a) /\ \A b \in Approvals : b # a => rows'[b] = rows[b]
      BY <1>1 DEF Propose, Inv, TypeOK
    <2> QED
      BY <2>2, <2>3 DEF Frame, ProposalsKept, Exists, DECISIONS
  <1>2. ASSUME NEW r \in Requests, NEW op \in DECISIONS, NEW u \in Users,
               NEW role \in VALID_ROLES, Deny(r, op, u, role)
        PROVE  Frame
    <2>1. PICK e : e = AuditEntry("authz.denied", NoOne, u, role, "denied")
      OBVIOUS
    <2>2. e \in Entry /\ e.action = "authz.denied"
      BY <2>1 DEF AuditEntry, Entry
    <2>3. (audit' = audit \/ LogGrows(e)) /\ rows' = rows
      BY <1>2, <2>1, <2>2 DEF Deny, LogGrows
    <2> QED
      BY <2>2, <2>3 DEF Frame, ProposalsKept, Exists, DECISIONS
  <1>3. ASSUME NEW r \in Requests, Decide(r)
        PROVE  Frame
    <2>1. PICK q : q = req[r]
      OBVIOUS
    <2>2. PICK e : e = AuditEntry(q.op, q.id, q.user, q.role, ACTION_TARGET[q.op])
      OBVIOUS
    <2>3. /\ q \in Handler /\ q.id \in Approvals /\ Exists(q.id) /\ q.op \in DECISIONS
          /\ q.user \in Users /\ q.role \in VALID_ROLES
      BY <1>3, <2>1 DEF Decide, Inv, TypeOK, InFlight
    <2>4. ACTION_TARGET[q.op] \in TERMINAL_STATES
      BY <2>3, ActionTargets
    <2>5. e \in Entry /\ e.id = q.id /\ LogGrows(e)
      BY <1>3, <2>1, <2>2, <2>3, <2>4
      DEF Decide, LogGrows, AuditEntry, Entry, TERMINAL_STATES, APPROVAL_STATES
    <2>6. \A a \in Approvals : /\ rows'[a].prop = rows[a].prop
                               /\ rows'[a].proposed_by = rows[a].proposed_by
                               /\ Exists(a) => Exists(a)'
      BY <1>3, <2>1, <2>3, <2>4, RowUpdates DEF Decide, Inv, TypeOK, Exists, TERMINAL_STATES
    <2> QED
      BY <2>3, <2>5, <2>6 DEF Frame, ProposalsKept
  <1>4. ASSUME NEW r \in Requests, RecordEffect(r)
        PROVE  Frame
    <2>1. PICK q : q = req[r]
      OBVIOUS
    <2>2. PICK e : e = AuditEntry("apply", q.id, q.user, q.role, q.outcome)
      OBVIOUS
    <2>3. /\ q \in Handler /\ q.id \in Approvals /\ Exists(q.id) /\ q.outcome \in EFFECTS
          /\ q.user \in Users /\ q.role \in VALID_ROLES
      BY <1>4, <2>1 DEF RecordEffect, Inv, TypeOK, InFlight
    <2>4. e \in Entry /\ e.id = q.id /\ LogGrows(e)
      BY <1>4, <2>1, <2>2, <2>3 DEF RecordEffect, LogGrows, AuditEntry, Entry
    <2>5. \A a \in Approvals : /\ rows'[a].prop = rows[a].prop
                               /\ rows'[a].proposed_by = rows[a].proposed_by
                               /\ Exists(a) => Exists(a)'
      BY <1>4, <2>1, <2>3, EffectUpdate DEF RecordEffect, Inv, TypeOK, Exists
    <2> QED
      BY <2>3, <2>4, <2>5 DEF Frame, ProposalsKept
  <1>5. ASSUME NEW r \in Requests, RaiseAlarm(r)
        PROVE  Frame
    <2>1. PICK e : e = AuditEntry("alarm.raised", req[r].id, NoOne, NoOne, "active")
      OBVIOUS
    <2>2. e \in Entry /\ e.action = "alarm.raised" /\ LogGrows(e) /\ rows' = rows
      BY <1>5, <2>1 DEF RaiseAlarm, LogGrows, Inv, TypeOK, InFlight, AuditEntry, Entry
    <2> QED
      BY <2>2 DEF Frame, ProposalsKept, Exists, DECISIONS
  <1>6. CASE rows' = rows /\ audit' = audit
    BY <1>6 DEF Frame, ProposalsKept, Exists
  <1>7. ASSUME NEW r \in Requests, NEW op, NEW a, NEW u, NEW role,
               Refuse(r, op, a, u, role) \/ Read(r, op, a, u, role)
        PROVE  rows' = rows /\ audit' = audit
    BY <1>7 DEF Refuse, Read
  <1>8. ASSUME NEW r \in Requests,
               ApplyEffect(r) \/ EffectRaises(r) \/ PublishModelChanged(r)
        PROVE  rows' = rows /\ audit' = audit
    BY <1>8 DEF ApplyEffect, EffectRaises, PublishModelChanged
  <1>9. Crash \/ UNCHANGED vars => rows' = rows /\ audit' = audit
    BY DEF Crash, vars
  <1> QED
    BY <1>1, <1>2, <1>3, <1>4, <1>5, <1>6, <1>7, <1>8, <1>9
    DEF Next, Arrive, Continue, Quiescent

\* The log's entries stay, and so do the proposals they are about.
LEMMA EntriesKept ==
    ASSUME Inv, LogIds, Frame
    PROVE  /\ LogIds'
           /\ \A i \in DOMAIN audit : i \in DOMAIN audit' /\ audit'[i] = audit[i]
           /\ \A i \in DOMAIN audit :
                 audit[i].action \in DECISIONS \cup {"apply"} =>
                    rows'[audit[i].id].prop = rows[audit[i].id].prop
  <1>1. \A i \in DOMAIN audit :
           audit[i].action \in DECISIONS \cup {"apply"} =>
              rows'[audit[i].id].prop = rows[audit[i].id].prop
    BY DEF LogIds, Frame, ProposalsKept
  <1>2. CASE audit' = audit
    BY <1>1, <1>2 DEF LogIds, Frame
  <1>3. ASSUME NEW e \in Entry, LogGrows(e),
               e.action \in DECISIONS \cup {"apply"} => e.id \in Approvals /\ Exists(e.id)
        PROVE  /\ LogIds'
               /\ \A i \in DOMAIN audit : i \in DOMAIN audit' /\ audit'[i] = audit[i]
    <2>1. /\ Len(audit) \in Nat /\ DOMAIN audit = 1..Len(audit)
          /\ DOMAIN audit' = 1..(Len(audit) + 1)
          /\ \A i \in 1..Len(audit) : audit'[i] = audit[i]
          /\ audit'[Len(audit) + 1] = e
      BY <1>3, AppendFacts DEF LogGrows, Inv, TypeOK
    <2>2. \A i \in DOMAIN audit' : i \in DOMAIN audit \/ i = Len(audit) + 1
      BY <2>1
    <2>3. \A i \in DOMAIN audit : i \in DOMAIN audit' /\ audit'[i] = audit[i]
      BY <2>1
    <2>4. ASSUME NEW i \in DOMAIN audit', audit'[i].action \in DECISIONS \cup {"apply"}
          PROVE  audit'[i].id \in Approvals /\ Exists(audit'[i].id)
      BY <1>3, <2>1, <2>2, <2>4 DEF LogIds
    <2>5. \A a \in Approvals : Exists(a) => rows'[a].state # "absent"
      BY DEF Frame, Exists
    <2> QED
      BY <2>3, <2>4, <2>5 DEF LogIds, Exists
  <1> QED
    BY <1>1, <1>2, <1>3 DEF Frame

\* The three parts that speak of the log survive its growth.
LEMMA RecordsKept ==
    ASSUME Inv, RegistryInv, Frame
    PROVE  /\ models' = models => ActiveVersionWasApproved'
           /\ changed' = changed => ModelChangedIsRecorded'
  <1>1. /\ \A i \in DOMAIN audit : i \in DOMAIN audit' /\ audit'[i] = audit[i]
        /\ \A i \in DOMAIN audit :
              audit[i].action \in DECISIONS \cup {"apply"} =>
                 rows'[audit[i].id].prop = rows[audit[i].id].prop
    BY EntriesKept DEF RegistryInv
  <1>2. ASSUME models' = models, NEW k \in DOMAIN models', models'[k].status = "active"
        PROVE  \/ InitialModels[k].status = "active"
               \/ \E i \in DOMAIN audit' :
                     /\ audit'[i].action = "approve"
                     /\ rows'[audit'[i].id].prop.type = "model_promotion"
                     /\ rows'[audit'[i].id].prop.scenario_id = models'[k].scenario_id
                     /\ rows'[audit'[i].id].prop.to = models'[k].version
    BY <1>1, <1>2 DEF RegistryInv, ActiveVersionWasApproved, DECISIONS
  <1>3. ASSUME changed' = changed, changed' # NoOne
        PROVE  \E i \in DOMAIN audit' :
                  /\ audit'[i].action = "apply"
                  /\ audit'[i].result = "applied"
                  /\ rows'[audit'[i].id].prop.type = "model_promotion"
                  /\ rows'[audit'[i].id].prop.to = changed'
    BY <1>1, <1>3 DEF RegistryInv, ModelChangedIsRecorded
  <1> QED
    BY <1>2, <1>3 DEF ActiveVersionWasApproved, ModelChangedIsRecorded

\* A step after which the handlers at their record or their event are where
\* they were.
LEMMA PromotionKept ==
    ASSUME Inv, RegistryInv, Frame,
           NEW s \in InFlight, req'[s] = req[s]
    PROVE  /\ req'[s].pc = "record" /\ rows'[req'[s].id].prop.type = "model_promotion" =>
                 req'[s].outcome \in {"applied", "apply_failed"}
           /\ req'[s].pc = "publish" =>
                 /\ rows'[req'[s].id].prop.type = "model_promotion"
                 /\ \E i \in DOMAIN audit' : /\ audit'[i].action = "apply"
                                             /\ audit'[i].result = "applied"
                                             /\ audit'[i].id = req'[s].id
  <1>1. rows'[req[s].id].prop = rows[req[s].id].prop
    BY DEF Inv, TypeOK, Frame, ProposalsKept
  <1>2. \A i \in DOMAIN audit : i \in DOMAIN audit' /\ audit'[i] = audit[i]
    BY EntriesKept DEF RegistryInv
  <1> QED
    BY <1>1, <1>2 DEF RegistryInv, PromotionInv

\* The steps that touch neither the registry nor the event.
LEMMA RegistryPlain ==
    ASSUME Inv, RegistryInv, Frame, models' = models, changed' = changed,
           \A s \in InFlight' : req'[s].pc \in {"record", "publish"} =>
                                   s \in InFlight /\ req'[s] = req[s]
    PROVE  RegistryInv'
  <1>1. LogIds'
    BY EntriesKept DEF RegistryInv
  <1>2. PromotionInv'
    BY PromotionKept DEF PromotionInv
  <1> QED
    BY <1>1, <1>2, RecordsKept DEF RegistryInv

\* What the effect of an approved promotion may be.
LEMMA PromotionOutcome ==
    ASSUME NEW p \in Proposals, p.type = "model_promotion"
    PROVE  /\ Outcome(p) \in {"applied", "apply_failed"}
           /\ Outcome(p) = "applied" => CanPromote(models, p.scenario_id, p.to)
  BY DEF Outcome

\* The registry is rewritten for a handler that has left its approve entry.
LEMMA RegistryApply ==
    ASSUME Inv, RegistryInv, Frame, NEW r \in Requests, ApplyEffect(r)
    PROVE  RegistryInv'
  <1>1. PICK q : q = req[r]
    OBVIOUS
  <1>2. PICK p : p = rows[q.id].prop
    OBVIOUS
  <1>3. /\ q \in Handler /\ q.pc = "effect" /\ r \in InFlight
        /\ q.id \in Approvals /\ p \in Proposals
    BY <1>1, <1>2 DEF ApplyEffect, Inv, TypeOK, InFlight
  <1>4. /\ req' = [req EXCEPT ![r] = [q EXCEPT !.pc = "record", !.outcome = Outcome(p)]]
        /\ models' = IF p.type = "model_promotion" /\ Outcome(p) = "applied"
                       THEN Promote(models, p.scenario_id, p.to)
                       ELSE models
        /\ rows' = rows /\ audit' = audit /\ changed' = changed
    BY <1>1, <1>2 DEF ApplyEffect
  <1>5. /\ req'[r].pc = "record" /\ req'[r].id = q.id /\ req'[r].outcome = Outcome(p)
        /\ \A s \in Requests : s # r => req'[s] = req[s]
    BY <1>3, <1>4 DEF Inv, TypeOK, Handler
  <1>6. PromotionInv'
    <2>1. \A s \in InFlight' : s = r \/ (s \in InFlight /\ req'[s] = req[s])
      BY <1>5 DEF InFlight
    <2>2. rows'[req'[r].id].prop.type = "model_promotion" =>
             req'[r].outcome \in {"applied", "apply_failed"}
      BY <1>2, <1>3, <1>4, <1>5, PromotionOutcome
    <2> QED
      BY <1>5, <2>1, <2>2, PromotionKept DEF PromotionInv
  <1>7. CASE models' = models
    BY <1>4, <1>6, <1>7, EntriesKept, RecordsKept DEF RegistryInv
  <1>8. CASE p.type = "model_promotion" /\ Outcome(p) = "applied"
    <2>1. CanPromote(models, p.scenario_id, p.to) /\ models' = Promote(models, p.scenario_id, p.to)
      BY <1>3, <1>4, <1>8, PromotionOutcome
    <2>2. /\ models' \in Seq(ModelRecord) /\ DOMAIN models' = DOMAIN models
          /\ \A k \in DOMAIN models : /\ models'[k].scenario_id = models[k].scenario_id
                                      /\ models'[k].version = models[k].version
          /\ \A k \in DOMAIN models :
                models'[k].status = "active" =>
                   \/ models[k].status = "active"
                   \/ models[k].scenario_id = p.scenario_id /\ models[k].version = p.to
      <3>1. models \in Seq(ModelRecord)
        BY DEF RegistryInv
      <3>2. PICK new : new = Promote(models, p.scenario_id, p.to)
        OBVIOUS
      <3>3. models' = new
        BY <2>1, <3>2
      <3> QED
        BY <2>1, <3>1, <3>2, <3>3, PromoteFacts
    <2>3. \E i \in DOMAIN audit : audit[i].action = "approve" /\ audit[i].id = q.id
      BY <1>1, <1>3 DEF Inv, HandlerInv, ApprovedBy
    <2>4. ActiveVersionWasApproved'
      <3> SUFFICES ASSUME NEW k \in DOMAIN models', models'[k].status = "active",
                          InitialModels[k].status # "active"
                   PROVE  \E i \in DOMAIN audit :
                             /\ audit[i].action = "approve"
                             /\ rows[audit[i].id].prop.type = "model_promotion"
                             /\ rows[audit[i].id].prop.scenario_id = models'[k].scenario_id
                             /\ rows[audit[i].id].prop.to = models'[k].version
        BY <1>4 DEF ActiveVersionWasApproved
      <3>1. CASE models[k].status = "active"
        BY <2>2, <3>1 DEF RegistryInv, ActiveVersionWasApproved
      <3>2. CASE models[k].scenario_id = p.scenario_id /\ models[k].version = p.to
        BY <1>2, <1>8, <2>2, <2>3, <3>2
      <3> QED
        BY <2>2, <3>1, <3>2
    <2> QED
      BY <1>4, <1>6, <2>2, <2>4, EntriesKept, RecordsKept DEF RegistryInv
  <1> QED
    BY <1>4, <1>7, <1>8

\* The handler of a promotion reaches its event with its entry in the log.
LEMMA RegistryRecord ==
    ASSUME Inv, RegistryInv, Frame, NEW r \in Requests, RecordEffect(r)
    PROVE  RegistryInv'
  <1>1. PICK q : q = req[r]
    OBVIOUS
  <1>2. PICK e : e = AuditEntry("apply", q.id, q.user, q.role, q.outcome)
    OBVIOUS
  <1>3. /\ q \in Handler /\ q.pc = "record" /\ r \in InFlight
        /\ q.id \in Approvals /\ q.outcome \in EFFECTS
        /\ q.user \in Users /\ q.role \in VALID_ROLES
        /\ rows'[q.id].prop = rows[q.id].prop
    BY <1>1 DEF RecordEffect, Inv, TypeOK, InFlight, Frame, ProposalsKept
  <1>4. e \in Entry /\ LogGrows(e) /\ e.action = "apply" /\ e.id = q.id /\ e.result = q.outcome
    BY <1>1, <1>2, <1>3 DEF RecordEffect, LogGrows, AuditEntry, Entry
  <1>5. Len(audit) + 1 \in DOMAIN audit' /\ audit'[Len(audit) + 1] = e
    BY <1>4, AppendFacts DEF LogGrows, Inv, TypeOK
  <1>6. /\ req'[r].pc # "record"
        /\ req'[r].pc = "publish" => /\ req'[r].id = q.id
                                     /\ q.outcome \notin {"failed", "apply_failed"}
                                     /\ rows[q.id].prop.type = "model_promotion"
        /\ \A s \in Requests : s # r => req'[s] = req[s]
    BY <1>1, <1>3, AnsweredFacts DEF RecordEffect, Inv, TypeOK, Handler
  <1>7. models' = models /\ changed' = changed
    BY DEF RecordEffect
  <1>8. PromotionInv'
    <2>1. \A s \in InFlight' : s = r \/ (s \in InFlight /\ req'[s] = req[s])
      BY <1>6 DEF InFlight
    <2>2. ASSUME req'[r].pc = "publish"
          PROVE  /\ rows'[req'[r].id].prop.type = "model_promotion"
                 /\ \E i \in DOMAIN audit' : /\ audit'[i].action = "apply"
                                             /\ audit'[i].result = "applied"
                                             /\ audit'[i].id = req'[r].id
      <3>1. q.outcome = "applied"
        BY <1>1, <1>3, <1>6, <2>2 DEF RegistryInv, PromotionInv
      <3> QED
        BY <1>3, <1>4, <1>5, <1>6, <2>2, <3>1
    <2> QED
      BY <1>6, <2>1, <2>2, PromotionKept DEF PromotionInv
  <1> QED
    BY <1>7, <1>8, EntriesKept, RecordsKept DEF RegistryInv

\* The event leaves with the version the entry is about.
LEMMA RegistryPublish ==
    ASSUME Inv, RegistryInv, Frame, NEW r \in Requests, PublishModelChanged(r)
    PROVE  RegistryInv'
  <1>1. PICK q : q = req[r]
    OBVIOUS
  <1>2. /\ q.pc = "publish" /\ r \in InFlight
        /\ rows' = rows /\ audit' = audit /\ models' = models
        /\ changed' = rows[q.id].prop.to \/ changed' = changed
    BY <1>1 DEF PublishModelChanged, InFlight
  <1>3. \A s \in InFlight' : s \in InFlight /\ req'[s] = req[s]
    BY AnsweredFacts DEF PublishModelChanged, InFlight, Inv, TypeOK
  <1>4. /\ rows[q.id].prop.type = "model_promotion"
        /\ \E i \in DOMAIN audit : /\ audit[i].action = "apply"
                                   /\ audit[i].result = "applied"
                                   /\ audit[i].id = q.id
    BY <1>1, <1>2 DEF RegistryInv, PromotionInv
  <1>5. ModelChangedIsRecorded'
    <2>1. CASE changed' = changed
      BY <2>1, RecordsKept
    <2>2. CASE changed' = rows[q.id].prop.to
      BY <1>2, <1>4, <2>2 DEF ModelChangedIsRecorded
    <2> QED
      BY <1>2, <2>1, <2>2
  <1>6. PromotionInv'
    BY <1>3, PromotionKept DEF PromotionInv
  <1> QED
    BY <1>2, <1>5, <1>6, EntriesKept, RecordsKept DEF RegistryInv

\* RegistryInv is inductive.
LEMMA RegistryStep ==
    ASSUME Inv, RegistryInv, [Next]_vars
    PROVE  RegistryInv'
  <1> USE FrameStep
  <1>1. ASSUME NEW a \in Approvals, NEW p \in Proposals, NEW u \in Users,
               NEW role \in VALID_ROLES, Propose(a, p, u, role)
        PROVE  RegistryInv'
    BY <1>1, RegistryPlain DEF Propose, InFlight
  <1>2. ASSUME NEW r \in Requests, NEW op \in DECISIONS, NEW a, NEW u, NEW role,
               Deny(r, op, u, role) \/ Refuse(r, op, a, u, role) \/ Read(r, op, a, u, role)
        PROVE  RegistryInv'
    <2>1. /\ req'[r].pc \notin {"record", "publish"}
          /\ \A s \in Requests : s # r => req'[s] = req[s]
          /\ models' = models /\ changed' = changed
      BY <1>2, AnsweredFacts DEF Deny, Refuse, Read, Inv, TypeOK
    <2> QED
      BY <2>1, RegistryPlain DEF InFlight
  <1>3. ASSUME NEW r \in Requests,
               Decide(r) \/ EffectRaises(r) \/ RaiseAlarm(r)
        PROVE  RegistryInv'
    <2>1. /\ req'[r].pc \notin {"record", "publish"}
          /\ \A s \in Requests : s # r => req'[s] = req[s]
          /\ models' = models /\ changed' = changed
      BY <1>3, AnsweredFacts DEF Decide, EffectRaises, RaiseAlarm, Inv, TypeOK, Handler
    <2> QED
      BY <2>1, RegistryPlain DEF InFlight
  <1>4. ASSUME NEW r \in Requests,
               ApplyEffect(r) \/ RecordEffect(r) \/ PublishModelChanged(r)
        PROVE  RegistryInv'
    BY <1>4, RegistryApply, RegistryRecord, RegistryPublish
  <1>5. ASSUME Crash
        PROVE  RegistryInv'
    <2>1. InFlight' = {} /\ models' = models /\ changed' = changed
      BY <1>5, AnsweredFacts DEF Crash, InFlight
    <2> QED
      BY <2>1, RegistryPlain
  <1>6. ASSUME UNCHANGED vars
        PROVE  RegistryInv'
    BY <1>6, RegistryPlain DEF vars, InFlight
  <1> QED
    BY <1>1, <1>2, <1>3, <1>4, <1>5, <1>6 DEF Next, Arrive, Continue, Quiescent

\* It holds of the empty log and the shipped registry.
LEMMA RegistryInit == Init => RegistryInv
  BY ApprovalsAssumption
  DEF Init, RegistryInv, LogIds, PromotionInv, InFlight, NewRequest,
      ActiveVersionWasApproved, ModelChangedIsRecorded

\* A version that was not shipped active became active by an approved
\* promotion, in every race, crash and failure (promote, called by approve).
THEOREM ActivationsApproved == Spec => []ActiveVersionWasApproved
  <1>1. Inv /\ RegistryInv /\ [Next]_vars => RegistryInv'
    BY RegistryStep
  <1>2. RegistryInv => ActiveVersionWasApproved
    BY DEF RegistryInv
  <1> QED
    BY <1>1, <1>2, InitInv, InvStep, RegistryInit, PTL DEF Spec

\* A delivered model:changed names the target of a promotion the log records
\* as applied (_apply_side_effect publishes after its commit).
THEOREM EventsRecorded == Spec => []ModelChangedIsRecorded
  <1>1. Inv /\ RegistryInv /\ [Next]_vars => RegistryInv'
    BY RegistryStep
  <1>2. RegistryInv => ModelChangedIsRecorded
    BY DEF RegistryInv
  <1> QED
    BY <1>1, <1>2, InitInv, InvStep, RegistryInit, PTL DEF Spec

(***************************************************************************)
(* The alarms.  Every failed effect in the log is matched by an alarm or   *)
(* by a handler about to raise it: the entry and the handler's move are    *)
(* one transaction, the alarm and the answer another.                      *)
(***************************************************************************)
Alarming(a) == {r \in Requests : req[r].pc = "alarm" /\ req[r].id = a}

Raised(a) == {k \in DOMAIN alarms : alarms[k] = a}

Balanced(a) ==
    Cardinality(Failures(a)) = Cardinality(Raised(a)) + Cardinality(Alarming(a))

AlarmInv ==
    /\ alarms \in Seq(Approvals)
    /\ \A a \in Approvals : IsFiniteSet(Alarming(a))
    /\ crashes = 0 => \A a \in Approvals : Balanced(a)

IsFailure(e) == e.action = "apply" /\ e.result \in {"failed", "apply_failed"}

\* Failures and alarms are counted over finite sets.
LEMMA AlarmSetsFinite ==
    ASSUME Inv, AlarmInv, NEW a \in Approvals
    PROVE  /\ IsFiniteSet(Failures(a)) /\ Cardinality(Failures(a)) \in Nat
           /\ IsFiniteSet(Raised(a)) /\ Cardinality(Raised(a)) \in Nat
           /\ IsFiniteSet(Alarming(a)) /\ Cardinality(Alarming(a)) \in Nat
  <1>1. /\ Len(audit) \in Nat /\ DOMAIN audit = 1..Len(audit)
        /\ Len(alarms) \in Nat /\ DOMAIN alarms = 1..Len(alarms)
    BY LenProperties DEF Inv, TypeOK, AlarmInv
  <1>2. IsFiniteSet(1..Len(audit)) /\ IsFiniteSet(1..Len(alarms))
    BY <1>1, FS_Interval
  <1>3. Failures(a) \in SUBSET (1..Len(audit)) /\ Raised(a) \in SUBSET (1..Len(alarms))
    BY <1>1 DEF Failures, Raised
  <1>4. IsFiniteSet(Failures(a)) /\ IsFiniteSet(Raised(a)) /\ IsFiniteSet(Alarming(a))
    BY <1>2, <1>3, FS_Subset DEF AlarmInv
  <1> QED
    BY <1>4, FS_CardinalityType

\* An entry that is no failed effect adds no failure.
LEMMA FailuresKept ==
    ASSUME Inv, NEW a,
           audit' = audit \/ \E e \in Entry : LogGrows(e) /\ ~IsFailure(e)
    PROVE  Failures(a)' = Failures(a)
  <1>1. CASE audit' = audit
    BY <1>1 DEF Failures
  <1>2. ASSUME NEW e \in Entry, LogGrows(e), ~IsFailure(e)
        PROVE  Failures(a)' = Failures(a)
    <2>1. /\ Len(audit) \in Nat /\ DOMAIN audit = 1..Len(audit)
          /\ DOMAIN audit' = 1..(Len(audit) + 1)
          /\ \A i \in 1..Len(audit) : audit'[i] = audit[i]
          /\ audit'[Len(audit) + 1] = e
      BY <1>2, AppendFacts DEF LogGrows, Inv, TypeOK
    <2>2. \A i \in DOMAIN audit' : i \in DOMAIN audit \/ i = Len(audit) + 1
      BY <2>1
    <2>3. \A i \in DOMAIN audit : i \in DOMAIN audit'
      BY <2>1
    <2> QED
      BY <1>2, <2>1, <2>2, <2>3 DEF Failures, IsFailure
  <1> QED
    BY <1>1, <1>2

\* The steps at which nothing fails and no handler comes to or leaves its alarm.
LEMMA AlarmPlain ==
    ASSUME Inv, AlarmInv, alarms' = alarms, crashes' = crashes,
           audit' = audit \/ \E e \in Entry : LogGrows(e) /\ ~IsFailure(e),
           \A s \in Requests : (req'[s].pc = "alarm" \/ req[s].pc = "alarm") => req'[s] = req[s]
    PROVE  AlarmInv'
  <1>1. \A a : Failures(a)' = Failures(a)
    BY FailuresKept
  <1>2. \A a : Alarming(a)' = Alarming(a)
    BY DEF Alarming
  <1>3. \A a : Raised(a)' = Raised(a)
    BY DEF Raised
  <1> QED
    BY <1>1, <1>2, <1>3 DEF AlarmInv, Balanced

\* A failed effect: one entry more, one handler more.
LEMMA AlarmRecordFailure ==
    ASSUME Inv, AlarmInv, NEW r \in Requests, RecordEffect(r),
           req[r].outcome \in {"failed", "apply_failed"}
    PROVE  AlarmInv'
  <1>1. PICK q : q = req[r]
    OBVIOUS
  <1>2. PICK e : e = AuditEntry("apply", q.id, q.user, q.role, q.outcome)
    OBVIOUS
  <1>3. PICK n : n = Len(audit) + 1
    OBVIOUS
  <1>4. /\ q \in Handler /\ q.pc = "record" /\ r \in InFlight
        /\ q.id \in Approvals /\ q.outcome \in EFFECTS
        /\ q.user \in Users /\ q.role \in VALID_ROLES
    BY <1>1 DEF RecordEffect, Inv, TypeOK, InFlight
  <1>5. e \in Entry /\ LogGrows(e) /\ IsFailure(e) /\ e.id = q.id
    BY <1>1, <1>2, <1>4 DEF RecordEffect, LogGrows, AuditEntry, Entry, IsFailure
  <1>6. /\ Len(audit) \in Nat /\ DOMAIN audit = 1..Len(audit)
        /\ DOMAIN audit' = 1..n
        /\ \A i \in 1..Len(audit) : audit'[i] = audit[i]
        /\ audit'[n] = e
    BY <1>3, <1>5, AppendFacts DEF LogGrows, Inv, TypeOK
  <1>7. /\ \A i \in DOMAIN audit' : i \in DOMAIN audit \/ i = n
        /\ \A i \in DOMAIN audit : i \in DOMAIN audit'
        /\ n \in DOMAIN audit' /\ n \notin DOMAIN audit
    BY <1>3, <1>6
  <1>8. /\ req'[r].pc = "alarm" /\ req'[r].id = q.id
        /\ \A s \in Requests : s # r => req'[s] = req[s]
    BY <1>1, <1>4 DEF RecordEffect, Inv, TypeOK, Handler
  <1>9. alarms' = alarms /\ crashes' = crashes
    BY DEF RecordEffect
  <1>10. ASSUME NEW a \in Approvals
         PROVE  /\ IsFiniteSet(Alarming(a))' 
                /\ Balanced(a) => Balanced(a)'
    <2>1. CASE a = q.id
      <3>1. Failures(a)' = Failures(a) \cup {n} /\ n \notin Failures(a)
        BY <1>5, <1>6, <1>7, <2>1 DEF Failures, IsFailure
      <3>2. Alarming(a)' = Alarming(a) \cup {r} /\ r \notin Alarming(a)
        BY <1>1, <1>4, <1>8, <2>1 DEF Alarming
      <3>3. Raised(a)' = Raised(a)
        BY <1>9 DEF Raised
      <3>4. /\ Cardinality(Failures(a) \cup {n}) = Cardinality(Failures(a)) + 1
            /\ Cardinality(Alarming(a) \cup {r}) = Cardinality(Alarming(a)) + 1
            /\ IsFiniteSet(Alarming(a) \cup {r})
        BY <3>1, <3>2, AlarmSetsFinite, FS_AddElement
      <3> QED
        BY <3>1, <3>2, <3>3, <3>4, AlarmSetsFinite DEF Balanced
    <2>2. CASE a # q.id
      <3>1. Failures(a)' = Failures(a)
        BY <1>5, <1>6, <1>7, <2>2 DEF Failures
      <3>2. Alarming(a)' = Alarming(a)
        BY <1>1, <1>4, <1>8, <2>2 DEF Alarming
      <3>3. Raised(a)' = Raised(a)
        BY <1>9 DEF Raised
      <3> QED
        BY <3>1, <3>2, <3>3, AlarmSetsFinite DEF Balanced
    <2> QED
      BY <2>1, <2>2
  <1> QED
    BY <1>9, <1>10 DEF AlarmInv

\* The alarm itself: one alarm more, one handler less.
LEMMA AlarmRaise ==
    ASSUME Inv, AlarmInv, NEW r \in Requests, RaiseAlarm(r)
    PROVE  AlarmInv'
  <1>1. PICK q : q = req[r]
    OBVIOUS
  <1>2. PICK e : e = AuditEntry("alarm.raised", q.id, NoOne, NoOne, "active")
    OBVIOUS
  <1>3. PICK n : n = Len(alarms) + 1
    OBVIOUS
  <1>4. q \in Handler /\ q.pc = "alarm" /\ r \in InFlight /\ q.id \in Approvals
    BY <1>1 DEF RaiseAlarm, Inv, TypeOK, InFlight
  <1>5. e \in Entry /\ LogGrows(e) /\ ~IsFailure(e)
    BY <1>1, <1>2, <1>4 DEF RaiseAlarm, LogGrows, AuditEntry, Entry, IsFailure
  <1>6. alarms' = Append(alarms, q.id) /\ alarms \in Seq(Approvals) /\ crashes' = crashes
    BY <1>1 DEF RaiseAlarm, AlarmInv
  <1>7. /\ alarms' \in Seq(Approvals)
        /\ Len(alarms) \in Nat /\ DOMAIN alarms = 1..Len(alarms)
        /\ DOMAIN alarms' = 1..n
        /\ \A i \in 1..Len(alarms) : alarms'[i] = alarms[i]
        /\ alarms'[n] = q.id
    BY <1>3, <1>4, <1>6, AppendProperties, LenProperties
  <1>8. /\ \A i \in DOMAIN alarms' : i \in DOMAIN alarms \/ i = n
        /\ \A i \in DOMAIN alarms : i \in DOMAIN alarms'
        /\ n \in DOMAIN alarms' /\ n \notin DOMAIN alarms
    BY <1>3, <1>7
  <1>9. /\ req'[r].pc = "done"
        /\ \A s \in Requests : s # r => req'[s] = req[s]
    BY AnsweredFacts DEF RaiseAlarm, Inv, TypeOK
  <1>10. ASSUME NEW a \in Approvals
         PROVE  /\ IsFiniteSet(Alarming(a))' 
                /\ Balanced(a) => Balanced(a)'
    <2>1. Failures(a)' = Failures(a)
      BY <1>5, FailuresKept
    <2>2. CASE a = q.id
      <3>1. Raised(a)' = Raised(a) \cup {n} /\ n \notin Raised(a)
        BY <1>7, <1>8, <2>2 DEF Raised
      <3>2. Alarming(a)' = Alarming(a) \ {r} /\ r \in Alarming(a)
        BY <1>1, <1>4, <1>9, <2>2 DEF Alarming
      <3>3. /\ Cardinality(Raised(a) \cup {n}) = Cardinality(Raised(a)) + 1
            /\ Cardinality(Alarming(a) \ {r}) = Cardinality(Alarming(a)) - 1
            /\ IsFiniteSet(Alarming(a) \ {r})
        BY <3>1, <3>2, AlarmSetsFinite, FS_AddElement, FS_RemoveElement
      <3> QED
        BY <2>1, <3>1, <3>2, <3>3, AlarmSetsFinite DEF Balanced
    <2>3. CASE a # q.id
      <3>1. Raised(a)' = Raised(a)
        BY <1>7, <1>8, <2>3 DEF Raised
      <3>2. Alarming(a)' = Alarming(a)
        BY <1>1, <1>4, <1>9, <2>3 DEF Alarming
      <3> QED
        BY <2>1, <3>1, <3>2, AlarmSetsFinite DEF Balanced
    <2> QED
      BY <2>2, <2>3
  <1> QED
    BY <1>6, <1>7, <1>10 DEF AlarmInv

\* An effect that succeeded, or that has nothing to apply.
LEMMA AlarmRecordSuccess ==
    ASSUME Inv, AlarmInv, NEW r \in Requests, RecordEffect(r),
           req[r].outcome \notin {"failed", "apply_failed"}
    PROVE  AlarmInv'
  <1>1. PICK q : q = req[r]
    OBVIOUS
  <1>2. PICK e : e = AuditEntry("apply", q.id, q.user, q.role, q.outcome)
    OBVIOUS
  <1>3. /\ q \in Handler /\ q.pc = "record" /\ q.id \in Approvals /\ q.outcome \in EFFECTS
        /\ q.user \in Users /\ q.role \in VALID_ROLES
    BY <1>1 DEF RecordEffect, Inv, TypeOK, InFlight
  <1>4. e \in Entry /\ LogGrows(e) /\ ~IsFailure(e)
    BY <1>1, <1>2, <1>3 DEF RecordEffect, LogGrows, AuditEntry, Entry, IsFailure
  <1>5. /\ req'[r].pc # "alarm"
        /\ \A s \in Requests : s # r => req'[s] = req[s]
    BY <1>1, <1>3, AnsweredFacts DEF RecordEffect, Inv, TypeOK, Handler
  <1>6. alarms' = alarms /\ crashes' = crashes
    BY DEF RecordEffect
  <1> QED
    BY <1>1, <1>3, <1>4, <1>5, <1>6, AlarmPlain

\* AlarmInv is inductive.
LEMMA AlarmStep ==
    ASSUME Inv, AlarmInv, [Next]_vars
    PROVE  AlarmInv'
  <1>1. ASSUME NEW a \in Approvals, NEW p \in Proposals, NEW u \in Users,
               NEW role \in VALID_ROLES, Propose(a, p, u, role)
        PROVE  AlarmInv'
    <2>1. PICK e : e = AuditEntry("propose", a, u, role, "pending")
      OBVIOUS
    <2>2. e \in Entry /\ LogGrows(e) /\ ~IsFailure(e)
      BY <1>1, <2>1 DEF Propose, LogGrows, AuditEntry, Entry, APPROVAL_STATES, IsFailure
    <2> QED
      BY <1>1, <2>2, AlarmPlain DEF Propose
  <1>2. ASSUME NEW r \in Requests, NEW op \in DECISIONS, NEW u \in Users,
               NEW role \in VALID_ROLES, Deny(r, op, u, role)
        PROVE  AlarmInv'
    <2>1. PICK e : e = AuditEntry("authz.denied", NoOne, u, role, "denied")
      OBVIOUS
    <2>2. e \in Entry /\ ~IsFailure(e)
      BY <2>1 DEF AuditEntry, Entry, IsFailure
    <2>3. audit' = audit \/ LogGrows(e)
      BY <1>2, <2>1, <2>2 DEF Deny, LogGrows
    <2>4. /\ req[r].pc # "alarm" /\ req'[r].pc # "alarm"
          /\ \A s \in Requests : s # r => req'[s] = req[s]
          /\ alarms' = alarms /\ crashes' = crashes
      BY <1>2, AnsweredFacts DEF Deny, CanStart, Inv, TypeOK
    <2> QED
      BY <2>2, <2>3, <2>4, AlarmPlain
  <1>3. ASSUME NEW r \in Requests, NEW op, NEW a, NEW u, NEW role,
               Refuse(r, op, a, u, role) \/ Read(r, op, a, u, role)
        PROVE  AlarmInv'
    <2>1. /\ req[r].pc # "alarm" /\ req'[r].pc # "alarm"
          /\ \A s \in Requests : s # r => req'[s] = req[s]
          /\ alarms' = alarms /\ crashes' = crashes /\ audit' = audit
      BY <1>3, AnsweredFacts DEF Refuse, Read, CanStart, Inv, TypeOK
    <2> QED
      BY <2>1, AlarmPlain
  <1>4. ASSUME NEW r \in Requests, Decide(r)
        PROVE  AlarmInv'
    <2>1. PICK q : q = req[r]
      OBVIOUS
    <2>2. PICK e : e = AuditEntry(q.op, q.id, q.user, q.role, ACTION_TARGET[q.op])
      OBVIOUS
    <2>3. /\ q \in Handler /\ q.pc = "decide" /\ q.id \in Approvals /\ q.op \in DECISIONS
          /\ q.user \in Users /\ q.role \in VALID_ROLES
      BY <1>4, <2>1 DEF Decide, Inv, TypeOK, InFlight
    <2>4. ACTION_TARGET[q.op] \in TERMINAL_STATES
      BY <2>3, ActionTargets
    <2>5. e \in Entry /\ LogGrows(e) /\ ~IsFailure(e)
      BY <1>4, <2>1, <2>2, <2>3, <2>4
      DEF Decide, LogGrows, AuditEntry, Entry, TERMINAL_STATES, APPROVAL_STATES, DECISIONS, IsFailure
    <2>6. /\ req'[r].pc # "alarm"
          /\ \A s \in Requests : s # r => req'[s] = req[s]
          /\ alarms' = alarms /\ crashes' = crashes
      BY <1>4, <2>1, <2>3, AnsweredFacts DEF Decide, Inv, TypeOK, Handler
    <2> QED
      BY <2>1, <2>3, <2>5, <2>6, AlarmPlain
  <1>5. ASSUME NEW r \in Requests,
               ApplyEffect(r) \/ EffectRaises(r) \/ PublishModelChanged(r)
        PROVE  AlarmInv'
    <2>1. /\ req[r].pc # "alarm" /\ req'[r].pc # "alarm"
          /\ \A s \in Requests : s # r => req'[s] = req[s]
          /\ alarms' = alarms /\ crashes' = crashes /\ audit' = audit
      BY <1>5, AnsweredFacts
      DEF ApplyEffect, EffectRaises, PublishModelChanged, Inv, TypeOK, Handler
    <2> QED
      BY <2>1, AlarmPlain
  <1>6. ASSUME NEW r \in Requests, RecordEffect(r) \/ RaiseAlarm(r)
        PROVE  AlarmInv'
    BY <1>6, AlarmRecordFailure, AlarmRecordSuccess, AlarmRaise
  <1>7. ASSUME Crash
        PROVE  AlarmInv'
    <2>1. crashes' # 0 /\ alarms' = alarms
      BY <1>7 DEF Crash, Inv, TypeOK
    <2>2. \A a : Alarming(a)' = {}
      BY <1>7, AnsweredFacts DEF Crash, InFlight, Alarming
    <2> QED
      BY <2>1, <2>2, FS_EmptySet DEF AlarmInv
  <1>8. ASSUME UNCHANGED vars
        PROVE  AlarmInv'
    BY <1>8, AlarmPlain DEF vars
  <1> QED
    BY <1>1, <1>2, <1>3, <1>4, <1>5, <1>6, <1>7, <1>8
    DEF Next, Arrive, Continue, Quiescent

\* Nothing has failed in the initial state.
LEMMA AlarmInit == Init => AlarmInv
  <1> SUFFICES ASSUME Init PROVE AlarmInv
    OBVIOUS
  <1>1. \A a : Failures(a) = {} /\ Raised(a) = {} /\ Alarming(a) = {}
    BY DEF Init, Failures, Raised, Alarming, NewRequest
  <1>2. alarms \in Seq(Approvals)
    BY DEF Init
  <1>3. IsFiniteSet({}) /\ Cardinality({}) = 0
    BY FS_EmptySet
  <1>4. ASSUME NEW a \in Approvals
        PROVE  IsFiniteSet(Alarming(a)) /\ Balanced(a)
    <2>1. Failures(a) = {} /\ Raised(a) = {} /\ Alarming(a) = {}
      BY <1>1
    <2> QED
      BY <1>3, <2>1 DEF Balanced
  <1> QED
    BY <1>2, <1>4 DEF AlarmInv

\* While the process lives, each failed effect in the log has an alarm of its
\* own, raised or about to be, also when handlers overlap on one approval
\* (_set_side_effect and raise_governance_alarm).
THEOREM NoSilentFailure == Spec => []FailuresAlarmed
  <1>1. Inv /\ AlarmInv /\ [Next]_vars => AlarmInv'
    BY AlarmStep
  <1>2. AlarmInv => FailuresAlarmed
    BY DEF AlarmInv, FailuresAlarmed, Balanced, Raised, Alarming
  <1> QED
    BY <1>1, <1>2, InitInv, InvStep, AlarmInit, PTL DEF Spec

(***************************************************************************)
(* The registry against the log, with one request at a time.  The file is  *)
(* rewritten before the entry is written, so the log agrees with it except *)
(* for the scenario of a handler between the two.                          *)
(***************************************************************************)
Promoting(r) ==
    /\ req[r].pc = "record"
    /\ rows[req[r].id].prop.type = "model_promotion"
    /\ req[r].outcome = "applied"

Only(s, v) ==
    \E k \in ActiveIndices(models, s) :
        ActiveIndices(models, s) = {k} /\ models[k].version = v

Settled(s) ==
    \/ Promotions(s) = {} /\ ActiveIndices(models, s) = ActiveIndices(InitialModels, s)
    \/ \E m \in Promotions(s) : /\ \A i \in Promotions(s) : i <= m
                                /\ Only(s, rows[audit[m].id].prop.to)

\* Between its effect and its record a promotion is ahead of the log.
MatchInv ==
    crashes = 0 =>
        \A s \in {models[k].scenario_id : k \in DOMAIN models} :
            /\ \A r \in Requests :
                  Promoting(r) /\ rows[req[r].id].prop.scenario_id = s =>
                     Only(s, rows[req[r].id].prop.to)
            /\ (\A r \in Requests : Promoting(r) => rows[req[r].id].prop.scenario_id # s) =>
                  Settled(s)

IsPromotion(e) ==
    e.action = "apply" /\ e.result = "applied" /\ rows[e.id].prop.type = "model_promotion"

\* An entry that records no promotion adds none.
LEMMA PromotionsKept ==
    ASSUME Inv, RegistryInv, Frame, NEW s,
           audit' = audit \/ \E e \in Entry : /\ LogGrows(e)
                                              /\ IsPromotion(e) => rows[e.id].prop.scenario_id # s
    PROVE  Promotions(s)' = Promotions(s)
  <1>1. /\ \A i \in DOMAIN audit : i \in DOMAIN audit' /\ audit'[i] = audit[i]
        /\ \A i \in DOMAIN audit :
              audit[i].action \in DECISIONS \cup {"apply"} =>
                 rows'[audit[i].id].prop = rows[audit[i].id].prop
    BY EntriesKept DEF RegistryInv
  <1>2. ASSUME NEW i \in Promotions(s)'
        PROVE  i \in DOMAIN audit
    <2>1. CASE audit' = audit
      BY <1>2, <2>1 DEF Promotions
    <2>2. ASSUME NEW e \in Entry, LogGrows(e),
                 IsPromotion(e) => rows[e.id].prop.scenario_id # s,
                 i \notin DOMAIN audit
          PROVE  FALSE
      <3>1. /\ Len(audit) \in Nat /\ DOMAIN audit = 1..Len(audit)
            /\ DOMAIN audit' = 1..(Len(audit) + 1)
            /\ audit'[Len(audit) + 1] = e
        BY <2>2, AppendFacts DEF LogGrows, Inv, TypeOK
      <3>2. i \in DOMAIN audit' /\ audit'[i].action = "apply" /\ audit'[i].result = "applied"
            /\ rows'[audit'[i].id].prop.type = "model_promotion"
            /\ rows'[audit'[i].id].prop.scenario_id = s
        BY <1>2 DEF Promotions
      <3>3. i = Len(audit) + 1 /\ audit'[i] = e
        BY <2>2, <3>1, <3>2
      <3>4. PICK f \in Entry : /\ LogGrows(f)
                               /\ f.action \in DECISIONS \cup {"apply"} =>
                                     f.id \in Approvals /\ Exists(f.id)
        <4>1. audit' # audit
          BY <2>2, <3>2
        <4> QED
          BY <4>1 DEF Frame
      <3>5. f = e
        BY <3>1, <3>4, AppendFacts DEF LogGrows, Inv, TypeOK
      <3>6. rows'[e.id].prop = rows[e.id].prop
        BY <3>2, <3>3, <3>4, <3>5 DEF Frame, ProposalsKept
      <3> QED
        BY <2>2, <3>2, <3>3, <3>6 DEF IsPromotion
    <2> QED
      BY <2>1, <2>2
  <1>3. \A i \in DOMAIN audit : i \in Promotions(s)' <=> i \in Promotions(s)
    BY <1>1 DEF Promotions
  <1>4. \A i \in Promotions(s) : i \in DOMAIN audit
    BY DEF Promotions
  <1> QED
    BY <1>2, <1>3, <1>4

\* A scenario stays settled while its promotions and its active records do.
LEMMA SettledKept ==
    ASSUME Inv, RegistryInv, Frame, NEW s, Settled(s),
           Promotions(s)' = Promotions(s),
           ActiveIndices(models, s)' = ActiveIndices(models, s),
           \A k \in DOMAIN models : models'[k].version = models[k].version
    PROVE  Settled(s)'
  <1>1. \A m \in Promotions(s) : /\ m \in DOMAIN audit
                                 /\ audit'[m] = audit[m]
                                 /\ rows'[audit'[m].id].prop = rows[audit[m].id].prop
    BY EntriesKept DEF RegistryInv, Promotions
  <1>2. CASE Promotions(s) = {} /\ ActiveIndices(models, s) = ActiveIndices(InitialModels, s)
    BY <1>2 DEF Settled
  <1>3. CASE \E m \in Promotions(s) : /\ \A i \in Promotions(s) : i <= m
                                      /\ Only(s, rows[audit[m].id].prop.to)
    <2>1. PICK m \in Promotions(s) : /\ \A i \in Promotions(s) : i <= m
                                     /\ Only(s, rows[audit[m].id].prop.to)
      BY <1>3
    <2>2. PICK v : v = rows[audit[m].id].prop.to
      OBVIOUS
    <2>3. PICK k \in ActiveIndices(models, s) :
              ActiveIndices(models, s) = {k} /\ models[k].version = v
      BY <2>1, <2>2 DEF Only
    <2>4. k \in DOMAIN models
      BY <2>3 DEF ActiveIndices
    <2>5. rows'[audit'[m].id].prop.to = v
      BY <1>1, <2>2
    <2>6. k \in ActiveIndices(models, s)' /\ ActiveIndices(models, s)' = {k}
          /\ models'[k].version = v
      BY <2>3, <2>4
    <2> QED
      BY <2>1, <2>5, <2>6 DEF Settled, Only
  <1> QED
    BY <1>2, <1>3 DEF Settled

\* The steps that neither apply nor record a promotion.
LEMMA MatchPlain ==
    ASSUME Inv, RegistryInv, MatchInv, Frame, models' = models, crashes' = crashes,
           audit' = audit \/ \E e \in Entry : LogGrows(e) /\ ~IsPromotion(e),
           \A r \in Requests : Promoting(r) \/ Promoting(r)' => req'[r] = req[r]
    PROVE  MatchInv'
  <1> SUFFICES ASSUME crashes = 0,
                      NEW s \in {models[k].scenario_id : k \in DOMAIN models}
               PROVE  /\ \A r \in Requests :
                            Promoting(r)' /\ rows'[req'[r].id].prop.scenario_id = s =>
                               Only(s, rows[req[r].id].prop.to)'
                      /\ (\A r \in Requests :
                             Promoting(r)' => rows'[req'[r].id].prop.scenario_id # s) =>
                            Settled(s)'
    BY DEF MatchInv
  <1>1. ASSUME NEW r \in Requests, Promoting(r) \/ Promoting(r)'
        PROVE  /\ Promoting(r) /\ Promoting(r)'
               /\ rows'[req'[r].id].prop = rows[req[r].id].prop
    <2>1. req'[r] = req[r] /\ req[r].pc = "record"
      BY <1>1 DEF Promoting
    <2>2. rows'[req[r].id].prop = rows[req[r].id].prop
      BY <2>1 DEF InFlight, Inv, TypeOK, Frame, ProposalsKept
    <2> QED
      BY <1>1, <2>1, <2>2 DEF Promoting
  <1>2. \A v : Only(s, v) => Only(s, v)'
    BY DEF Only, ActiveIndices
  <1>3. ASSUME NEW r \in Requests, Promoting(r)', rows'[req'[r].id].prop.scenario_id = s
        PROVE  Only(s, rows[req[r].id].prop.to)'
    <2>1. Only(s, rows[req[r].id].prop.to)
      BY <1>1, <1>3 DEF MatchInv
    <2>2. PICK v : v = rows[req[r].id].prop.to
      OBVIOUS
    <2>3. Only(s, v)' /\ rows'[req'[r].id].prop.to = v
      BY <1>1, <1>2, <1>3, <2>1, <2>2
    <2> QED
      BY <2>3 DEF Only
  <1>4. ASSUME \A r \in Requests : Promoting(r)' => rows'[req'[r].id].prop.scenario_id # s
        PROVE  Settled(s)'
    <2>1. \A r \in Requests : Promoting(r) => rows[req[r].id].prop.scenario_id # s
      BY <1>1, <1>4
    <2>2. Settled(s)
      BY <2>1 DEF MatchInv
    <2>3. Promotions(s)' = Promotions(s)
      BY PromotionsKept
    <2>4. ActiveIndices(models, s)' = ActiveIndices(models, s)
      BY DEF ActiveIndices
    <2> QED
      BY <2>2, <2>3, <2>4, SettledKept
  <1> QED
    BY <1>3, <1>4

\* A promotion: its scenario is ahead of the log, the others are as before.
LEMMA MatchApply ==
    ASSUME Inv, RegistryInv, SerialInv, MatchInv, Frame, NEW r \in Requests, ApplyEffect(r)
    PROVE  MatchInv'
  <1>1. PICK q : q = req[r]
    OBVIOUS
  <1>2. PICK p : p = rows[q.id].prop
    OBVIOUS
  <1>3. /\ q \in Handler /\ q.pc = "effect" /\ r \in InFlight
        /\ q.id \in Approvals /\ p \in Proposals
    BY <1>1, <1>2 DEF ApplyEffect, Inv, TypeOK, InFlight
  <1>4. /\ req' = [req EXCEPT ![r] = [q EXCEPT !.pc = "record", !.outcome = Outcome(p)]]
        /\ models' = IF p.type = "model_promotion" /\ Outcome(p) = "applied"
                       THEN Promote(models, p.scenario_id, p.to)
                       ELSE models
        /\ rows' = rows /\ audit' = audit /\ crashes' = crashes
    BY <1>1, <1>2 DEF ApplyEffect
  <1>5. /\ req'[r].pc = "record" /\ req'[r].id = q.id /\ req'[r].outcome = Outcome(p)
        /\ \A t \in Requests : t # r => req'[t] = req[t]
    BY <1>3, <1>4 DEF Inv, TypeOK, Handler
  <1>6. /\ \A t \in Requests : ~Promoting(t)
        /\ \A t \in Requests : Promoting(t)' => t = r
    BY <1>1, <1>3, <1>5 DEF SerialInv, Promoting, InFlight
  <1>7. CASE ~(p.type = "model_promotion" /\ Outcome(p) = "applied")
    <2>1. models' = models /\ ~Promoting(r)'
      BY <1>2, <1>4, <1>5, <1>7 DEF Promoting
    <2> QED
      BY <1>4, <1>6, <2>1, MatchPlain
  <1>8. CASE p.type = "model_promotion" /\ Outcome(p) = "applied"
    <2>1. CanPromote(models, p.scenario_id, p.to) /\ models' = Promote(models, p.scenario_id, p.to)
      BY <1>3, <1>4, <1>8, PromotionOutcome
    <2>2. /\ DOMAIN models' = DOMAIN models
          /\ \A k \in DOMAIN models : /\ models'[k].scenario_id = models[k].scenario_id
                                      /\ models'[k].version = models[k].version
          /\ \E k \in ActiveIndices(models', p.scenario_id) :
                ActiveIndices(models', p.scenario_id) = {k} /\ models'[k].version = p.to
          /\ \A o : o # p.scenario_id => ActiveIndices(models', o) = ActiveIndices(models, o)
      <3>1. models \in Seq(ModelRecord)
        BY DEF RegistryInv
      <3>2. PICK new : new = Promote(models, p.scenario_id, p.to)
        OBVIOUS
      <3>3. models' = new
        BY <2>1, <3>2
      <3> QED
        BY <2>1, <3>1, <3>2, <3>3, PromoteFacts
    <2>3. Promoting(r)' /\ rows'[req'[r].id].prop = p
      BY <1>2, <1>4, <1>5, <1>8 DEF Promoting
    <2>4. Only(p.scenario_id, p.to)'
      BY <2>2 DEF Only
    <2>5. ASSUME NEW s, s # p.scenario_id, Settled(s)
          PROVE  Settled(s)'
      <3>1. Promotions(s)' = Promotions(s)
        BY <1>4, PromotionsKept
      <3>2. ActiveIndices(models, s)' = ActiveIndices(models, s)
        BY <2>2, <2>5
      <3> QED
        BY <2>2, <2>5, <3>1, <3>2, SettledKept
    <2>6. {models'[k].scenario_id : k \in DOMAIN models'} =
              {models[k].scenario_id : k \in DOMAIN models}
      BY <2>2
    <2>7. ASSUME crashes = 0, NEW s \in {models[k].scenario_id : k \in DOMAIN models}
          PROVE  /\ \A t \in Requests :
                       Promoting(t)' /\ rows'[req'[t].id].prop.scenario_id = s =>
                          Only(s, rows[req[t].id].prop.to)'
                 /\ (\A t \in Requests :
                        Promoting(t)' => rows'[req'[t].id].prop.scenario_id # s) =>
                       Settled(s)'
      <3>1. Settled(s)
        BY <1>6, <2>7 DEF MatchInv
      <3>2. CASE s = p.scenario_id
        <4>1. \A v : v = p.to => Only(s, v)'
          BY <2>4, <3>2 DEF Only
        <4>2. Only(s, rows[req[r].id].prop.to)'
          BY <2>3, <4>1 DEF Only
        <4> QED
          BY <1>6, <2>3, <3>2, <4>2
      <3>3. CASE s # p.scenario_id
        BY <1>6, <2>3, <2>5, <3>1, <3>3
      <3> QED
        BY <3>2, <3>3
    <2> QED
      BY <1>4, <2>6, <2>7 DEF MatchInv
  <1> QED
    BY <1>7, <1>8

\* The record of a promotion: the log has caught up.
LEMMA MatchRecord ==
    ASSUME Inv, RegistryInv, SerialInv, MatchInv, Frame,
           NEW r \in Requests, RecordEffect(r), Promoting(r)
    PROVE  MatchInv'
  <1>1. PICK q : q = req[r]
    OBVIOUS
  <1>2. PICK p : p = rows[q.id].prop
    OBVIOUS
  <1>3. PICK e : e = AuditEntry("apply", q.id, q.user, q.role, q.outcome)
    OBVIOUS
  <1>4. PICK n : n = Len(audit) + 1
    OBVIOUS
  <1>5. /\ q \in Handler /\ q.pc = "record" /\ r \in InFlight
        /\ q.id \in Approvals /\ q.outcome = "applied" /\ q.outcome \in EFFECTS
        /\ q.user \in Users /\ q.role \in VALID_ROLES
        /\ p.type = "model_promotion" /\ rows'[q.id].prop = p
    BY <1>1, <1>2 DEF RecordEffect, Promoting, Inv, TypeOK, InFlight, Frame, ProposalsKept
  <1>6. e \in Entry /\ LogGrows(e) /\ e.action = "apply" /\ e.id = q.id /\ e.result = "applied"
    BY <1>1, <1>3, <1>5 DEF RecordEffect, LogGrows, AuditEntry, Entry
  <1>7. /\ Len(audit) \in Nat /\ DOMAIN audit = 1..Len(audit)
        /\ DOMAIN audit' = 1..n /\ audit'[n] = e
    BY <1>4, <1>6, AppendFacts DEF LogGrows, Inv, TypeOK
  <1>8. /\ req'[r].pc # "record"
        /\ \A t \in Requests : t # r => req'[t] = req[t]
    BY <1>1, <1>5, AnsweredFacts DEF RecordEffect, Inv, TypeOK, Handler
  <1>9. /\ \A t \in Requests : Promoting(t) => t = r
        /\ \A t \in Requests : ~Promoting(t)'
    BY <1>5, <1>8 DEF SerialInv, Promoting, InFlight
  <1>10. models' = models /\ crashes' = crashes
    BY DEF RecordEffect
  <1>11. ASSUME crashes = 0, NEW s \in {models[k].scenario_id : k \in DOMAIN models}
         PROVE  Settled(s)'
    <2>1. CASE s = p.scenario_id
      <3>1. Only(s, p.to)
        BY <1>1, <1>2, <1>11, <2>1 DEF MatchInv
      <3>2. Only(s, p.to)'
        BY <1>10, <3>1 DEF Only, ActiveIndices
      <3>3. n \in Promotions(s)' /\ rows'[audit'[n].id].prop.to = p.to
        BY <1>4, <1>5, <1>6, <1>7, <2>1 DEF Promotions
      <3>4. \A i \in Promotions(s)' : i <= n
        BY <1>4, <1>7 DEF Promotions
      <3>5. \A v : v = p.to => Only(s, v)'
        BY <3>2 DEF Only
      <3>6. Only(s, rows[audit[n].id].prop.to)'
        BY <3>3, <3>5 DEF Only
      <3> QED
        BY <3>3, <3>4, <3>6 DEF Settled
    <2>2. CASE s # p.scenario_id
      <3>1. Settled(s)
        BY <1>1, <1>2, <1>9, <1>11, <2>2 DEF MatchInv
      <3>2. Promotions(s)' = Promotions(s)
        BY <1>2, <1>6, <2>2, PromotionsKept
      <3>3. ActiveIndices(models, s)' = ActiveIndices(models, s)
        BY <1>10 DEF ActiveIndices
      <3> QED
        BY <1>10, <3>1, <3>2, <3>3, SettledKept
    <2> QED
      BY <2>1, <2>2
  <1> QED
    BY <1>9, <1>10, <1>11 DEF MatchInv

\* MatchInv is inductive when requests do not overlap.
LEMMA MatchStep ==
    ASSUME Inv, RegistryInv, SerialInv, MatchInv, [Next]_vars
    PROVE  MatchInv'
  <1> USE FrameStep
  <1>1. ASSUME NEW a \in Approvals, NEW p \in Proposals, NEW u \in Users,
               NEW role \in VALID_ROLES, Propose(a, p, u, role)
        PROVE  MatchInv'
    <2>1. PICK e : e = AuditEntry("propose", a, u, role, "pending")
      OBVIOUS
    <2>2. e \in Entry /\ LogGrows(e) /\ ~IsPromotion(e)
      BY <1>1, <2>1 DEF Propose, LogGrows, AuditEntry, Entry, APPROVAL_STATES, IsPromotion
    <2> QED
      BY <1>1, <2>2, MatchPlain DEF Propose
  <1>2. ASSUME NEW r \in Requests, NEW op \in DECISIONS, NEW u \in Users,
               NEW role \in VALID_ROLES, Deny(r, op, u, role)
        PROVE  MatchInv'
    <2>1. PICK e : e = AuditEntry("authz.denied", NoOne, u, role, "denied")
      OBVIOUS
    <2>2. e \in Entry /\ ~IsPromotion(e)
      BY <2>1 DEF AuditEntry, Entry, IsPromotion
    <2>3. audit' = audit \/ LogGrows(e)
      BY <1>2, <2>1, <2>2 DEF Deny, LogGrows
    <2>4. /\ req[r].pc # "record" /\ req'[r].pc # "record"
          /\ \A s \in Requests : s # r => req'[s] = req[s]
          /\ models' = models /\ crashes' = crashes
      BY <1>2, AnsweredFacts DEF Deny, CanStart, Inv, TypeOK
    <2> QED
      BY <2>2, <2>3, <2>4, MatchPlain DEF Promoting
  <1>3. ASSUME NEW r \in Requests, NEW op, NEW a, NEW u, NEW role,
               Refuse(r, op, a, u, role) \/ Read(r, op, a, u, role)
        PROVE  MatchInv'
    <2>1. /\ req[r].pc # "record" /\ req'[r].pc # "record"
          /\ \A s \in Requests : s # r => req'[s] = req[s]
          /\ models' = models /\ crashes' = crashes /\ audit' = audit
      BY <1>3, AnsweredFacts DEF Refuse, Read, CanStart, Inv, TypeOK
    <2> QED
      BY <2>1, MatchPlain DEF Promoting
  <1>4. ASSUME NEW r \in Requests, Decide(r)
        PROVE  MatchInv'
    <2>1. PICK q : q = req[r]
      OBVIOUS
    <2>2. PICK e : e = AuditEntry(q.op, q.id, q.user, q.role, ACTION_TARGET[q.op])
      OBVIOUS
    <2>3. /\ q \in Handler /\ q.pc = "decide" /\ q.id \in Approvals /\ q.op \in DECISIONS
          /\ q.user \in Users /\ q.role \in VALID_ROLES
      BY <1>4, <2>1 DEF Decide, Inv, TypeOK, InFlight
    <2>4. ACTION_TARGET[q.op] \in TERMINAL_STATES
      BY <2>3, ActionTargets
    <2>5. e \in Entry /\ LogGrows(e) /\ ~IsPromotion(e)
      BY <1>4, <2>1, <2>2, <2>3, <2>4
      DEF Decide, LogGrows, AuditEntry, Entry, TERMINAL_STATES, APPROVAL_STATES, DECISIONS,
          IsPromotion
    <2>6. /\ req'[r].pc # "record"
          /\ \A s \in Requests : s # r => req'[s] = req[s]
          /\ models' = models /\ crashes' = crashes
      BY <1>4, <2>1, <2>3, AnsweredFacts DEF Decide, Inv, TypeOK, Handler
    <2> QED
      BY <2>1, <2>3, <2>5, <2>6, MatchPlain DEF Promoting
  <1>5. ASSUME NEW r \in Requests, EffectRaises(r) \/ PublishModelChanged(r)
        PROVE  MatchInv'
    <2>1. /\ req[r].pc # "record" /\ req'[r].pc # "record"
          /\ \A s \in Requests : s # r => req'[s] = req[s]
          /\ models' = models /\ crashes' = crashes /\ audit' = audit
      BY <1>5, AnsweredFacts DEF EffectRaises, PublishModelChanged, Inv, TypeOK
    <2> QED
      BY <2>1, MatchPlain DEF Promoting
  <1>6. ASSUME NEW r \in Requests, RaiseAlarm(r)
        PROVE  MatchInv'
    <2>1. PICK e : e = AuditEntry("alarm.raised", req[r].id, NoOne, NoOne, "active")
      OBVIOUS
    <2>2. e \in Entry /\ LogGrows(e) /\ ~IsPromotion(e)
      BY <1>6, <2>1 DEF RaiseAlarm, LogGrows, Inv, TypeOK, InFlight, AuditEntry, Entry,
                        IsPromotion
    <2>3. /\ req[r].pc # "record" /\ req'[r].pc # "record"
          /\ \A s \in Requests : s # r => req'[s] = req[s]
          /\ models' = models /\ crashes' = crashes
      BY <1>6, AnsweredFacts DEF RaiseAlarm, Inv, TypeOK
    <2> QED
      BY <2>2, <2>3, MatchPlain DEF Promoting
  <1>7. ASSUME NEW r \in Requests, RecordEffect(r), ~Promoting(r)
        PROVE  MatchInv'
    <2>1. PICK q : q = req[r]
      OBVIOUS
    <2>2. PICK e : e = AuditEntry("apply", q.id, q.user, q.role, q.outcome)
      OBVIOUS
    <2>3. /\ q \in Handler /\ q.pc = "record" /\ q.id \in Approvals /\ q.outcome \in EFFECTS
          /\ q.user \in Users /\ q.role \in VALID_ROLES
          /\ ~(rows[q.id].prop.type = "model_promotion" /\ q.outcome = "applied")
      BY <1>7, <2>1 DEF RecordEffect, Promoting, Inv, TypeOK, InFlight
    <2>4. e \in Entry /\ LogGrows(e) /\ ~IsPromotion(e)
      BY <1>7, <2>1, <2>2, <2>3 DEF RecordEffect, LogGrows, AuditEntry, Entry, IsPromotion
    <2>5. /\ req'[r].pc # "record"
          /\ \A s \in Requests : s # r => req'[s] = req[s]
          /\ models' = models /\ crashes' = crashes
      BY <1>7, <2>1, <2>3, AnsweredFacts DEF RecordEffect, Inv, TypeOK, Handler
    <2> QED
      BY <1>7, <2>4, <2>5, MatchPlain DEF Promoting
  <1>8. ASSUME NEW r \in Requests, ApplyEffect(r) \/ (RecordEffect(r) /\ Promoting(r))
        PROVE  MatchInv'
    BY <1>8, MatchApply, MatchRecord
  <1>9. ASSUME Crash
        PROVE  MatchInv'
    BY <1>9 DEF Crash, Inv, TypeOK, MatchInv
  <1>10. ASSUME UNCHANGED vars
         PROVE  MatchInv'
    BY <1>10, MatchPlain DEF vars
  <1> QED
    BY <1>1, <1>2, <1>3, <1>4, <1>5, <1>6, <1>7, <1>8, <1>9, <1>10
    DEF Next, Arrive, Continue, Quiescent

\* Every scenario is settled as shipped.
LEMMA MatchInit == Init => MatchInv
  BY DEF Init, MatchInv, Promoting, NewRequest, Settled, Promotions

\* When no handler is in flight the scenarios are settled.
LEMMA SettledMatches ==
    ASSUME Inv, MatchInv
    PROVE  RegistryMatchesAudit
  <1> SUFFICES ASSUME InFlight = {}, crashes = 0,
                      NEW s \in {models[k].scenario_id : k \in DOMAIN models}
               PROVE  IF Promotions(s) = {}
                        THEN ActiveIndices(models, s) = ActiveIndices(InitialModels, s)
                        ELSE \E k \in ActiveIndices(models, s) :
                                /\ ActiveIndices(models, s) = {k}
                                /\ models[k].version =
                                      rows[audit[Max(Promotions(s))].id].prop.to
    BY DEF RegistryMatchesAudit
  <1>1. Settled(s)
    BY DEF MatchInv, Promoting, InFlight
  <1>2. Promotions(s) \subseteq Nat
    BY LenProperties DEF Promotions, Inv, TypeOK
  <1>3. ASSUME NEW m \in Promotions(s), \A i \in Promotions(s) : i <= m,
               Only(s, rows[audit[m].id].prop.to)
        PROVE  /\ Promotions(s) # {}
               /\ \E k \in ActiveIndices(models, s) :
                     /\ ActiveIndices(models, s) = {k}
                     /\ models[k].version = rows[audit[Max(Promotions(s))].id].prop.to
    <2>1. Max(Promotions(s)) = m
      BY <1>2, <1>3, MaxIs
    <2> QED
      BY <1>3, <2>1 DEF Only
  <1> QED
    BY <1>1, <1>3 DEF Settled

\* With one request at a time and no crash, the active version of a scenario
\* is the one its last recorded promotion names, for any sequence of
\* proposals, decisions, failed effects and uncaught registry errors (promote
\* and _set_side_effect, which are two transactions).
THEOREM RegistryFollowsAudit ==
    ASSUME ~Concurrent
    PROVE  Spec => []RegistryMatchesAudit
  <1>1. Inv /\ RegistryInv /\ [Next]_vars => RegistryInv'
    BY RegistryStep
  <1>2. Inv /\ SerialInv /\ [Next]_vars => SerialInv'
    BY SerialStep
  <1>3. Inv /\ RegistryInv /\ SerialInv /\ MatchInv /\ [Next]_vars => MatchInv'
    BY MatchStep
  <1>4. Inv /\ MatchInv => RegistryMatchesAudit
    BY SettledMatches
  <1> QED
    BY <1>1, <1>2, <1>3, <1>4, InitInv, InvStep, RegistryInit, SerialInit, MatchInit, PTL
    DEF Spec

============================================================================
