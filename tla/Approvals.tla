----------------------------- MODULE Approvals -----------------------------
(***************************************************************************)
(* The approval workflow: app/services/approval_service.py behind          *)
(* app/routers/governance/approvals.py.                                    *)
(*                                                                         *)
(* A request handler is a process.  It SELECTs the row and runs every      *)
(* check on what it read (step Read); it then waits for the audit lock,    *)
(* and UPDATE + audit INSERT + COMMIT form one atomic section (step        *)
(* Decide), after which the side effect of an approval runs in further     *)
(* transactions.  The row is neither locked nor re-read between Read and   *)
(* Decide, so handlers interleave there.                                   *)
(***************************************************************************)
EXTENDS Naturals, FiniteSets, Permissions, ParamTuning, ModelRegistry

CONSTANTS
    Approvals,        \* identities an approval row can get (approval_id)
    Proposals,        \* contents of a proposal: its type and its summary
    Users,            \* X-User-ID values
    Requests,         \* HTTP requests that decide an approval
    InitialModels,    \* models.jsonl as the engine layer left it
    Concurrent,       \* may two handlers be in flight at once?
    RegistryMayRaise, \* may promote raise something else than ModelRegistryError?
    MaxCrashes,       \* crashes of the api process, a bound
    NoOne             \* decided_by of an undecided row, no version, no outcome

APPROVAL_STATES == {"pending", "approved", "rejected", "withdrawn"}

TERMINAL_STATES == {"approved", "rejected", "withdrawn"}

DECISIONS == {"approve", "reject", "withdraw"}

EFFECTS == {"applied", "apply_failed", "failed", "shadow"}

\* Mutant: a state name that is not one of the table's.
BadActionTarget == [approve |-> "approved", reject |-> "declined", withdraw |-> "withdrawn"]

ACTION_TARGET == [approve |-> "approved", reject |-> "rejected", withdraw |-> "withdrawn"]

\* A record of models.jsonl.
ModelRecord ==
    [scenario_id : {InitialModels[i].scenario_id : i \in DOMAIN InitialModels},
     version : {InitialModels[i].version : i \in DOMAIN InitialModels},
     status : MODEL_STATUSES]

ASSUME ApprovalsAssumption ==
    /\ InitialModels \in Seq(ModelRecord)
    /\ \A p \in Proposals : p.type \in APPROVAL_TYPES
    /\ Concurrent \in BOOLEAN
    /\ RegistryMayRaise \in BOOLEAN
    /\ MaxCrashes \in Nat
    /\ NoOne \notin Users
    /\ NoOne \notin Proposals
    /\ NoOne \notin EFFECTS
    /\ NoOne \notin Approvals

VARIABLES
    rows,     \* the approvals table
    audit,    \* the audit table, oldest first (see AuditChain)
    req,      \* the handlers of the api process
    models,   \* contents of models.jsonl
    alarms,   \* governance alarms raised, as the approvals they are about
    changed,  \* version in the latest model:changed event that was delivered
    crashes

vars == <<rows, audit, req, models, alarms, changed, crashes>>

NoRow == [state |-> "absent", prop |-> NoOne, proposed_by |-> NoOne,
          decided_by |-> NoOne, decided_role |-> NoOne, effect |-> NoOne]

NewRequest == [pc |-> "new", op |-> NoOne, id |-> NoOne,
               user |-> NoOne, role |-> NoOne, outcome |-> NoOne]

Answered == [NewRequest EXCEPT !.pc = "done"]

AuditEntry(action, id, user, role, result) ==
    [action |-> action, id |-> id, user |-> user, role |-> role, result |-> result]

Init ==
    /\ rows = [a \in Approvals |-> NoRow]
    /\ audit = <<>>
    /\ req = [r \in Requests |-> NewRequest]
    /\ models = InitialModels
    /\ alarms = <<>>
    /\ changed = NoOne
    /\ crashes = 0

Exists(a) == rows[a].state # "absent"

InFlight == {r \in Requests : req[r].pc \notin {"new", "done"}}

\* A request reaches its handler; without concurrency only when the
\* previous one has been answered.
CanStart(r) == req[r].pc = "new" /\ (Concurrent \/ InFlight = {})

(***************************************************************************)
(* POST /approvals, and the proposal a passed training job makes: the      *)
(* INSERT and its audit row commit together, under a fresh approval_id.    *)
(***************************************************************************)
Propose(a, p, u, role) ==
    /\ ~Exists(a)
    /\ has_permission(role, PROPOSE_CODE[p.type])
    /\ rows' = [rows EXCEPT ![a] = [NoRow EXCEPT !.state = "pending",
                                                 !.prop = p,
                                                 !.proposed_by = u]]
    /\ audit' = Append(audit, AuditEntry("propose", a, u, role, "pending"))
    /\ UNCHANGED <<req, models, alarms, changed, crashes>>

(***************************************************************************)
(* The coarse gate of the router: approve and reject need approval.read,   *)
(* withdraw only a valid role.                                             *)
(***************************************************************************)
PassesGate(op, role) == op = "withdraw" \/ has_permission(role, "approval.read")

\* Mutant: only the permission layer separates proposer and approver.
MayDecideByCodeOnly(op, row, u, role) ==
    IF op = "withdraw"
      THEN row.proposed_by = u
      ELSE has_permission(role, APPROVE_CODE[row.prop.type])

\* _check_can_decide for approve / reject, and the proposer check of withdraw.
MayDecide(op, row, u, role) ==
    IF op = "withdraw"
      THEN row.proposed_by = u
      ELSE /\ row.proposed_by # u
           /\ has_permission(role, APPROVE_CODE[row.prop.type])

\* Mutant: an approved row may still be decided.
CanAlsoLeaveApproved(current) == current \in {"pending", "approved"}

\* next_state: everything leaves pending only.
can_transition(current) == current = "pending"

\* 403 from the gate of a decision or from the propose code of POST /approvals;
\* the attempt is audited best-effort in a session of its own.
Deny(r, op, u, role) ==
    /\ CanStart(r)
    /\ \/ ~PassesGate(op, role)
       \/ \E t \in APPROVAL_TYPES : ~has_permission(role, PROPOSE_CODE[t])
    /\ req' = [req EXCEPT ![r] = Answered]
    /\ \/ audit' = Append(audit, AuditEntry("authz.denied", NoOne, u, role, "denied"))
       \/ UNCHANGED audit
    /\ UNCHANGED <<rows, models, alarms, changed, crashes>>

\* 404, 403 or 409 from the service: nothing is written.
Refuse(r, op, a, u, role) ==
    /\ CanStart(r)
    /\ PassesGate(op, role)
    /\ \/ ~Exists(a)
       \/ Exists(a) /\ ~(MayDecide(op, rows[a], u, role) /\ can_transition(rows[a].state))
    /\ req' = [req EXCEPT ![r] = Answered]
    /\ UNCHANGED <<rows, audit, models, alarms, changed, crashes>>

\* The SELECT, and every check on the row it returned.
Read(r, op, a, u, role) ==
    /\ CanStart(r)
    /\ PassesGate(op, role)
    /\ Exists(a)
    /\ MayDecide(op, rows[a], u, role)
    /\ can_transition(rows[a].state)
    /\ req' = [req EXCEPT ![r] = [pc |-> "decide", op |-> op, id |-> a,
                                  user |-> u, role |-> role, outcome |-> NoOne]]
    /\ UNCHANGED <<rows, audit, models, alarms, changed, crashes>>

\* The columns a decision writes.
DecidedRow(row, q) ==
    [row EXCEPT !.state = ACTION_TARGET[q.op],
                !.decided_by = q.user,
                !.decided_role = q.role]

\* Mutant: the UPDATE is made conditional, but its row count is not looked at
\* and the decision is audited all the same.
DecideConditionally(r) ==
    LET q == req[r]
    IN  /\ q.pc = "decide"
        /\ rows' = IF rows[q.id].state = "pending"
                     THEN [rows EXCEPT ![q.id] = DecidedRow(@, q)]
                     ELSE rows
        /\ audit' = Append(audit, AuditEntry(q.op, q.id, q.user, q.role, ACTION_TARGET[q.op]))
        /\ req' = [req EXCEPT ![r] = IF q.op = "approve"
                                       THEN [q EXCEPT !.pc = "effect"]
                                       ELSE Answered]
        /\ UNCHANGED <<models, alarms, changed, crashes>>

\* Mutant: reject and withdraw fall through to the side effect.
DecideAlwaysApplies(r) ==
    LET q == req[r]
    IN  /\ q.pc = "decide"
        /\ rows' = [rows EXCEPT ![q.id] = DecidedRow(@, q)]
        /\ audit' = Append(audit, AuditEntry(q.op, q.id, q.user, q.role, ACTION_TARGET[q.op]))
        /\ req' = [req EXCEPT ![r] = [q EXCEPT !.pc = "effect"]]
        /\ UNCHANGED <<models, alarms, changed, crashes>>

(***************************************************************************)
(* AuditService.record of the decision: under the audit lock the pending   *)
(* UPDATE is flushed, the audit row inserted and both committed.  The      *)
(* UPDATE is unconditional (WHERE id = ...).                               *)
(***************************************************************************)
Decide(r) ==
    LET q == req[r]
    IN  /\ q.pc = "decide"
        /\ rows' = [rows EXCEPT ![q.id] = DecidedRow(@, q)]
        /\ audit' = Append(audit, AuditEntry(q.op, q.id, q.user, q.role, ACTION_TARGET[q.op]))
        /\ req' = [req EXCEPT ![r] = IF q.op = "approve"
                                       THEN [q EXCEPT !.pc = "effect"]
                                       ELSE Answered]
        /\ UNCHANGED <<models, alarms, changed, crashes>>

\* The device state the tuning check is given: a named device counts as idle.
DeviceState(p) == IF p.device # NoOne THEN "idle" ELSE "none"

Outcome(p) ==
    CASE p.type = "model_promotion" ->
            IF CanPromote(models, p.scenario_id, p.to) THEN "applied" ELSE "apply_failed"
      [] p.type = "param_tuning" ->
            IF check_param_tuning(p, DeviceState(p)) = "ok" THEN "applied" ELSE "failed"
      [] p.type = "scenario_activation" -> "shadow"

\* The check of a tuning whose param is a list or an object raises.
CheckRaises(p) ==
    p.type = "param_tuning" /\ check_param_tuning(p, DeviceState(p)) = "TypeError"

(***************************************************************************)
(* _apply_side_effect up to its first await: the registry file is          *)
(* rewritten (synchronously) or the five checks are run to a verdict.      *)
(***************************************************************************)
ApplyEffect(r) ==
    LET q == req[r]
        p == rows[q.id].prop
    IN  /\ q.pc = "effect"
        /\ ~CheckRaises(p)
        /\ req' = [req EXCEPT ![r] = [q EXCEPT !.pc = "record", !.outcome = Outcome(p)]]
        /\ models' = IF p.type = "model_promotion" /\ Outcome(p) = "applied"
                       THEN Promote(models, p.scenario_id, p.to)
                       ELSE models
        /\ UNCHANGED <<rows, audit, alarms, changed, crashes>>

(***************************************************************************)
(* An exception the service does not catch: promote on an undecodable file *)
(* or with its temporary file taken by the worker, or the whitelist check  *)
(* on an unhashable param.  500; the decision stays committed, no effect   *)
(* is recorded and no alarm raised.                                        *)
(***************************************************************************)
EffectRaises(r) ==
    /\ req[r].pc = "effect"
    /\ \/ RegistryMayRaise /\ rows[req[r].id].prop.type = "model_promotion"
       \/ CheckRaises(rows[req[r].id].prop)
    /\ req' = [req EXCEPT ![r] = Answered]
    /\ UNCHANGED <<rows, audit, models, alarms, changed, crashes>>

\* Mutant: a failed effect is alarmed without being recorded.
RecordOnlySuccess(r) ==
    LET q == req[r]
        type == rows[q.id].prop.type
    IN  /\ q.pc = "record"
        /\ IF q.outcome \in {"failed", "apply_failed"}
             THEN /\ req' = [req EXCEPT ![r].pc = "alarm"]
                  /\ UNCHANGED <<rows, audit>>
             ELSE /\ rows' = [rows EXCEPT ![q.id] = [@ EXCEPT !.effect = q.outcome]]
                  /\ audit' = Append(audit, AuditEntry("apply", q.id, q.user, q.role, q.outcome))
                  /\ req' = [req EXCEPT ![r] = IF type = "model_promotion"
                                                THEN [q EXCEPT !.pc = "publish"]
                                                ELSE Answered]
        /\ UNCHANGED <<models, alarms, changed, crashes>>

\* _set_side_effect: status column and audit row in one transaction.
RecordEffect(r) ==
    LET q == req[r]
        type == rows[q.id].prop.type
    IN  /\ q.pc = "record"
        /\ rows' = [rows EXCEPT ![q.id] = [@ EXCEPT !.effect = q.outcome]]
        /\ audit' = Append(audit, AuditEntry("apply", q.id, q.user, q.role, q.outcome))
        /\ req' = [req EXCEPT ![r] =
                     IF q.outcome \in {"failed", "apply_failed"}
                       THEN [q EXCEPT !.pc = "alarm"]
                     ELSE IF type = "model_promotion"
                       THEN [q EXCEPT !.pc = "publish"]
                     ELSE Answered]
        /\ UNCHANGED <<models, alarms, changed, crashes>>

\* Mutant: governance alarms are de-duplicated like fallback alarms.
RaiseAlarmOnce(r) ==
    LET q == req[r]
    IN  /\ q.pc = "alarm"
        /\ alarms' = IF q.id \in Range(alarms) THEN alarms ELSE Append(alarms, q.id)
        /\ audit' = Append(audit, AuditEntry("alarm.raised", q.id, NoOne, NoOne, "active"))
        /\ req' = [req EXCEPT ![r] = Answered]
        /\ UNCHANGED <<rows, models, changed, crashes>>

\* raise_governance_alarm: one alarm per failure, no de-duplication.
RaiseAlarm(r) ==
    LET q == req[r]
    IN  /\ q.pc = "alarm"
        /\ alarms' = Append(alarms, q.id)
        /\ audit' = Append(audit, AuditEntry("alarm.raised", q.id, NoOne, NoOne, "active"))
        /\ req' = [req EXCEPT ![r] = Answered]
        /\ UNCHANGED <<rows, models, changed, crashes>>

\* Mutant: the event leaves before the effect is recorded.
PublishBeforeRecord(r) ==
    LET q == req[r]
    IN  /\ q.pc \in {"record", "publish"}
        /\ rows[q.id].prop.type = "model_promotion"
        /\ q.outcome = "applied"
        /\ changed' = rows[q.id].prop.to
        /\ UNCHANGED <<rows, audit, req, models, alarms, crashes>>

\* model:changed on l3_deploy, best effort: delivered or lost.
PublishModelChanged(r) ==
    LET q == req[r]
    IN  /\ q.pc = "publish"
        /\ \/ changed' = rows[q.id].prop.to
           \/ UNCHANGED changed
        /\ req' = [req EXCEPT ![r] = Answered]
        /\ UNCHANGED <<rows, audit, models, alarms, crashes>>

\* The api process dies with every handler in it; committed rows and files stay.
Crash ==
    /\ crashes < MaxCrashes
    /\ InFlight # {}
    /\ crashes' = crashes + 1
    /\ req' = [r \in Requests |-> IF r \in InFlight THEN Answered ELSE req[r]]
    /\ UNCHANGED <<rows, audit, models, alarms, changed>>

\* Every request has been answered: the service idles.
Quiescent ==
    /\ \A r \in Requests : req[r].pc = "done"
    /\ UNCHANGED vars

Arrive(r) ==
    \E op \in DECISIONS, u \in Users, role \in VALID_ROLES :
        \/ Deny(r, op, u, role)
        \/ \E a \in Approvals : Refuse(r, op, a, u, role) \/ Read(r, op, a, u, role)

Continue(r) ==
    \/ Decide(r)
    \/ ApplyEffect(r)
    \/ EffectRaises(r)
    \/ RecordEffect(r)
    \/ RaiseAlarm(r)
    \/ PublishModelChanged(r)

Next ==
    \/ \E a \in Approvals, p \in Proposals, u \in Users, role \in VALID_ROLES :
          Propose(a, p, u, role)
    \/ \E r \in Requests : Arrive(r) \/ Continue(r)
    \/ Crash
    \/ Quiescent

Spec == Init /\ [][Next]_vars

\* The event loop resumes every handler; nothing obliges a user to act.
FairSpec == Spec /\ \A r \in Requests : WF_vars(Continue(r))

----------------------------------------------------------------------------
Row == [state : APPROVAL_STATES \cup {"absent"},
        prop : Proposals \cup {NoOne},
        proposed_by : Users \cup {NoOne},
        decided_by : Users \cup {NoOne},
        decided_role : VALID_ROLES \cup {NoOne},
        effect : EFFECTS \cup {NoOne}]

Entry == [action : DECISIONS \cup {"propose", "apply", "authz.denied", "alarm.raised"},
          id : Approvals \cup {NoOne},
          user : Users \cup {NoOne},
          role : VALID_ROLES \cup {NoOne},
          result : APPROVAL_STATES \cup EFFECTS \cup {"denied", "active"}]

Handler == [pc : {"new", "decide", "effect", "record", "alarm", "publish", "done"},
            op : DECISIONS \cup {NoOne},
            id : Approvals \cup {NoOne},
            user : Users \cup {NoOne},
            role : VALID_ROLES \cup {NoOne},
            outcome : EFFECTS \cup {NoOne}]

\* The tables, the handlers and the audit log hold values of their types; a
\* handler in flight works on a row that exists, with a caller and an operation.
TypeOK ==
    /\ rows \in [Approvals -> Row]
    /\ audit \in Seq(Entry)
    /\ req \in [Requests -> Handler]
    /\ crashes \in 0..MaxCrashes
    /\ \A a \in Approvals :
          Exists(a) => rows[a].prop \in Proposals /\ rows[a].proposed_by \in Users
    /\ \A r \in InFlight :
          /\ req[r].id \in Approvals /\ Exists(req[r].id)
          /\ req[r].op \in DECISIONS
          /\ req[r].user \in Users
          /\ req[r].role \in VALID_ROLES
          /\ req[r].pc = "record" => req[r].outcome \in EFFECTS

\* Separation of duties, whatever handlers overlap and in either topology:
\* an approved or rejected row was decided by somebody else than its proposer,
\* in a role holding the approve code of its type; a withdrawn row was
\* withdrawn by its proposer (approval_service.py _check_can_decide, withdraw).
SeparationOfDuties ==
    \A a \in Approvals :
        /\ rows[a].state \in {"approved", "rejected"} =>
              /\ rows[a].decided_by \in Users \ {rows[a].proposed_by}
              /\ has_permission(rows[a].decided_role, APPROVE_CODE[rows[a].prop.type])
        /\ rows[a].state = "withdrawn" => rows[a].decided_by = rows[a].proposed_by

DecisionEntries(a) == {i \in DOMAIN audit : audit[i].action \in DECISIONS /\ audit[i].id = a}

\* Audit truth: the decision a row shows is the last one the audit log
\* records for it (outcome, user and role), and an undecided row has none,
\* although rows are updated from stale reads (approval_service.py, D7.3).
AuditTruth ==
    \A a \in Approvals :
        IF rows[a].state \in TERMINAL_STATES
          THEN \E i \in DecisionEntries(a) :
                  /\ \A j \in DecisionEntries(a) : j <= i
                  /\ audit[i].result = rows[a].state
                  /\ audit[i].user = rows[a].decided_by
                  /\ audit[i].role = rows[a].decided_role
          ELSE DecisionEntries(a) = {}

\* No side effect is recorded for a decision nobody took: every apply entry
\* of the audit log follows an approve entry of the same approval by the
\* same user in the same role (approve calls _apply_side_effect after its
\* commit), and a row with an effect has such an entry.
EffectsAuthorised ==
    /\ \A i \in DOMAIN audit :
          audit[i].action = "apply" =>
             \E j \in 1..(i - 1) :
                /\ audit[j].action = "approve"
                /\ audit[j].id = audit[i].id
                /\ audit[j].user = audit[i].user
                /\ audit[j].role = audit[i].role
    /\ \A a \in Approvals :
          rows[a].effect # NoOne =>
             \E i \in DOMAIN audit :
                /\ audit[i].action = "apply"
                /\ audit[i].id = a
                /\ audit[i].result = rows[a].effect

Failures(a) == {i \in DOMAIN audit : /\ audit[i].action = "apply"
                                     /\ audit[i].id = a
                                     /\ audit[i].result \in {"failed", "apply_failed"}}

\* A recorded failure is never silent: unless the process has crashed, every
\* failed effect has an alarm of its own or a handler about to raise it, also
\* when two handlers fail on the same approval (D7.3, no de-duplication).
FailuresAlarmed ==
    crashes = 0 =>
       \A a \in Approvals :
          Cardinality(Failures(a)) =
              Cardinality({k \in DOMAIN alarms : alarms[k] = a})
            + Cardinality({r \in Requests : req[r].pc = "alarm" /\ req[r].id = a})

\* A model version is active only if the engine layer shipped it active or an
\* approve entry for a promotion to it is in the audit log: no path, raced,
\* crashed or failed, activates a version nobody approved.
ActiveVersionWasApproved ==
    \A k \in DOMAIN models :
        models[k].status = "active" =>
           \/ InitialModels[k].status = "active"
           \/ \E i \in DOMAIN audit :
                 /\ audit[i].action = "approve"
                 /\ rows[audit[i].id].prop.type = "model_promotion"
                 /\ rows[audit[i].id].prop.scenario_id = models[k].scenario_id
                 /\ rows[audit[i].id].prop.to = models[k].version

\* Subscribers of model:changed never act on a promotion that was not
\* committed: the version of a delivered event is the target of an approval
\* the audit log records as applied (model:changed leaves after the commit).
ModelChangedIsRecorded ==
    changed # NoOne =>
       \E i \in DOMAIN audit :
          /\ audit[i].action = "apply"
          /\ audit[i].result = "applied"
          /\ rows[audit[i].id].prop.type = "model_promotion"
          /\ rows[audit[i].id].prop.to = changed

\* domain/approvals.py: a decided approval can never transition again.
DecidedIsTerminal ==
    [][\A a \in Approvals :
          rows[a].state \in TERMINAL_STATES => rows'[a].state = rows[a].state]_vars

\* What the register shows of the table.
Decisions == [a \in Approvals |-> [state |-> rows[a].state,
                                   proposer |-> rows[a].proposed_by,
                                   decider |-> rows[a].decided_by,
                                   effect |-> rows[a].effect]]

Register == INSTANCE DecisionRegister WITH register <- Decisions

\* Requests answered one at a time make the table a decision register: whatever
\* is denied, refused or fails in between, a row is decided once, by
\* the right person, and gets at most one effect, only after an approval
\* (approve, reject, withdraw and _set_side_effect).
RegisterSpec == Register!Spec

Promotions(s) ==
    {i \in DOMAIN audit : /\ audit[i].action = "apply"
                          /\ audit[i].result = "applied"
                          /\ rows[audit[i].id].prop.type = "model_promotion"
                          /\ rows[audit[i].id].prop.scenario_id = s}

\* When no handler is in flight and none crashed, the registry agrees with the
\* audit log: the only active version of a scenario is the target of its last
\* promotion recorded as applied (or the shipped one when there was none).
RegistryMatchesAudit ==
    (InFlight = {} /\ crashes = 0) =>
       \A s \in {models[k].scenario_id : k \in DOMAIN models} :
          IF Promotions(s) = {}
            THEN ActiveIndices(models, s) = ActiveIndices(InitialModels, s)
            ELSE \E k \in ActiveIndices(models, s) :
                    /\ ActiveIndices(models, s) = {k}
                    /\ models[k].version = rows[audit[Max(Promotions(s))].id].prop.to

\* Every approval that was approved ends with a recorded effect, provided the
\* process does not crash and the registry raises nothing unexpected.  Named
\* exception: a tuning whose param is unhashable, on which the five checks
\* raise instead of failing, is approved and never gets an effect.
ApprovedGetsEffect ==
    \A a \in Approvals :
       (Exists(a) /\ rows[a].state = "approved" /\ ~CheckRaises(rows[a].prop))
          ~> rows[a].effect # NoOne

============================================================================
