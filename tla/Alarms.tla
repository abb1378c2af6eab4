------------------------------- MODULE Alarms -------------------------------
(***************************************************************************)
(* Alarms and maintenance reports: app/services/alarm_service.py and       *)
(* app/services/maintenance_service.py behind their routers, and the cron  *)
(* job sim_fallback_escalation of worker/tasks.py.                         *)
(*                                                                         *)
(* The alarms table is the sequence of its rows by primary key.  An        *)
(* escalation has one device and one rule and runs every 10 minutes under  *)
(* a job timeout of 5, so that two of them never overlap; handlers of the  *)
(* api process overlap with it and with each other.  Every handler checks  *)
(* the status its own session loaded.  Correlation ids, notes and times    *)
(* are left out, so the update of a deduplicated alarm leaves its row as   *)
(* it is.  A report's id is the request that creates it; alarm 0 stands    *)
(* for an id that no alarm has.                                            *)
(***************************************************************************)
EXTENDS Naturals, Sequences, FiniteSets

CONSTANTS
    Requests,       \* ack, resolve and maintenance-report requests
    MaxGovernance,  \* governance alarms raised, a bound
    MaxCrashes,     \* crashes of a process, a bound
    Nothing         \* no alarm, no report

ASSUME AlarmsAssumption ==
    /\ MaxGovernance \in Nat
    /\ MaxCrashes \in Nat
    /\ Nothing \notin Requests
    /\ Nothing \notin Nat

ALARM_STATES == {"active", "acknowledged", "resolved"}

ACTION_TARGET == [ack |-> "acknowledged", resolve |-> "resolved"]

can_transition(current, target) ==
    <<current, target>> \in {<<"active", "acknowledged">>,
                             <<"active", "resolved">>,
                             <<"acknowledged", "resolved">>}

VARIABLES
    alarms,     \* the alarms table
    reports,    \* the maintenance_reports table
    audit,      \* results audited for each alarm, oldest first
    events,     \* alarm:new and alarm:updated events delivered
    tick,       \* the escalation in progress
    req,        \* handlers of the requests
    raised,     \* governance alarms raised so far
    crashes

vars == <<alarms, reports, audit, events, tick, req, raised, crashes>>

Fallback(i) == alarms[i].rule = "fallback"

Row(rule) == [rule |-> rule, status |-> "active", report |-> Nothing]

IdleTick == [pc |-> "idle", alarm |-> 0, status |-> "active"]

NewRequest == [pc |-> "new", action |-> "resolve", alarm |-> Nothing, report |-> Nothing]

Init ==
    /\ alarms = <<>>
    /\ reports = {}
    /\ audit = <<>>
    /\ events = {}
    /\ tick = IdleTick
    /\ req = [r \in Requests |-> NewRequest]
    /\ raised = 0
    /\ crashes = 0

\* INSERT of an alarm and of its audit row, in one transaction.
Raise(rule) ==
    /\ alarms' = Append(alarms, Row(rule))
    /\ audit' = Append(audit, <<"active">>)

\* Best-effort publishing of what the session's object says.
Publish(alarm, status) ==
    events' = events \/ events' = events \cup {[alarm |-> alarm, status |-> status]}

----------------------------------------------------------------------------
\* Mutant: the look-up compares with the newest alarm of the table only.
FindInNewest ==
    {i \in DOMAIN alarms : Fallback(i) /\ alarms[i].status = "active" /\ i = Len(alarms)}

\* Mutant: the look-up also finds alarms that somebody took care of.
FindUnresolved ==
    {i \in DOMAIN alarms : Fallback(i) /\ alarms[i].status # "resolved"}

FindActive == {i \in DOMAIN alarms : Fallback(i) /\ alarms[i].status = "active"}

\* raise_from_fallback: the dedup look-up takes the newest one.
Escalate ==
    /\ tick.pc = "idle"
    /\ \/ /\ FindActive = {}
          /\ tick' = [tick EXCEPT !.pc = "insert"]
       \/ \E i \in FindActive :
             /\ \A k \in FindActive : k <= i
             /\ tick' = [pc |-> "refresh", alarm |-> i, status |-> alarms[i].status]
    /\ UNCHANGED <<alarms, reports, audit, events, req, raised, crashes>>

InsertAlarm ==
    /\ tick.pc = "insert"
    /\ Raise("fallback")
    /\ tick' = [pc |-> "publish", alarm |-> Len(alarms) + 1, status |-> "active"]
    /\ UNCHANGED <<reports, events, req, raised, crashes>>

\* Mutant: the refresh writes back every column of the object it loaded.
RefreshWholeRow ==
    /\ tick.pc = "refresh"
    /\ alarms' = [alarms EXCEPT ![tick.alarm].status = tick.status]
    /\ tick' = [tick EXCEPT !.pc = "publish"]
    /\ UNCHANGED <<reports, audit, events, req, raised, crashes>>

\* The UPDATE of correlation_id and updated_at only; it is not audited and does
\* not look at the status again.
RefreshAlarm ==
    /\ tick.pc = "refresh"
    /\ tick' = [tick EXCEPT !.pc = "publish"]
    /\ UNCHANGED <<alarms, reports, audit, events, req, raised, crashes>>

PublishAlarm ==
    /\ tick.pc = "publish"
    /\ Publish(tick.alarm, tick.status)
    /\ tick' = IdleTick
    /\ UNCHANGED <<alarms, reports, audit, req, raised, crashes>>

\* raise_governance_alarm, the tail of a failed side effect: no look-up.
RaiseGovernance ==
    /\ raised < MaxGovernance
    /\ raised' = raised + 1
    /\ Raise("governance")
    /\ Publish(Len(alarms) + 1, "active")
    /\ UNCHANGED <<reports, tick, req, crashes>>

----------------------------------------------------------------------------
(***************************************************************************)
(* ack and resolve.  The report a resolve names comes from the client and  *)
(* is not looked up: the id of any request stands for it, used or not.     *)
(***************************************************************************)
Arrive(r, action, i, report) ==
    /\ req[r].pc = "new"
    /\ i \in DOMAIN alarms \cup {0}
    /\ action = "ack" => report = Nothing
    /\ req' = [req EXCEPT ![r] = [pc |-> "read", action |-> action,
                                  alarm |-> i, report |-> report]]
    /\ UNCHANGED <<alarms, reports, audit, events, tick, raised, crashes>>

\* MaintenanceService.create: the report is committed with its audit row before
\* the alarm it names, if any, is even looked up.
CreateReport(r, i) ==
    /\ req[r].pc = "new"
    /\ i \in DOMAIN alarms \cup {0, Nothing}
    /\ reports' = reports \cup {r}
    /\ req' = [req EXCEPT ![r] = [pc |-> IF i = Nothing THEN "ok" ELSE "read",
                                  action |-> "resolve", alarm |-> i, report |-> r]]
    /\ UNCHANGED <<alarms, audit, events, tick, raised, crashes>>

\* Mutant: an unknown alarm is not told from one that may be handled.
LoadUnchecked(r) ==
    LET i == req[r].alarm
    IN  /\ req[r].pc = "read"
        /\ req' = [req EXCEPT ![r].pc = IF i = 0 \/ alarms[i].status = "active"
                                         THEN "commit" ELSE "409"]
        /\ UNCHANGED <<alarms, reports, audit, events, tick, raised, crashes>>

\* _get_or_404 and next_state on the object it returned.
Load(r) ==
    LET i == req[r].alarm
        legal == can_transition(alarms[i].status, ACTION_TARGET[req[r].action])
    IN  /\ req[r].pc = "read"
        /\ req' = [req EXCEPT ![r].pc = IF i = 0 THEN "404" ELSE IF legal THEN "commit" ELSE "409"]
        /\ UNCHANGED <<alarms, reports, audit, events, tick, raised, crashes>>

\* Mutant: the update is conditional on the status read, the audit row is not.
StoreConditionally(r) ==
    LET i == req[r].alarm
        target == ACTION_TARGET[req[r].action]
    IN  /\ req[r].pc = "commit"
        /\ alarms' = [alarms EXCEPT ![i].status = IF @ = "resolved" THEN @ ELSE target]
        /\ audit' = [audit EXCEPT ![i] = Append(@, target)]
        /\ req' = [req EXCEPT ![r].pc = "publish"]
        /\ UNCHANGED <<reports, events, tick, raised, crashes>>

\* The UPDATE, keyed by the row only, and the audit row.
Store(r) ==
    LET i == req[r].alarm
        target == ACTION_TARGET[req[r].action]
        report == req[r].report
    IN  /\ req[r].pc = "commit"
        /\ alarms' = [alarms EXCEPT ![i].status = target,
                                    ![i].report = IF report = Nothing THEN @ ELSE report]
        /\ audit' = [audit EXCEPT ![i] = Append(@, target)]
        /\ req' = [req EXCEPT ![r].pc = "publish"]
        /\ UNCHANGED <<reports, events, tick, raised, crashes>>

Answer(r) ==
    /\ req[r].pc = "publish"
    /\ Publish(req[r].alarm, ACTION_TARGET[req[r].action])
    /\ req' = [req EXCEPT ![r].pc = "ok"]
    /\ UNCHANGED <<alarms, reports, audit, tick, raised, crashes>>

Ended == {"ok", "404", "409", "crashed"}

\* A process dies: what it has not committed is rolled back.
CrashApi ==
    /\ crashes < MaxCrashes
    /\ crashes' = crashes + 1
    /\ req' = [r \in Requests |-> IF req[r].pc \in {"new"} \cup Ended
                                    THEN req[r] ELSE [req[r] EXCEPT !.pc = "crashed"]]
    /\ UNCHANGED <<alarms, reports, audit, events, tick, raised>>

CrashWorker ==
    /\ crashes < MaxCrashes
    /\ crashes' = crashes + 1
    /\ tick' = IdleTick
    /\ UNCHANGED <<alarms, reports, audit, events, req, raised>>

----------------------------------------------------------------------------
TickStep == Escalate \/ InsertAlarm \/ RefreshAlarm \/ PublishAlarm

RequestStep(r) == Load(r) \/ Store(r) \/ Answer(r)

Submit(r) ==
    \/ \E i \in DOMAIN alarms \cup {0}, action \in DOMAIN ACTION_TARGET,
         report \in Requests \cup {Nothing} : Arrive(r, action, i, report)
    \/ \E i \in DOMAIN alarms \cup {0, Nothing} : CreateReport(r, i)

Next ==
    \/ TickStep
    \/ RaiseGovernance
    \/ \E r \in Requests : Submit(r) \/ RequestStep(r)
    \/ CrashApi \/ CrashWorker

Spec == Init /\ [][Next]_vars

\* The cron job keeps running; nothing is assumed of the requests.
FairSpec == Spec /\ WF_vars(TickStep)

----------------------------------------------------------------------------
AlarmRow == [rule : {"fallback", "governance"}, status : ALARM_STATES,
             report : Requests \cup {Nothing}]

Request == [pc : {"new", "read", "commit", "publish"} \cup Ended,
            action : {"ack", "resolve"},
            alarm : Nat \cup {Nothing},
            report : Requests \cup {Nothing}]

\* Tables, handlers and the escalation hold values of their types, every alarm
\* has an audit trail, and work in hand is on alarms that exist.
TypeOK ==
    /\ alarms \in Seq(AlarmRow)
    /\ audit \in Seq(Seq(ALARM_STATES) \ {<<>>})
    /\ Len(audit) = Len(alarms)
    /\ reports \in SUBSET Requests
    /\ events \in SUBSET [alarm : DOMAIN alarms, status : ALARM_STATES]
    /\ tick \in [pc : {"idle", "insert", "refresh", "publish"}, alarm : Nat, status : ALARM_STATES]
    /\ tick.pc \in {"refresh", "publish"} => tick.alarm \in DOMAIN alarms
    /\ req \in [Requests -> Request]
    /\ \A r \in Requests :
          /\ req[r].pc = "read" => req[r].alarm \in DOMAIN alarms \cup {0}
          /\ req[r].pc \in {"commit", "publish"} => req[r].alarm \in DOMAIN alarms

\* The status of an alarm is the last result audited for it, although the
\* refresh of a deduplicated alarm is neither audited nor checked and decisions
\* overwrite each other; and an event, however late it is delivered, names a
\* status that was committed for its alarm.
AuditTruth ==
    /\ \A i \in DOMAIN alarms : alarms[i].status = audit[i][Len(audit[i])]
    /\ \A e \in events : \E n \in DOMAIN audit[e.alarm] : audit[e.alarm][n] = e.status

\* A persisting escalation does not flood the alarm centre: one active alarm of
\* its device and rule at most, whatever is acknowledged or resolved between the
\* look-up and the insertion (raise_from_fallback has no lock and no unique
\* index to rely on).
OneActive ==
    \A i, k \in DOMAIN alarms :
        Fallback(i) /\ Fallback(k) /\ alarms[i].status = "active" /\ alarms[k].status = "active"
            => i = k

\* An alarm that somebody was told to have acknowledged, resolved or reported on
\* is not active again: a refresh that is under way does not re-open it.
HandledStaysHandled ==
    \A r \in Requests :
        req[r].pc = "ok" /\ req[r].alarm # Nothing => alarms[req[r].alarm].status # "active"

\* The escalation that persists does not go unnoticed: a refresh may land on an
\* alarm that was resolved meanwhile, but once nobody takes care of alarms any
\* more an active one stays on display.
EscalationShown == <>[](\E i \in DOMAIN alarms : Fallback(i) /\ alarms[i].status = "active")

============================================================================
