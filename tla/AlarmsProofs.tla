---------------------------- MODULE AlarmsProofs ----------------------------
(***************************************************************************)
(* Alarms for any number of requests, alarms and crashes.                  *)
(*                                                                         *)
(* The argument: nothing but an INSERT makes an alarm active, and the only *)
(* INSERT of a fallback alarm follows a look-up that found none; between   *)
(* the two the set of active fallback alarms can only shrink (TickInv).    *)
(* The status of a row and its audit row are written together, and what is *)
(* about to be published was audited before (TickInv, HandlerInv).         *)
(***************************************************************************)
EXTENDS Alarms, SequenceTheorems, TLAPS

Audited(i, status) == \E n \in DOMAIN audit[i] : audit[i][n] = status

TickInv ==
    /\ tick.pc = "insert" => FindActive = {}
    /\ tick.pc \in {"refresh", "publish"} => Audited(tick.alarm, tick.status)

HandlerInv ==
    \A r \in Requests :
        /\ req[r].pc = "publish" =>
              /\ Audited(req[r].alarm, ACTION_TARGET[req[r].action])
              /\ alarms[req[r].alarm].status # "active"
        /\ req[r].pc = "ok" /\ req[r].alarm # Nothing => req[r].alarm \in DOMAIN alarms

Inv == /\ TypeOK /\ AuditTruth /\ OneActive /\ HandledStaysHandled
       /\ TickInv /\ HandlerInv

----------------------------------------------------------------------------
\* What a step may do to the two tables: rows stay, keep their rule and are not
\* activated again, and audit trails only grow.
Grows ==
    /\ DOMAIN alarms \subseteq DOMAIN alarms'
    /\ \A i \in DOMAIN alarms :
          /\ alarms'[i].rule = alarms[i].rule
          /\ alarms[i].status # "active" => alarms'[i].status # "active"
          /\ \A n \in DOMAIN audit[i] : n \in DOMAIN audit'[i] /\ audit'[i][n] = audit[i][n]

\* The tables after a step: typed, and each status is the last one audited.
TablesInv ==
    /\ alarms \in Seq(AlarmRow)
    /\ audit \in Seq(Seq(ALARM_STATES) \ {<<>>})
    /\ Len(audit) = Len(alarms)
    /\ \A i \in DOMAIN alarms : alarms[i].status = audit[i][Len(audit[i])]

\* Rows are numbered from 1.
LEMMA Numbered ==
    ASSUME TablesInv
    PROVE  /\ Len(alarms) \in Nat
           /\ DOMAIN alarms = 1 .. Len(alarms)
           /\ DOMAIN audit = DOMAIN alarms
           /\ \A i \in DOMAIN alarms : /\ alarms[i] \in AlarmRow
                                       /\ audit[i] \in Seq(ALARM_STATES)
                                       /\ Len(audit[i]) \in Nat \ {0}
                                       /\ DOMAIN audit[i] = 1 .. Len(audit[i])
PROOF
  <1>1. /\ Len(alarms) \in Nat
        /\ DOMAIN alarms = 1 .. Len(alarms)
        /\ DOMAIN audit = 1 .. Len(alarms)
    BY LenProperties DEF TablesInv
  <1>2. ASSUME NEW i \in DOMAIN alarms
        PROVE  alarms[i] \in AlarmRow /\ audit[i] \in Seq(ALARM_STATES) \ {<<>>}
    BY <1>1, <1>2, ElementOfSeq DEF TablesInv
  <1>3. ASSUME NEW i \in DOMAIN alarms
        PROVE  Len(audit[i]) \in Nat \ {0} /\ DOMAIN audit[i] = 1 .. Len(audit[i])
    BY <1>2, <1>3, EmptySeq, LenProperties
  <1>. QED
    BY <1>1, <1>2, <1>3

\* Audited after the step, for an alarm and a status of before it.
AuditedNow(i, status) == \E n \in DOMAIN audit'[i] : audit'[i][n] = status

\* What was audited stays audited.
LEMMA AuditedStays ==
    ASSUME Grows, NEW i \in DOMAIN alarms, NEW status, Audited(i, status)
    PROVE  AuditedNow(i, status)
  BY DEF Grows, Audited, AuditedNow

\* Rows that were active before a step are the only ones of before that are
\* active after it.
LEMMA ActiveShrinks ==
    ASSUME Grows, NEW i \in DOMAIN alarms,
           alarms'[i].rule = "fallback", alarms'[i].status = "active"
    PROVE  i \in FindActive
  BY DEF Grows, FindActive, Fallback

\* INSERT of an alarm with its audit row.
LEMMA RaiseTables ==
    ASSUME TablesInv, NEW rule \in {"fallback", "governance"}, Raise(rule)
    PROVE  /\ TablesInv' /\ Grows
           /\ DOMAIN alarms' = DOMAIN alarms \cup {Len(alarms) + 1}
           /\ alarms'[Len(alarms) + 1].rule = rule
           /\ AuditedNow(Len(alarms) + 1, "active")
PROOF
  <1> DEFINE n == Len(alarms) + 1
  <1>1. /\ Row(rule) \in AlarmRow /\ Row(rule).status = "active" /\ Row(rule).rule = rule
    BY DEF Row, AlarmRow, ALARM_STATES
  <1>2. /\ <<"active">> \in Seq(ALARM_STATES) \ {<<>>}
        /\ Len(<<"active">>) = 1 /\ <<"active">>[1] = "active" /\ DOMAIN <<"active">> = 1 .. 1
    BY DEF ALARM_STATES
  <1>3. /\ alarms' \in Seq(AlarmRow) /\ Len(alarms') = n /\ alarms'[n] = Row(rule)
        /\ \A i \in 1 .. Len(alarms) : alarms'[i] = alarms[i]
    BY <1>1, AppendProperties DEF Raise, TablesInv
  <1>4. /\ audit' \in Seq(Seq(ALARM_STATES) \ {<<>>}) /\ Len(audit') = n /\ audit'[n] = <<"active">>
        /\ \A i \in 1 .. Len(alarms) : audit'[i] = audit[i]
    BY <1>2, AppendProperties DEF Raise, TablesInv
  <1>5. /\ Len(alarms) \in Nat /\ DOMAIN alarms = 1 .. Len(alarms)
    BY Numbered
  <1>6. DOMAIN alarms' = 1 .. n /\ n \in Nat
    BY <1>3, <1>5, LenProperties
  <1>7. DOMAIN alarms' = DOMAIN alarms \cup {n}
    BY <1>5, <1>6
  <1>8. Grows
    BY <1>3, <1>4, <1>5, <1>7 DEF Grows
  <1>9. \A i \in DOMAIN alarms' : alarms'[i].status = audit'[i][Len(audit'[i])]
    BY <1>1, <1>2, <1>3, <1>4, <1>5, <1>7 DEF TablesInv
  <1>10. TablesInv'
    BY <1>3, <1>4, <1>9 DEF TablesInv
  <1>11. AuditedNow(n, "active")
    BY <1>2, <1>4 DEF AuditedNow
  <1>. QED
    BY <1>1, <1>3, <1>7, <1>8, <1>10, <1>11

\* The UPDATE of a row with its audit row.
LEMMA StoreTables ==
    ASSUME TablesInv, NEW r \in Requests, req[r] \in Request,
           req[r].alarm \in DOMAIN alarms, Store(r)
    PROVE  /\ TablesInv' /\ Grows
           /\ DOMAIN alarms' = DOMAIN alarms
           /\ alarms'[req[r].alarm].status # "active"
           /\ AuditedNow(req[r].alarm, ACTION_TARGET[req[r].action])
PROOF
  <1> DEFINE i == req[r].alarm
             target == ACTION_TARGET[req[r].action]
             link == IF req[r].report = Nothing THEN alarms[i].report ELSE req[r].report
             row == [alarms[i] EXCEPT !.status = target, !.report = link]
             trail == Append(audit[i], target)
  <1>1. target \in ALARM_STATES /\ target # "active"
    <2>1. req[r].action \in {"ack", "resolve"}
      BY DEF Request
    <2>. QED
      BY <2>1 DEF ALARM_STATES, ACTION_TARGET
  <1>2. /\ Len(alarms) \in Nat /\ i \in 1 .. Len(alarms)
        /\ DOMAIN alarms = 1 .. Len(alarms) /\ DOMAIN audit = DOMAIN alarms
        /\ alarms[i] \in AlarmRow
        /\ audit[i] \in Seq(ALARM_STATES) /\ DOMAIN audit[i] = 1 .. Len(audit[i])
    BY Numbered
  <1>3. link \in Requests \cup {Nothing}
    BY <1>2 DEF AlarmRow, Request
  <1>4. row \in AlarmRow /\ row.status = target /\ row.rule = alarms[i].rule
    <2> HIDE DEF link, target
    <2>. QED
      BY <1>1, <1>2, <1>3 DEF AlarmRow
  <1>5. /\ trail \in Seq(ALARM_STATES) \ {<<>>}
        /\ Len(trail) = Len(audit[i]) + 1 /\ trail[Len(trail)] = target
        /\ \A n \in 1 .. Len(audit[i]) : trail[n] = audit[i][n]
        /\ DOMAIN trail = 1 .. Len(audit[i]) + 1
    <2> HIDE DEF target
    <2>1. /\ trail \in Seq(ALARM_STATES) /\ trail # <<>>
          /\ Len(trail) = Len(audit[i]) + 1 /\ trail[Len(audit[i]) + 1] = target
          /\ \A n \in 1 .. Len(audit[i]) : trail[n] = audit[i][n]
      BY <1>1, <1>2, AppendProperties
    <2>. QED
      BY <2>1, LenProperties
  <1>6. alarms' = [alarms EXCEPT ![i] = row] /\ audit' = [audit EXCEPT ![i] = trail]
    <2>1. alarms' = [alarms EXCEPT ![i].status = target, ![i].report = link]
      BY DEF Store
    <2>2. audit' = [audit EXCEPT ![i] = trail]
      BY DEF Store
    <2> HIDE DEF link, target
    <2>. QED
      BY <1>2, <2>1, <2>2
  <1> HIDE DEF row, trail, link, target
  <1>7. /\ alarms' \in Seq(AlarmRow) /\ Len(alarms') = Len(alarms)
        /\ \A j \in 1 .. Len(alarms) : alarms'[j] = IF j = i THEN row ELSE alarms[j]
    BY <1>2, <1>4, <1>6, ExceptSeq DEF TablesInv
  <1>8. /\ audit' \in Seq(Seq(ALARM_STATES) \ {<<>>}) /\ Len(audit') = Len(alarms)
        /\ \A j \in 1 .. Len(alarms) : audit'[j] = IF j = i THEN trail ELSE audit[j]
    BY <1>2, <1>5, <1>6, ExceptSeq DEF TablesInv
  <1>9. DOMAIN alarms' = DOMAIN alarms
    BY <1>2, <1>7, LenProperties
  <1>10. Grows
    <2>1. ASSUME NEW j \in DOMAIN alarms
          PROVE  /\ alarms'[j].rule = alarms[j].rule
                 /\ alarms[j].status # "active" => alarms'[j].status # "active"
      BY <1>1, <1>2, <1>4, <1>7
    <2>2. ASSUME NEW j \in DOMAIN alarms, NEW n \in DOMAIN audit[j]
          PROVE  n \in DOMAIN audit'[j] /\ audit'[j][n] = audit[j][n]
      <3>1. CASE j = i
        <4>1. Len(audit[i]) \in Nat /\ n \in 1 .. Len(audit[i])
          BY <1>2, <2>2, <3>1, LenProperties
        <4>2. audit'[j] = trail
          BY <1>2, <1>8, <3>1
        <4>3. n \in DOMAIN trail /\ trail[n] = audit[i][n]
          BY <1>5, <4>1
        <4>. QED
          BY <3>1, <4>2, <4>3
      <3>2. CASE j # i
        BY <1>2, <1>8, <3>2
      <3>. QED
        BY <3>1, <3>2
    <2>. QED
      BY <1>9, <2>1, <2>2 DEF Grows
  <1>11. \A j \in DOMAIN alarms' : alarms'[j].status = audit'[j][Len(audit'[j])]
    BY <1>2, <1>4, <1>5, <1>7, <1>8, <1>9 DEF TablesInv
  <1>12. TablesInv'
    BY <1>7, <1>8, <1>11 DEF TablesInv
  <1>13. alarms'[i].status # "active"
    BY <1>1, <1>2, <1>4, <1>7
  <1>14. AuditedNow(i, target)
    <2>1. audit'[i] = trail /\ Len(trail) \in DOMAIN trail
      BY <1>2, <1>5, <1>8
    <2>. QED
      BY <1>5, <2>1 DEF AuditedNow
  <1>. QED
    BY <1>9, <1>10, <1>12, <1>13, <1>14 DEF i, target

----------------------------------------------------------------------------
\* The parts of the type invariant that are about handlers and the escalation.
HandlerType ==
    /\ req \in [Requests -> Request]
    /\ \A r \in Requests :
          /\ req[r].pc = "read" => req[r].alarm \in DOMAIN alarms \cup {0}
          /\ req[r].pc \in {"commit", "publish"} => req[r].alarm \in DOMAIN alarms

TickType ==
    /\ tick \in [pc : {"idle", "insert", "refresh", "publish"}, alarm : Nat, status : ALARM_STATES]
    /\ tick.pc \in {"refresh", "publish"} => tick.alarm \in DOMAIN alarms

EventInv ==
    /\ events \in SUBSET [alarm : DOMAIN alarms, status : ALARM_STATES]
    /\ \A e \in events : Audited(e.alarm, e.status)

HandlersInv == HandlerType /\ HandlerInv /\ HandledStaysHandled

\* The invariant, part by part.
LEMMA InvParts ==
    Inv <=> /\ TablesInv /\ HandlersInv /\ EventInv
            /\ TickType /\ TickInv /\ OneActive
            /\ reports \in SUBSET Requests
  BY DEF Inv, TypeOK, AuditTruth, TablesInv, HandlersInv, HandlerType, TickType, EventInv, Audited

\* The same after a step.
LEMMA InvPartsNext ==
    ASSUME TablesInv', HandlersInv', EventInv', TickType', TickInv', OneActive',
           reports' \in SUBSET Requests
    PROVE  Inv'
  BY DEF Inv, TypeOK, AuditTruth, TablesInv, HandlersInv, HandlerType, TickType, EventInv, Audited

\* Handlers that do not move keep what is said of them.
LEMMA HandlersKept ==
    ASSUME HandlersInv, Grows, req' = req
    PROVE  HandlersInv'
PROOF
  <1>1. DOMAIN alarms \subseteq DOMAIN alarms'
    BY DEF Grows
  <1>2. HandlerType'
    BY <1>1 DEF HandlersInv, HandlerType
  <1>3. ASSUME NEW r \in Requests, req[r].pc = "publish"
        PROVE  /\ AuditedNow(req[r].alarm, ACTION_TARGET[req[r].action])
               /\ alarms'[req[r].alarm].status # "active"
    <2>1. /\ req[r].alarm \in DOMAIN alarms
          /\ Audited(req[r].alarm, ACTION_TARGET[req[r].action])
          /\ alarms[req[r].alarm].status # "active"
      BY <1>3 DEF HandlersInv, HandlerType, HandlerInv
    <2>. QED
      BY <2>1, AuditedStays DEF Grows
  <1>4. ASSUME NEW r \in Requests, req[r].pc = "ok", req[r].alarm # Nothing
        PROVE  req[r].alarm \in DOMAIN alarms' /\ alarms'[req[r].alarm].status # "active"
    <2>1. req[r].alarm \in DOMAIN alarms /\ alarms[req[r].alarm].status # "active"
      BY <1>4 DEF HandlersInv, HandlerInv, HandledStaysHandled
    <2>. QED
      BY <2>1 DEF Grows
  <1>5. HandlerInv'
    BY <1>3, <1>4 DEF HandlerInv, Audited, AuditedNow
  <1>6. HandledStaysHandled'
    BY <1>4 DEF HandledStaysHandled
  <1>. QED
    BY <1>2, <1>5, <1>6 DEF HandlersInv

\* One handler moves on; the rest do not.
LEMMA HandlerMoves ==
    ASSUME HandlersInv, Grows, NEW r \in Requests, NEW q \in Request,
           req' = [req EXCEPT ![r] = q],
           q.pc = "read" => q.alarm \in DOMAIN alarms' \cup {0},
           q.pc \in {"commit", "publish"} => q.alarm \in DOMAIN alarms',
           q.pc = "publish" => /\ AuditedNow(q.alarm, ACTION_TARGET[q.action])
                               /\ alarms'[q.alarm].status # "active",
           q.pc = "ok" /\ q.alarm # Nothing =>
               q.alarm \in DOMAIN alarms' /\ alarms'[q.alarm].status # "active"
    PROVE  HandlersInv'
PROOF
  <1>1. /\ req' \in [Requests -> Request] /\ req'[r] = q
        /\ \A s \in Requests : s # r => req'[s] = req[s]
    BY DEF HandlersInv, HandlerType
  <1>2. ASSUME NEW s \in Requests
        PROVE  /\ req'[s].pc = "read" => req'[s].alarm \in DOMAIN alarms' \cup {0}
               /\ req'[s].pc \in {"commit", "publish"} => req'[s].alarm \in DOMAIN alarms'
    BY <1>1 DEF HandlersInv, HandlerType, Grows
  <1>3. ASSUME NEW s \in Requests, req'[s].pc = "publish"
        PROVE  /\ AuditedNow(req'[s].alarm, ACTION_TARGET[req'[s].action])
               /\ alarms'[req'[s].alarm].status # "active"
    <2>1. CASE s = r
      BY <1>1, <1>3, <2>1
    <2>2. CASE s # r
      <3>1. /\ req[s].alarm \in DOMAIN alarms
            /\ Audited(req[s].alarm, ACTION_TARGET[req[s].action])
            /\ alarms[req[s].alarm].status # "active"
        BY <1>1, <1>3, <2>2 DEF HandlersInv, HandlerType, HandlerInv
      <3>. QED
        BY <1>1, <2>2, <3>1, AuditedStays DEF Grows
    <2>. QED
      BY <2>1, <2>2
  <1>4. ASSUME NEW s \in Requests, req'[s].pc = "ok", req'[s].alarm # Nothing
        PROVE  req'[s].alarm \in DOMAIN alarms' /\ alarms'[req'[s].alarm].status # "active"
    <2>1. CASE s = r
      BY <1>1, <1>4, <2>1
    <2>2. CASE s # r
      <3>1. req[s].alarm \in DOMAIN alarms /\ alarms[req[s].alarm].status # "active"
        BY <1>1, <1>4, <2>2 DEF HandlersInv, HandlerInv, HandledStaysHandled
      <3>. QED
        BY <1>1, <2>2, <3>1 DEF Grows
    <2>. QED
      BY <2>1, <2>2
  <1>5. HandlerType'
    BY <1>1, <1>2 DEF HandlerType
  <1>6. HandlerInv'
    BY <1>3, <1>4 DEF HandlerInv, Audited, AuditedNow
  <1>7. HandledStaysHandled'
    BY <1>4 DEF HandledStaysHandled
  <1>. QED
    BY <1>5, <1>6, <1>7 DEF HandlersInv

\* An escalation that does not move keeps what is said of it, as long as no
\* fallback alarm is inserted.
LEMMA TickKept ==
    ASSUME TickType, TickInv, Grows, tick' = tick,
           \A i \in DOMAIN alarms' \ DOMAIN alarms : alarms'[i].rule # "fallback"
    PROVE  TickType' /\ TickInv'
PROOF
  <1>1. TickType'
    BY DEF TickType, Grows
  <1>2. ASSUME tick.pc = "insert" PROVE FindActive' = {}
    <2>1. FindActive = {}
      BY <1>2 DEF TickInv
    <2>2. ASSUME NEW i \in FindActive' PROVE FALSE
      <3>1. i \in DOMAIN alarms' /\ alarms'[i].rule = "fallback" /\ alarms'[i].status = "active"
        BY <2>2 DEF FindActive, Fallback
      <3>. QED
        BY <2>1, <3>1, ActiveShrinks
    <2>. QED
      BY <2>2
  <1>3. ASSUME tick.pc \in {"refresh", "publish"} PROVE AuditedNow(tick.alarm, tick.status)
    BY <1>3, AuditedStays DEF TickType, TickInv
  <1>. QED
    BY <1>1, <1>2, <1>3 DEF TickInv, Audited, AuditedNow

\* At most one active fallback alarm, as long as none is inserted.
LEMMA OneActiveKept ==
    ASSUME OneActive, Grows,
           \A i \in DOMAIN alarms' \ DOMAIN alarms : alarms'[i].rule # "fallback"
    PROVE  OneActive'
PROOF
  <1>1. ASSUME NEW i \in DOMAIN alarms', alarms'[i].rule = "fallback", alarms'[i].status = "active"
        PROVE  i \in DOMAIN alarms /\ Fallback(i) /\ alarms[i].status = "active"
    BY <1>1, ActiveShrinks DEF FindActive
  <1>. QED
    BY <1>1 DEF OneActive, Fallback

\* Delivering, or not, an event on what was audited.
LEMMA EventsPublished ==
    ASSUME EventInv, Grows, NEW i \in DOMAIN alarms', NEW status \in ALARM_STATES,
           AuditedNow(i, status), Publish(i, status)
    PROVE  EventInv'
PROOF
  <1>1. ASSUME NEW e \in events PROVE AuditedNow(e.alarm, e.status)
    BY AuditedStays DEF EventInv
  <1>2. events \in SUBSET [alarm : DOMAIN alarms', status : ALARM_STATES]
    BY DEF EventInv, Grows
  <1>. QED
    BY <1>1, <1>2 DEF Publish, EventInv, Audited, AuditedNow

\* Events that were delivered before stay true.
LEMMA EventsKept ==
    ASSUME EventInv, Grows, events' = events
    PROVE  EventInv'
PROOF
  <1>1. ASSUME NEW e \in events PROVE AuditedNow(e.alarm, e.status)
    BY AuditedStays DEF EventInv
  <1>2. events \in SUBSET [alarm : DOMAIN alarms', status : ALARM_STATES]
    BY DEF EventInv, Grows
  <1>. QED
    BY <1>1, <1>2 DEF EventInv, Audited, AuditedNow

\* Steps that leave the tables alone.
LEMMA TablesKept ==
    ASSUME TablesInv, alarms' = alarms, audit' = audit
    PROVE  TablesInv' /\ Grows /\ \A i, status : Audited(i, status) => AuditedNow(i, status)
  BY DEF TablesInv, Grows, Audited, AuditedNow

----------------------------------------------------------------------------
\* Initially there are no alarms and nobody works on one.
LEMMA InitInv == Init => Inv
PROOF
  <1>. SUFFICES ASSUME Init PROVE Inv
    OBVIOUS
  <1>1. alarms = <<>> /\ audit = <<>> /\ events = {} /\ reports = {}
    BY DEF Init
  <1>2. tick.pc = "idle" /\ TickType
    BY DEF Init, IdleTick, TickType, ALARM_STATES
  <1>3. NewRequest \in Request /\ NewRequest.pc = "new"
    BY DEF NewRequest, Request, Ended
  <1>4. HandlersInv
    BY <1>3 DEF Init, HandlersInv, HandlerType, HandlerInv, HandledStaysHandled
  <1>5. TablesInv /\ EventInv /\ OneActive
    BY <1>1 DEF TablesInv, EventInv, OneActive
  <1>6. TickInv
    BY <1>2 DEF TickInv
  <1>. QED
    BY <1>1, <1>2, <1>4, <1>5, <1>6, InvParts

\* The escalation moves on without touching the tables.
LEMMA TickMoves ==
    ASSUME Inv, UNCHANGED <<alarms, audit, reports, req>>, TickType', TickInv', EventInv'
    PROVE  Inv'
PROOF
  <1>1. TablesInv /\ HandlersInv /\ OneActive /\ reports \in SUBSET Requests
    BY InvParts
  <1>2. TablesInv' /\ Grows
    BY <1>1, TablesKept
  <1>3. HandlersInv' /\ OneActive'
    BY <1>1, <1>2, HandlersKept, OneActiveKept
  <1>. QED
    BY <1>1, <1>2, <1>3, InvPartsNext

\* The look-up: either no alarm is active, or an active one is loaded.
LEMMA InvEscalate == Inv /\ Escalate => Inv'
PROOF
  <1>. SUFFICES ASSUME Inv, Escalate PROVE Inv'
    OBVIOUS
  <1>1. TablesInv /\ EventInv /\ TickType
    BY InvParts
  <1>2. UNCHANGED <<alarms, reports, audit, events, req>>
    BY DEF Escalate
  <1>3. TablesInv' /\ Grows
    BY <1>1, <1>2, TablesKept
  <1>4. EventInv'
    BY <1>1, <1>2, <1>3, EventsKept
  <1>5. CASE FindActive = {} /\ tick' = [tick EXCEPT !.pc = "insert"]
    <2>1. tick'.pc = "insert" /\ TickType'
      BY <1>1, <1>5 DEF TickType
    <2>2. FindActive' = {}
      BY <1>2, <1>5 DEF FindActive, Fallback
    <2>3. TickInv'
      BY <2>1, <2>2 DEF TickInv
    <2>. QED
      BY <1>2, <1>4, <2>1, <2>3, TickMoves
  <1>6. CASE \E i \in FindActive :
                 tick' = [pc |-> "refresh", alarm |-> i, status |-> alarms[i].status]
    <2>1. PICK i \in FindActive :
              tick' = [pc |-> "refresh", alarm |-> i, status |-> alarms[i].status]
      BY <1>6
    <2>2. /\ i \in DOMAIN alarms /\ DOMAIN alarms = 1 .. Len(alarms) /\ Len(alarms) \in Nat
          /\ alarms[i] \in AlarmRow /\ Len(audit[i]) \in DOMAIN audit[i]
      BY <1>1, <2>1, Numbered DEF FindActive
    <2>3. i \in Nat /\ alarms[i].status \in ALARM_STATES
      BY <2>2 DEF AlarmRow
    <2>4. tick'.pc = "refresh" /\ tick'.alarm = i /\ tick'.status = alarms[i].status
      BY <2>1
    <2>5. TickType'
      BY <1>2, <2>1, <2>2, <2>3, <2>4 DEF TickType
    <2>6. Audited(i, alarms[i].status)
      BY <1>1, <2>2 DEF TablesInv, Audited
    <2>7. TickInv'
      BY <1>2, <2>4, <2>6 DEF TickInv, Audited
    <2>. QED
      BY <1>2, <1>4, <2>5, <2>7, TickMoves
  <1>. QED
    BY <1>5, <1>6 DEF Escalate

\* The insertion after a look-up that found nothing: there is still no other
\* active alarm of the rule.
LEMMA InvInsertAlarm == Inv /\ InsertAlarm => Inv'
PROOF
  <1>. SUFFICES ASSUME Inv, InsertAlarm PROVE Inv'
    OBVIOUS
  <1> DEFINE n == Len(alarms) + 1
  <1>1. /\ TablesInv /\ HandlersInv /\ EventInv /\ TickInv /\ OneActive
        /\ reports \in SUBSET Requests
    BY InvParts
  <1>2. /\ TablesInv' /\ Grows /\ DOMAIN alarms' = DOMAIN alarms \cup {n}
        /\ AuditedNow(n, "active")
    BY <1>1, RaiseTables DEF InsertAlarm
  <1>3. HandlersInv' /\ EventInv'
    BY <1>1, <1>2, HandlersKept, EventsKept DEF InsertAlarm
  <1>4. FindActive = {}
    BY <1>1 DEF InsertAlarm, TickInv
  <1>5. OneActive'
    <2>1. ASSUME NEW i \in DOMAIN alarms', alarms'[i].rule = "fallback", alarms'[i].status = "active"
          PROVE  i = n
      BY <1>2, <1>4, <2>1, ActiveShrinks
    <2>. QED
      BY <2>1 DEF OneActive, Fallback
  <1>6. tick' = [pc |-> "publish", alarm |-> n, status |-> "active"]
    BY DEF InsertAlarm
  <1>7. n \in Nat
    BY <1>1, Numbered
  <1>8. TickType'
    BY <1>2, <1>6, <1>7 DEF TickType, ALARM_STATES
  <1> HIDE DEF n
  <1>9. TickInv'
    <2>1. tick'.pc = "publish" /\ tick'.alarm = n /\ tick'.status = "active"
      BY <1>6
    <2>. QED
      BY <1>2, <2>1 DEF TickInv, Audited, AuditedNow
  <1>10. reports' = reports
    BY DEF InsertAlarm
  <1>. QED
    BY <1>1, <1>2, <1>3, <1>5, <1>8, <1>9, <1>10, InvPartsNext

\* The refresh of a deduplicated alarm.
LEMMA InvRefreshAlarm == Inv /\ RefreshAlarm => Inv'
PROOF
  <1>. SUFFICES ASSUME Inv, RefreshAlarm PROVE Inv'
    OBVIOUS
  <1>1. TablesInv /\ EventInv /\ TickType /\ TickInv
    BY InvParts
  <1>2. UNCHANGED <<alarms, reports, audit, events, req>> /\ tick.pc = "refresh"
    BY DEF RefreshAlarm
  <1>3. EventInv'
    BY <1>1, <1>2, TablesKept, EventsKept
  <1>4. tick'.pc = "publish" /\ tick'.alarm = tick.alarm /\ tick'.status = tick.status
    BY <1>1 DEF RefreshAlarm, TickType
  <1>5. TickType'
    BY <1>1, <1>2, <1>4 DEF RefreshAlarm, TickType
  <1>6. TickInv'
    BY <1>1, <1>2, <1>4 DEF TickInv, Audited
  <1>. QED
    BY <1>2, <1>3, <1>5, <1>6, TickMoves

\* The escalation ends with its event, if that is delivered.
LEMMA InvPublishAlarm == Inv /\ PublishAlarm => Inv'
PROOF
  <1>. SUFFICES ASSUME Inv, PublishAlarm PROVE Inv'
    OBVIOUS
  <1>1. TablesInv /\ EventInv /\ TickType /\ TickInv
    BY InvParts
  <1>2. UNCHANGED <<alarms, reports, audit, req>> /\ tick.pc = "publish"
    BY DEF PublishAlarm
  <1>3. /\ tick.alarm \in DOMAIN alarms /\ tick.status \in ALARM_STATES
        /\ Audited(tick.alarm, tick.status)
    BY <1>1, <1>2 DEF TickType, TickInv
  <1>4. Grows /\ AuditedNow(tick.alarm, tick.status)
    BY <1>1, <1>2, <1>3, TablesKept
  <1>5. EventInv'
    BY <1>1, <1>2, <1>3, <1>4, EventsPublished DEF PublishAlarm
  <1>6. tick' = IdleTick
    BY DEF PublishAlarm
  <1>7. TickType' /\ TickInv'
    BY <1>6 DEF TickType, TickInv, IdleTick, ALARM_STATES
  <1>. QED
    BY <1>2, <1>5, <1>7, TickMoves

\* A governance alarm is no fallback alarm.
LEMMA InvRaiseGovernance == Inv /\ RaiseGovernance => Inv'
PROOF
  <1>. SUFFICES ASSUME Inv, RaiseGovernance PROVE Inv'
    OBVIOUS
  <1> DEFINE n == Len(alarms) + 1
  <1>1. /\ TablesInv /\ HandlersInv /\ EventInv /\ TickType /\ TickInv /\ OneActive
        /\ reports \in SUBSET Requests
    BY InvParts
  <1>2. /\ TablesInv' /\ Grows /\ DOMAIN alarms' = DOMAIN alarms \cup {n}
        /\ alarms'[n].rule = "governance" /\ AuditedNow(n, "active")
    BY <1>1, RaiseTables DEF RaiseGovernance
  <1>3. req' = req /\ tick' = tick /\ reports' = reports /\ Publish(n, "active")
    BY DEF RaiseGovernance
  <1> HIDE DEF n
  <1>4. \A i \in DOMAIN alarms' \ DOMAIN alarms : alarms'[i].rule # "fallback"
    BY <1>2
  <1>5. HandlersInv' /\ TickType' /\ TickInv' /\ OneActive'
    BY <1>1, <1>2, <1>3, <1>4, HandlersKept, TickKept, OneActiveKept
  <1>6. EventInv'
    <2>1. "active" \in ALARM_STATES
      BY DEF ALARM_STATES
    <2>. QED
      BY <1>1, <1>2, <1>3, <2>1, EventsPublished
  <1>. QED
    BY <1>1, <1>2, <1>3, <1>5, <1>6, InvPartsNext

\* A handler moves on without touching the tables or publishing.
LEMMA HandlerSteps ==
    ASSUME Inv, UNCHANGED <<alarms, audit, events, tick>>, reports' \in SUBSET Requests,
           HandlersInv'
    PROVE  Inv'
PROOF
  <1>1. /\ TablesInv /\ EventInv /\ TickType /\ TickInv /\ OneActive
    BY InvParts
  <1>2. TablesInv' /\ Grows
    BY <1>1, TablesKept
  <1>3. EventInv' /\ TickType' /\ TickInv' /\ OneActive'
    BY <1>1, <1>2, EventsKept, TickKept, OneActiveKept
  <1>. QED
    BY <1>2, <1>3, InvPartsNext

\* A request to acknowledge or to resolve arrives.
LEMMA InvArrive ==
    ASSUME Inv, NEW r \in Requests, NEW i \in DOMAIN alarms \cup {0},
           NEW action \in DOMAIN ACTION_TARGET, NEW report \in Requests \cup {Nothing},
           Arrive(r, action, i, report)
    PROVE  Inv'
PROOF
  <1> DEFINE q == [pc |-> "read", action |-> action, alarm |-> i, report |-> report]
  <1>1. TablesInv /\ HandlersInv /\ reports \in SUBSET Requests
    BY InvParts
  <1>2. UNCHANGED <<alarms, reports, audit, events, tick>> /\ req' = [req EXCEPT ![r] = q]
    BY DEF Arrive
  <1>3. action \in {"ack", "resolve"}
    BY DEF ACTION_TARGET
  <1>4. i \in Nat
    BY <1>1, Numbered
  <1>5. q \in Request /\ q.pc = "read" /\ q.alarm = i
    BY <1>3, <1>4 DEF Request
  <1> HIDE DEF q
  <1>6. HandlersInv'
    BY <1>1, <1>2, <1>5, TablesKept, HandlerMoves
  <1>. QED
    BY <1>1, <1>2, <1>6, HandlerSteps

\* A maintenance report is created, and its alarm to be resolved.
LEMMA InvCreateReport ==
    ASSUME Inv, NEW r \in Requests, NEW i \in DOMAIN alarms \cup {0, Nothing}, CreateReport(r, i)
    PROVE  Inv'
PROOF
  <1> DEFINE q == [pc |-> IF i = Nothing THEN "ok" ELSE "read",
                   action |-> "resolve", alarm |-> i, report |-> r]
  <1>1. TablesInv /\ HandlersInv /\ reports \in SUBSET Requests
    BY InvParts
  <1>2. /\ UNCHANGED <<alarms, audit, events, tick>> /\ req' = [req EXCEPT ![r] = q]
        /\ reports' = reports \cup {r}
    BY DEF CreateReport
  <1>3. i \in Nat \cup {Nothing}
    BY <1>1, Numbered
  <1>4. /\ q \in Request /\ q.alarm = i
        /\ q.pc = "ok" => i = Nothing
        /\ q.pc = "read" => i # Nothing
        /\ q.pc \in {"ok", "read"}
    BY <1>3 DEF Request, Ended
  <1> HIDE DEF q
  <1>5. HandlersInv'
    BY <1>1, <1>2, <1>4, TablesKept, HandlerMoves
  <1>6. reports' \in SUBSET Requests
    BY <1>1, <1>2
  <1>. QED
    BY <1>2, <1>5, <1>6, HandlerSteps

\* The alarm is loaded and the transition checked on what was loaded.
LEMMA InvLoad ==
    ASSUME Inv, NEW r \in Requests, Load(r)
    PROVE  Inv'
PROOF
  <1>1. TablesInv /\ HandlersInv /\ reports \in SUBSET Requests
    BY InvParts
  <1>2. UNCHANGED <<alarms, reports, audit, events, tick>> /\ req[r].pc = "read"
    BY DEF Load
  <1>3. /\ req[r] \in Request /\ req[r].alarm \in DOMAIN alarms \cup {0}
    BY <1>1, <1>2 DEF HandlersInv, HandlerType
  <1>4. PICK pc \in {"404", "409", "commit"} :
           /\ req' = [req EXCEPT ![r].pc = pc]
           /\ pc = "commit" => req[r].alarm # 0
    BY DEF Load
  <1> DEFINE q == [req[r] EXCEPT !.pc = pc]
  <1>5. req' = [req EXCEPT ![r] = q]
    BY <1>4
  <1>6. q \in Request /\ q.pc = pc /\ q.alarm = req[r].alarm
    BY <1>3 DEF Request, Ended
  <1> HIDE DEF q
  <1>7. HandlersInv'
    BY <1>1, <1>2, <1>3, <1>4, <1>5, <1>6, TablesKept, HandlerMoves
  <1>. QED
    BY <1>1, <1>2, <1>7, HandlerSteps

\* A decision overwrites the row's status, whatever it is by now.
LEMMA InvStore ==
    ASSUME Inv, NEW r \in Requests, Store(r)
    PROVE  Inv'
PROOF
  <1>1. /\ TablesInv /\ HandlersInv /\ EventInv /\ TickType /\ TickInv /\ OneActive
        /\ reports \in SUBSET Requests
    BY InvParts
  <1>2. UNCHANGED <<reports, events, tick>> /\ req[r].pc = "commit"
        /\ req' = [req EXCEPT ![r].pc = "publish"]
    BY DEF Store
  <1>3. req[r] \in Request /\ req[r].alarm \in DOMAIN alarms
    BY <1>1, <1>2 DEF HandlersInv, HandlerType
  <1>4. /\ TablesInv' /\ Grows /\ DOMAIN alarms' = DOMAIN alarms
        /\ alarms'[req[r].alarm].status # "active"
        /\ AuditedNow(req[r].alarm, ACTION_TARGET[req[r].action])
    BY <1>1, <1>3, StoreTables
  <1> DEFINE q == [req[r] EXCEPT !.pc = "publish"]
  <1>5. req' = [req EXCEPT ![r] = q]
    BY <1>2
  <1>6. q \in Request /\ q.pc = "publish" /\ q.alarm = req[r].alarm /\ q.action = req[r].action
    BY <1>3 DEF Request
  <1> HIDE DEF q
  <1>7. HandlersInv'
    BY <1>1, <1>3, <1>4, <1>5, <1>6, HandlerMoves
  <1>8. EventInv' /\ TickType' /\ TickInv' /\ OneActive'
    BY <1>1, <1>2, <1>4, EventsKept, TickKept, OneActiveKept
  <1>. QED
    BY <1>1, <1>2, <1>4, <1>7, <1>8, InvPartsNext

\* The event is published, or lost, and the request answered.
LEMMA InvAnswer ==
    ASSUME Inv, NEW r \in Requests, Answer(r)
    PROVE  Inv'
PROOF
  <1>1. /\ TablesInv /\ HandlersInv /\ EventInv /\ TickType /\ TickInv /\ OneActive
        /\ reports \in SUBSET Requests
    BY InvParts
  <1>2. /\ UNCHANGED <<alarms, reports, audit, tick>> /\ req[r].pc = "publish"
        /\ req' = [req EXCEPT ![r].pc = "ok"]
        /\ Publish(req[r].alarm, ACTION_TARGET[req[r].action])
    BY DEF Answer
  <1>3. /\ req[r] \in Request /\ req[r].alarm \in DOMAIN alarms
        /\ Audited(req[r].alarm, ACTION_TARGET[req[r].action])
        /\ alarms[req[r].alarm].status # "active"
    BY <1>1, <1>2 DEF HandlersInv, HandlerType, HandlerInv
  <1>4. TablesInv' /\ Grows /\ AuditedNow(req[r].alarm, ACTION_TARGET[req[r].action])
    BY <1>1, <1>2, <1>3, TablesKept
  <1>5. ACTION_TARGET[req[r].action] \in ALARM_STATES
    <2>1. req[r].action \in {"ack", "resolve"}
      BY <1>3 DEF Request
    <2>. QED
      BY <2>1 DEF ACTION_TARGET, ALARM_STATES
  <1>6. EventInv'
    BY <1>1, <1>2, <1>3, <1>4, <1>5, EventsPublished
  <1> DEFINE q == [req[r] EXCEPT !.pc = "ok"]
  <1>7. req' = [req EXCEPT ![r] = q]
    BY <1>2
  <1>8. q \in Request /\ q.pc = "ok" /\ q.alarm = req[r].alarm
    BY <1>3 DEF Request, Ended
  <1> HIDE DEF q
  <1>9. HandlersInv'
    BY <1>1, <1>2, <1>3, <1>4, <1>7, <1>8, HandlerMoves
  <1>10. TickType' /\ TickInv' /\ OneActive'
    BY <1>1, <1>2, <1>4, TickKept, OneActiveKept
  <1>. QED
    BY <1>1, <1>2, <1>4, <1>6, <1>9, <1>10, InvPartsNext

\* A crash of the api process ends the handlers in progress.
LEMMA InvCrashApi == Inv /\ CrashApi => Inv'
PROOF
  <1>. SUFFICES ASSUME Inv, CrashApi PROVE Inv'
    OBVIOUS
  <1>1. TablesInv /\ HandlersInv /\ reports \in SUBSET Requests
    BY InvParts
  <1>2. UNCHANGED <<alarms, reports, audit, events, tick>>
    BY DEF CrashApi
  <1>3. ASSUME NEW r \in Requests
        PROVE  /\ req'[r] \in Request
               /\ req'[r].pc \in {"new", "ok", "404", "409", "crashed"}
               /\ req'[r].pc = "ok" => req'[r] = req[r]
    <2>1. req[r] \in Request
      BY <1>1 DEF HandlersInv, HandlerType
    <2>2. CASE req[r].pc \in {"new"} \cup Ended
      <3>1. req'[r] = req[r]
        BY <2>2 DEF CrashApi
      <3>. QED
        BY <2>1, <2>2, <3>1 DEF Ended
    <2>3. CASE req[r].pc \notin {"new"} \cup Ended
      <3>1. req'[r] = [req[r] EXCEPT !.pc = "crashed"]
        BY <2>3 DEF CrashApi
      <3>2. req'[r].pc = "crashed" /\ req'[r] \in Request
        BY <2>1, <3>1 DEF Request, Ended
      <3>. QED
        BY <3>2
    <2>. QED
      BY <2>2, <2>3
  <1>4. req' \in [Requests -> Request]
    BY <1>3 DEF CrashApi
  <1>5. HandlersInv'
    BY <1>1, <1>2, <1>3, <1>4 DEF HandlersInv, HandlerType, HandlerInv, HandledStaysHandled
  <1>. QED
    BY <1>1, <1>2, <1>5, HandlerSteps

\* A crash of the worker ends the escalation in progress.
LEMMA InvCrashWorker == Inv /\ CrashWorker => Inv'
PROOF
  <1>. SUFFICES ASSUME Inv, CrashWorker PROVE Inv'
    OBVIOUS
  <1>1. TablesInv /\ EventInv
    BY InvParts
  <1>2. UNCHANGED <<alarms, reports, audit, events, req>> /\ tick' = IdleTick
    BY DEF CrashWorker
  <1>3. EventInv'
    BY <1>1, <1>2, TablesKept, EventsKept
  <1>4. TickType' /\ TickInv'
    BY <1>2 DEF TickType, TickInv, IdleTick, ALARM_STATES
  <1>. QED
    BY <1>2, <1>3, <1>4, TickMoves

----------------------------------------------------------------------------
\* The invariant is inductive.
LEMMA InvInductive == Inv /\ [Next]_vars => Inv'
PROOF
  <1>. SUFFICES ASSUME Inv, [Next]_vars PROVE Inv'
    OBVIOUS
  <1>1. CASE TickStep
    BY <1>1, InvEscalate, InvInsertAlarm, InvRefreshAlarm, InvPublishAlarm DEF TickStep
  <1>2. CASE RaiseGovernance
    BY <1>2, InvRaiseGovernance
  <1>3. ASSUME NEW r \in Requests, Submit(r) PROVE Inv'
    BY <1>3, InvArrive, InvCreateReport DEF Submit
  <1>4. ASSUME NEW r \in Requests, RequestStep(r) PROVE Inv'
    BY <1>4, InvLoad, InvStore, InvAnswer DEF RequestStep
  <1>5. CASE CrashApi \/ CrashWorker
    BY <1>5, InvCrashApi, InvCrashWorker
  <1>6. CASE UNCHANGED vars
    <2>1. UNCHANGED <<alarms, audit, reports, req, tick, events>>
      BY <1>6 DEF vars
    <2>2. TablesInv /\ EventInv /\ TickType /\ TickInv
      BY InvParts
    <2>3. EventInv' /\ TickType' /\ TickInv'
      BY <2>1, <2>2, TablesKept, EventsKept, TickKept
    <2>. QED
      BY <2>1, <2>3, TickMoves
  <1>. QED
    BY <1>1, <1>2, <1>3, <1>4, <1>5, <1>6 DEF Next

\* The conjunction of the invariants holds throughout.
LEMMA InvHolds == Spec => []Inv
  BY InitInv, InvInductive, PTL DEF Spec

\* Tables, handlers and the escalation are well typed, and whoever works on an
\* alarm works on a row that exists.
THEOREM TypeCorrect == Spec => []TypeOK
  BY InvHolds, PTL DEF Inv

\* Status and audit trail of an alarm agree, and every event delivered tells of
\* a committed status, however decisions, refreshes and crashes interleave.
THEOREM AuditIsTruth == Spec => []AuditTruth
  BY InvHolds, PTL DEF Inv

\* raise_from_fallback never leaves two active alarms of its rule.
THEOREM OneActiveAlarm == Spec => []OneActive
  BY InvHolds, PTL DEF Inv

\* An alarm somebody was told to have handled is not active again.
THEOREM HandledForGood == Spec => []HandledStaysHandled
  BY InvHolds, PTL DEF Inv

============================================================================
