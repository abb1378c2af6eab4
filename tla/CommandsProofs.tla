--------------------------- MODULE CommandsProofs ---------------------------
(***************************************************************************)
(* Commands for any number of requests, keys and overlapping ticks.        *)
(*                                                                         *)
(* The argument for idempotency: a handler about to commit holds its key   *)
(* alone, among the committed rows and among the other handlers about to   *)
(* commit (KeyInv), because the INSERT waits for, or fails on, any other   *)
(* holder; the keys of committed rows never change.  For the audit trail:  *)
(* a status is only ever written together with its audit row, by the       *)
(* submission of a command that had none or by a tick (HandlerInv), and a  *)
(* tick publishes what it has audited (TickInv).                           *)
(***************************************************************************)
EXTENDS Commands, TLAPS

HandlerInv ==
    \A r \in Requests :
        /\ req[r].pc # "done" => req[r].answer = Nothing
        /\ Exists(r) => req[r].pc \in {"publish", "done"} /\ SameKey(rows[r], req[r].row)
        /\ req[r].pc = "publish" => Exists(r)
        /\ req[r].pc \notin {"new", "done"} => req[r].row.status = "submitted"

KeyInv ==
    /\ \A r, c \in Requests :
          req[r].pc = "commit" /\ Exists(c) => ~SameKey(rows[c], req[r].row)
    /\ \A r, s \in Requests :
          req[r].pc = "commit" /\ req[s].pc = "commit" /\ SameKey(req[r].row, req[s].row) => r = s

Audited(c, status) == \E i \in DOMAIN audit[c] : audit[c][i] = status

TickInv ==
    \A k \in Ticks :
        /\ InHand(k) # {} => tick[k].pc # "idle"
        /\ tick[k].publish # Nothing => Audited(tick[k].publish, TickTarget(tick[k].pc))

Inv == /\ TypeOK /\ HandlerInv /\ KeyInv /\ Idempotent
       /\ AuditTruth /\ TickInv /\ EventsAreCommitted

----------------------------------------------------------------------------
\* Idle records have their types.
LEMMA IdleTypes == NoRow \in Row /\ NewRequest \in Handler /\ IdleTick \in Tick
<1>1. NoRow \in Row
  BY DEF NoRow, Row
<1>2. NewRequest \in Handler
  BY <1>1 DEF NewRequest, Handler, RequestPcs
<1>3. IdleTick \in Tick
  BY DEF IdleTick, Tick
<1>. QED
  BY <1>1, <1>2, <1>3

\* Initially there are no commands and nobody works on one.
LEMMA InitInv == Init => Inv
<1>. SUFFICES ASSUME Init PROVE Inv
  OBVIOUS
<1>1. \A c \in Requests : ~Exists(c)
  BY DEF Init, Exists, NoRow
<1>2. \A k \in Ticks : InHand(k) = {} /\ tick[k].publish = Nothing
  BY DEF Init, InHand, IdleTick
<1>3. TypeOK
  BY <1>2, IdleTypes, CommandsAssumption DEF Init, TypeOK
<1>4. \A r \in Requests : req[r].pc = "new" /\ req[r].answer = Nothing
  BY DEF Init, NewRequest
<1>5. HandlerInv /\ KeyInv
  BY <1>1, <1>4 DEF HandlerInv, KeyInv
<1>6. Idempotent
  BY <1>1, <1>4, CommandsAssumption DEF Idempotent
<1>7. AuditTruth /\ EventsAreCommitted
  BY <1>1 DEF Init, AuditTruth, EventsAreCommitted, NoEvent
<1>8. TickInv
  BY <1>2 DEF TickInv
<1>. QED
  BY <1>3, <1>5, <1>6, <1>7, <1>8 DEF Inv

\* Ticks and tables that do not change keep what is said of them.
LEMMA TablesKept ==
    ASSUME Inv, rows' = rows, audit' = audit
    PROVE  /\ AuditTruth'
           /\ \A c \in Requests : Exists(c)' = Exists(c)
           /\ \A c, s : Audited(c, s)' = Audited(c, s)
           /\ tick' = tick => TickInv' /\ \A k \in Ticks : \A c \in InHand(k)' : Exists(c)'
           /\ event' = NoEvent => EventsAreCommitted'
<1>1. \A c \in Requests : Exists(c)' = Exists(c)
  BY DEF Exists
<1>2. \A c, s : Audited(c, s)' = Audited(c, s)
  BY DEF Audited
<1>3. AuditTruth'
  BY <1>1 DEF Inv, AuditTruth
<1>4. ASSUME tick' = tick PROVE TickInv' /\ \A k \in Ticks : \A c \in InHand(k)' : Exists(c)'
  <2>1. \A k \in Ticks : InHand(k)' = InHand(k)
    BY <1>4 DEF InHand
  <2>2. TickInv'
    BY <1>2, <1>4, <2>1 DEF Inv, TickInv
  <2>3. \A k \in Ticks : InHand(k) \subseteq Requests
    BY DEF Inv, TypeOK, InHand, Tick
  <2>. QED
    BY <1>1, <2>1, <2>2, <2>3 DEF Inv, TypeOK
<1>5. event' = NoEvent => EventsAreCommitted'
  BY DEF EventsAreCommitted, NoEvent
<1>. QED
  BY <1>1, <1>2, <1>3, <1>4, <1>5

\* A handler that has not committed moves on without committing, possibly
\* answering with a command that exists under its key.
LEMMA HandlerStep ==
    ASSUME Inv, NEW r \in Requests, NEW q \in Handler,
           req[r].pc \notin {"publish", "done"},
           req' = [req EXCEPT ![r] = q],
           q.pc \notin {"commit", "publish"},
           q.pc # "done" => q.answer = Nothing,
           q.pc \notin {"new", "done"} => q.row.status = "submitted",
           q.answer \in Requests => Exists(q.answer) /\ SameKey(rows[q.answer], q.row),
           UNCHANGED <<rows, audit, elapsed, tick, crashes>>,
           event' = NoEvent, nextId' \in Nat \ {0}
    PROVE  Inv'
<1>. USE DEF Inv
<1>1. rows' = rows /\ audit' = audit /\ tick' = tick /\ elapsed' = elapsed /\ crashes' = crashes
  OBVIOUS
<1>2. /\ AuditTruth' /\ TickInv' /\ EventsAreCommitted'
      /\ \A c \in Requests : Exists(c)' = Exists(c)
      /\ \A k \in Ticks : \A c \in InHand(k)' : Exists(c)'
  BY <1>1, TablesKept
<1>3. req'[r] = q /\ \A s \in Requests : s # r => req'[s] = req[s]
  BY DEF TypeOK
<1>4. ~Exists(r)
  BY DEF HandlerInv
<1>5. TypeOK'
  BY <1>1, <1>2 DEF TypeOK
<1>6. HandlerInv'
  BY <1>1, <1>2, <1>3, <1>4 DEF HandlerInv
<1>7. KeyInv'
  BY <1>1, <1>2, <1>3 DEF KeyInv
<1>8. Idempotent'
  BY <1>1, <1>2, <1>3 DEF Idempotent
<1>. QED
  BY <1>2, <1>5, <1>6, <1>7, <1>8

\* A request starts.
LEMMA InvArrive ==
    ASSUME Inv, NEW r \in Requests, NEW type \in Types, NEW device \in Devices,
           NEW key \in Keys, NEW u \in BOOLEAN, Arrive(r, type, device, key, u)
    PROVE  Inv'
<1>. DEFINE row == [NoRow EXCEPT !.status = "submitted", !.type = type, !.device = device,
                                 !.key = key, !.unconfirmed = u]
            q == [pc |-> "key", row |-> row, answer |-> Nothing]
<1>1. row \in Row /\ row.status = "submitted"
  BY DEF NoRow, Row, COMMAND_STATES
<1>2. req' = [req EXCEPT ![r] = q] /\ req[r].pc = "new"
  BY DEF Arrive
<1>. HIDE DEF row
<1>3. q \in Handler /\ q.pc = "key" /\ q.answer = Nothing /\ q.row.status = "submitted"
  BY <1>1 DEF Handler, RequestPcs
<1>4. /\ UNCHANGED <<rows, audit, elapsed, tick, crashes>>
      /\ event' = NoEvent /\ nextId' \in Nat \ {0}
  BY DEF Arrive, UnchangedBySelect, Inv, TypeOK
<1>. HIDE DEF q
<1>. QED
  BY <1>2, <1>3, <1>4, CommandsAssumption, HandlerStep

\* Going on to the next statement.
LEMMA GotoStep ==
    ASSUME Inv, NEW r \in Requests, req[r].pc \notin {"new", "publish", "done"},
           NEW pc \in {"pending", "cycle", "insert", "replay"}, Goto(r, pc),
           UNCHANGED <<rows, audit, elapsed, tick, crashes>>,
           event' = NoEvent, nextId' \in Nat \ {0}
    PROVE  Inv'
<1>. DEFINE q == [req[r] EXCEPT !.pc = pc]
<1>1. req' = [req EXCEPT ![r] = q]
  BY DEF Goto
<1>2. /\ q \in Handler /\ q.pc = pc /\ q.row = req[r].row /\ q.answer = req[r].answer
  BY DEF Inv, TypeOK, Handler, RequestPcs
<1>3. q.row.status = "submitted" /\ q.answer = Nothing
  BY <1>2 DEF Inv, HandlerInv
<1>. HIDE DEF q
<1>. QED
  BY <1>1, <1>2, <1>3, CommandsAssumption, HandlerStep

\* Answering without having committed.
LEMMA AnswerStep ==
    ASSUME Inv, NEW r \in Requests, req[r].pc \notin {"new", "publish", "done"},
           NEW what \in Requests \cup {"conflict", "error"}, Answer(r, what),
           what \in Requests => Exists(what) /\ SameKey(rows[what], req[r].row),
           UNCHANGED <<rows, audit, elapsed, tick, crashes>>,
           event' = NoEvent, nextId' \in Nat \ {0}
    PROVE  Inv'
<1>. DEFINE q == [req[r] EXCEPT !.pc = "done", !.answer = what]
<1>1. req' = [req EXCEPT ![r] = q]
  BY DEF Answer
<1>2. q \in Handler /\ q.pc = "done" /\ q.row = req[r].row /\ q.answer = what
  BY DEF Inv, TypeOK, Handler, RequestPcs
<1>. HIDE DEF q
<1>. QED
  BY <1>1, <1>2, HandlerStep

\* The SELECTs of submit, its replays, its conflicts and its failures.
LEMMA InvSelects ==
    ASSUME Inv, NEW r \in Requests,
           CheckKey(r) \/ CheckPending(r) \/ CheckCycle(r) \/ Replay(r) \/ Abort(r)
    PROVE  Inv'
<1>1. /\ UNCHANGED <<rows, audit, elapsed, tick, crashes>>
      /\ event' = NoEvent /\ nextId' \in Nat \ {0}
      /\ req[r].pc \notin {"new", "publish", "done"}
  BY DEF CheckKey, CheckPending, CheckCycle, Replay, Abort, UnchangedBySelect, Inv, TypeOK
<1>2. CASE CheckKey(r)
  <2>1. \/ Goto(r, "pending")
        \/ \E c \in Requests : Exists(c) /\ SameKey(rows[c], req[r].row) /\ Answer(r, c)
    BY <1>2 DEF CheckKey
  <2>. QED
    BY <1>1, <2>1, GotoStep, AnswerStep
<1>3. CASE CheckPending(r)
  <2>1. \/ Goto(r, "cycle") \/ Goto(r, "insert") \/ Answer(r, "conflict")
        \/ \E c \in Requests : Exists(c) /\ SameKey(rows[c], req[r].row) /\ Answer(r, c)
    BY <1>3 DEF CheckPending, Newest, Listed, Exists
  <2>. QED
    BY <1>1, <2>1, GotoStep, AnswerStep, CommandsAssumption
<1>4. CASE CheckCycle(r)
  <2>1. Goto(r, "insert") \/ Answer(r, "conflict")
    BY <1>4 DEF CheckCycle
  <2>. QED
    BY <1>1, <2>1, GotoStep, AnswerStep, CommandsAssumption
<1>5. CASE Replay(r)
  <2>1. \E c \in Requests : Exists(c) /\ SameKey(rows[c], req[r].row) /\ Answer(r, c)
    BY <1>5 DEF Replay
  <2>. QED
    BY <1>1, <2>1, AnswerStep
<1>6. CASE Abort(r)
  BY <1>1, <1>6, AnswerStep, CommandsAssumption DEF Abort
<1>. QED
  BY <1>2, <1>3, <1>4, <1>5, <1>6

\* The INSERT either loses to a committed row or makes its handler the only
\* holder of the key.
LEMMA InvInsert ==
    ASSUME Inv, NEW r \in Requests, Insert(r)
    PROVE  Inv'
<1>. USE DEF Inv
<1>1. /\ req[r].pc = "insert" /\ KeyHolders(r) = {} /\ event' = NoEvent
      /\ rows' = rows /\ audit' = audit /\ elapsed' = elapsed /\ tick' = tick /\ crashes' = crashes
      /\ nextId' = nextId + 1
  BY DEF Insert
<1>2. nextId' \in Nat \ {0} /\ nextId \in Nat
  BY <1>1 DEF TypeOK
<1>3. CASE \E c \in Requests : Exists(c) /\ SameKey(rows[c], req[r].row)
  <2>1. Goto(r, "replay")
    BY <1>3 DEF Insert, Goto
  <2>. QED
    BY <1>1, <1>2, <2>1, GotoStep
<1>4. CASE \A c \in Requests : ~(Exists(c) /\ SameKey(rows[c], req[r].row))
  <2>. DEFINE row == [req[r].row EXCEPT !.id = nextId]
              q == [req[r] EXCEPT !.pc = "commit", !.row = row]
  <2>1. req' = [req EXCEPT ![r] = q]
    BY <1>4 DEF Insert
  <2>2. req[r] \in Handler /\ req[r].row \in Row
    BY DEF TypeOK, Handler
  <2>3. /\ row \in Row /\ row.status = req[r].row.status /\ row.type = req[r].row.type
        /\ row.device = req[r].row.device /\ row.key = req[r].row.key
    BY <2>2, <1>2 DEF Row
  <2>. HIDE DEF row
  <2>4. q \in Handler /\ q.pc = "commit" /\ q.row = row /\ q.answer = req[r].answer
    BY <2>2, <2>3 DEF Handler, RequestPcs
  <2>. HIDE DEF q
  <2>5. req'[r] = q /\ \A s \in Requests : s # r => req'[s] = req[s]
    BY <2>1 DEF TypeOK
  <2>6. \A x : SameKey(x, q.row) <=> SameKey(x, req[r].row)
    BY <2>3, <2>4 DEF SameKey, SameSlot
  <2>7. \A s \in Requests : req[s].pc = "commit" =>
            ~SameKey(req[s].row, q.row) /\ ~SameKey(q.row, req[s].row)
    BY <1>1, <2>3, <2>4 DEF KeyHolders, SameKey, SameSlot
  <2>8. /\ AuditTruth' /\ TickInv' /\ EventsAreCommitted'
        /\ \A c \in Requests : Exists(c)' = Exists(c)
        /\ \A k \in Ticks : \A c \in InHand(k)' : Exists(c)'
    BY <1>1, TablesKept
  <2>9. TypeOK'
    BY <1>1, <1>2, <2>1, <2>4, <2>8 DEF TypeOK
  <2>10. req[r].row.status = "submitted" /\ ~Exists(r) /\ req[r].answer = Nothing
    BY <1>1 DEF HandlerInv
  <2>11. HandlerInv'
    BY <1>1, <2>3, <2>4, <2>5, <2>8, <2>10 DEF HandlerInv
  <2>12. KeyInv'
    BY <1>1, <1>4, <2>4, <2>5, <2>6, <2>7, <2>8 DEF KeyInv
  <2>13. Idempotent'
    BY <1>1, <2>4, <2>5, <2>6, <2>8, <2>10, CommandsAssumption DEF Idempotent
  <2>. QED
    BY <2>8, <2>9, <2>11, <2>12, <2>13
<1>. QED
  BY <1>3, <1>4

\* The commit of a submission adds a row under a key nobody else holds, and
\* the first entry of its audit trail.
LEMMA InvCommitSubmit ==
    ASSUME Inv, NEW r \in Requests, CommitSubmit(r)
    PROVE  Inv'
<1>. USE DEF Inv
<1>1. /\ req[r].pc = "commit" /\ event' = NoEvent /\ rows' = [rows EXCEPT ![r] = req[r].row]
      /\ audit' = [audit EXCEPT ![r] = Append(@, "submitted")]
      /\ elapsed' = elapsed /\ tick' = tick /\ crashes' = crashes /\ nextId' = nextId
  BY DEF CommitSubmit
<1>. DEFINE q == [req[r] EXCEPT !.pc = "publish"]
<1>2. req' = [req EXCEPT ![r] = q]
  BY DEF CommitSubmit, Goto
<1>3. q \in Handler /\ q.pc = "publish" /\ q.row = req[r].row /\ q.answer = req[r].answer
  BY DEF TypeOK, Handler, RequestPcs
<1>. HIDE DEF q
<1>4. req'[r] = q /\ \A s \in Requests : s # r => req'[s] = req[s]
  BY <1>2 DEF TypeOK
<1>5. ~Exists(r) /\ req[r].row.status = "submitted" /\ req[r].answer = Nothing
  BY <1>1 DEF HandlerInv
<1>6. rows'[r] = req[r].row /\ \A c \in Requests : c # r => rows'[c] = rows[c]
  BY <1>1 DEF TypeOK
<1>7. Exists(r)' /\ \A c \in Requests : c # r => Exists(c)' = Exists(c)
  BY <1>5, <1>6 DEF Exists
<1>8. audit[r] = <<>>
  BY <1>5 DEF AuditTruth
<1>9. audit'[r] = <<"submitted">> /\ \A c \in Requests : c # r => audit'[c] = audit[c]
  BY <1>1, <1>8 DEF TypeOK
<1>10. \A k \in Ticks : InHand(k)' = InHand(k) /\ InHand(k) \subseteq Requests
  BY <1>1 DEF InHand, TypeOK, Tick
<1>11. TypeOK'
  <2>1. rows' \in [Requests -> Row]
    BY <1>1 DEF TypeOK, Handler
  <2>2. audit' \in [Requests -> Seq(COMMAND_STATES)]
    <3>1. "submitted" \in COMMAND_STATES
      BY DEF COMMAND_STATES
    <3>2. Append(audit[r], "submitted") \in Seq(COMMAND_STATES)
      BY <3>1 DEF TypeOK
    <3>. QED
      BY <1>1, <3>2 DEF TypeOK
  <2>3. \A k \in Ticks : \A c \in InHand(k)' : Exists(c)'
    BY <1>7, <1>10 DEF TypeOK
  <2>. QED
    BY <1>1, <1>2, <1>3, <2>1, <2>2, <2>3 DEF TypeOK
<1>12. HandlerInv'
  BY <1>3, <1>4, <1>5, <1>6, <1>7 DEF HandlerInv, SameKey, SameSlot
<1>13. KeyInv'
  <2>1. \A s \in Requests : s # r /\ req[s].pc = "commit" => ~SameKey(req[r].row, req[s].row)
    BY <1>1 DEF KeyInv
  <2>. QED
    BY <1>3, <1>4, <1>6, <1>7, <2>1 DEF KeyInv
<1>14. Idempotent'
  <2>1. \A c \in Requests : Exists(c) => ~SameKey(rows[c], req[r].row) /\ ~SameKey(req[r].row, rows[c])
    BY <1>1 DEF KeyInv, SameKey, SameSlot
  <2>2. \A c, d \in Requests : Exists(c)' /\ Exists(d)' /\ SameKey(rows'[c], rows'[d]) => c = d
    BY <1>6, <1>7, <2>1 DEF Idempotent
  <2>3. ASSUME NEW s \in Requests, req'[s].answer \in Requests
        PROVE  (Exists(req[s].answer) /\ SameKey(rows[req[s].answer], req[s].row))'
    <3>1. s # r /\ req'[s] = req[s]
      BY <2>3, <1>3, <1>4, <1>5, CommandsAssumption
    <3>2. Exists(req[s].answer) /\ SameKey(rows[req[s].answer], req[s].row)
      BY <2>3, <3>1 DEF Idempotent
    <3>3. req[s].answer # r
      BY <3>2, <1>5
    <3>. QED
      BY <2>3, <3>1, <3>2, <3>3, <1>6 DEF Exists
  <2>. QED
    BY <2>2, <2>3 DEF Idempotent
<1>15. AuditTruth'
  BY <1>5, <1>6, <1>7, <1>9 DEF AuditTruth
<1>16. TickInv'
  <2>1. \A k \in Ticks : tick[k].publish # Nothing => tick[k].publish \in Requests /\ tick[k].publish # r
    BY <1>5 DEF TypeOK, InHand, Tick
  <2>2. \A c \in Requests : c # r => \A x : Audited(c, x)' = Audited(c, x)
    BY <1>9 DEF Audited
  <2>. QED
    BY <1>1, <1>10, <2>1, <2>2 DEF TickInv
<1>17. EventsAreCommitted'
  BY <1>1 DEF EventsAreCommitted, NoEvent
<1>. QED
  BY <1>11, <1>12, <1>13, <1>14, <1>15, <1>16, <1>17

\* The answer 202 names the command the handler committed.
LEMMA InvPublishSubmit ==
    ASSUME Inv, NEW r \in Requests, PublishSubmit(r)
    PROVE  Inv'
<1>. USE DEF Inv
<1>1. /\ req[r].pc = "publish" /\ event' \in {NoEvent, StatusEvent(r, "submitted")}
      /\ rows' = rows /\ audit' = audit /\ elapsed' = elapsed /\ tick' = tick
      /\ crashes' = crashes /\ nextId' = nextId
  BY DEF PublishSubmit
<1>. DEFINE q == [req[r] EXCEPT !.pc = "done", !.answer = r]
<1>2. req' = [req EXCEPT ![r] = q]
  BY DEF PublishSubmit, Answer
<1>3. q \in Handler /\ q.pc = "done" /\ q.row = req[r].row /\ q.answer = r
  BY DEF TypeOK, Handler, RequestPcs
<1>. HIDE DEF q
<1>4. req'[r] = q /\ \A s \in Requests : s # r => req'[s] = req[s]
  BY <1>2 DEF TypeOK
<1>5. Exists(r) /\ SameKey(rows[r], req[r].row)
  BY <1>1 DEF HandlerInv
<1>6. /\ AuditTruth' /\ TickInv'
      /\ \A c \in Requests : Exists(c)' = Exists(c)
      /\ \A k \in Ticks : \A c \in InHand(k)' : Exists(c)'
  BY <1>1, TablesKept
<1>7. TypeOK'
  BY <1>1, <1>2, <1>3, <1>6 DEF TypeOK
<1>8. HandlerInv' /\ KeyInv' /\ Idempotent'
  BY <1>1, <1>3, <1>4, <1>5, <1>6 DEF HandlerInv, KeyInv, Idempotent
<1>9. EventsAreCommitted'
  <2>1. audit[r] # <<>> /\ audit[r][1] = "submitted" /\ audit[r] \in Seq(COMMAND_STATES)
    BY <1>5 DEF AuditTruth, TypeOK
  <2>2. 1 \in DOMAIN audit[r]
    BY <2>1
  <2>. QED
    BY <1>1, <2>1, <2>2 DEF EventsAreCommitted, NoEvent, StatusEvent
<1>. QED
  BY <1>6, <1>7, <1>8, <1>9

\* A step of the worker that writes no table.
LEMMA WorkerStep ==
    ASSUME Inv, rows' = rows, audit' = audit, req' = req, nextId' = nextId,
           elapsed' \subseteq Requests, crashes' \in 0 .. MaxWorkerCrashes,
           tick' \in [Ticks -> Tick],
           \A k \in Ticks : \A c \in InHand(k)' : Exists(c),
           TickInv', EventsAreCommitted'
    PROVE  Inv'
<1>. USE DEF Inv
<1>1. AuditTruth' /\ \A c \in Requests : Exists(c)' = Exists(c)
  BY TablesKept
<1>2. \A k \in Ticks : InHand(k)' \subseteq Requests
  BY DEF InHand, Tick
<1>3. TypeOK'
  BY <1>1, <1>2 DEF TypeOK
<1>4. HandlerInv' /\ KeyInv' /\ Idempotent'
  BY <1>1 DEF HandlerInv, KeyInv, Idempotent
<1>. QED
  BY <1>1, <1>3, <1>4

\* A tick lists commands, or ends.
LEMMA SetTickStep ==
    ASSUME Inv, NEW k \in Ticks, NEW pc \in {"idle", "complete", "accept", "expire"},
           NEW todo \in SUBSET Requests, \A c \in todo : Exists(c),
           pc = "idle" => todo = {},
           SetTick(k, pc, todo)
    PROVE  Inv'
<1>. DEFINE q == [IdleTick EXCEPT !.pc = pc, !.todo = todo]
<1>1. q \in Tick /\ q.pc = pc /\ q.todo = todo /\ q.publish = Nothing
  BY DEF IdleTick, Tick
<1>2. tick' = [tick EXCEPT ![k] = q]
  BY DEF SetTick
<1>. HIDE DEF q
<1>3. tick'[k] = q /\ tick' \in [Ticks -> Tick] /\ \A j \in Ticks : j # k => tick'[j] = tick[j]
  BY <1>1, <1>2 DEF Inv, TypeOK
<1>4. /\ rows' = rows /\ audit' = audit /\ req' = req /\ nextId' = nextId /\ elapsed' = elapsed
      /\ crashes' = crashes /\ event' = NoEvent
  BY DEF SetTick
<1>5. InHand(k)' = todo /\ \A j \in Ticks : j # k => InHand(j)' = InHand(j)
  BY <1>1, <1>3 DEF InHand
<1>6. \A j \in Ticks : \A c \in InHand(j)' : Exists(c)
  BY <1>5 DEF Inv, TypeOK
<1>7. TickInv'
  BY <1>1, <1>3, <1>4, <1>5, TablesKept DEF Inv, TickInv
<1>8. EventsAreCommitted'
  BY <1>4 DEF EventsAreCommitted, NoEvent
<1>. QED
  BY <1>3, <1>4, <1>6, <1>7, <1>8, WorkerStep DEF Inv, TypeOK

\* The SELECT of a tick puts committed commands on its list.
LEMMA InvLists ==
    ASSUME Inv, NEW k \in Ticks,
           ListAccepted(k) \/ ListSubmitted(k) \/ ScanTimeouts(k) \/ TickDone(k)
    PROVE  Inv'
<1>1. /\ Page(Listed({"accepted"})) \subseteq Listed({"accepted"})
      /\ Page(Listed({"submitted"})) \subseteq Listed({"submitted"})
  BY DEF Page
<1>2. \A c \in Listed({"accepted"}) \cup Listed({"submitted"}) \cup Listed({"submitted", "accepted"}) :
          c \in Requests /\ Exists(c)
  BY DEF Listed, Exists
<1>3. CASE ListAccepted(k)
  <2>. DEFINE todo == Page(Listed({"accepted"}))
  <2>1. todo \in SUBSET Requests /\ (\A c \in todo : Exists(c)) /\ SetTick(k, "complete", todo)
    BY <1>1, <1>2, <1>3 DEF ListAccepted
  <2>. HIDE DEF todo
  <2>. QED
    BY <2>1, SetTickStep
<1>4. CASE ListSubmitted(k)
  <2>. DEFINE todo == {c \in Page(Listed({"submitted"})) : ~rows[c].unconfirmed}
  <2>1. todo \in SUBSET Requests /\ (\A c \in todo : Exists(c)) /\ SetTick(k, "accept", todo)
    BY <1>1, <1>2, <1>4 DEF ListSubmitted
  <2>. HIDE DEF todo
  <2>. QED
    BY <2>1, SetTickStep
<1>5. CASE ScanTimeouts(k)
  <2>. DEFINE todo == Listed({"submitted", "accepted"}) \cap elapsed
  <2>1. todo \in SUBSET Requests /\ (\A c \in todo : Exists(c)) /\ SetTick(k, "expire", todo)
    BY <1>2, <1>5 DEF ScanTimeouts
  <2>. HIDE DEF todo
  <2>. QED
    BY <2>1, SetTickStep
<1>6. CASE TickDone(k)
  <2>1. SetTick(k, "idle", {})
    BY <1>6 DEF TickDone
  <2>. QED
    BY <2>1, SetTickStep
<1>. QED
  BY <1>3, <1>4, <1>5, <1>6

\* Time passing changes no table.
LEMMA InvElapse ==
    ASSUME Inv, NEW c \in Requests, Elapse(c)
    PROVE  Inv'
<1>1. /\ rows' = rows /\ audit' = audit /\ req' = req /\ nextId' = nextId /\ tick' = tick
      /\ crashes' = crashes /\ event' = NoEvent /\ elapsed' = elapsed \cup {c}
  BY DEF Elapse
<1>2. TickInv' /\ EventsAreCommitted'
  BY <1>1, TablesKept
<1>3. \A k \in Ticks : InHand(k)' = InHand(k)
  BY <1>1 DEF InHand
<1>4. \A k \in Ticks : \A d \in InHand(k)' : Exists(d)
  BY <1>3 DEF Inv, TypeOK
<1>. QED
  BY <1>1, <1>2, <1>4, WorkerStep DEF Inv, TypeOK

\* A crash of the worker loses its lists and no table.
LEMMA InvWorkerCrash ==
    ASSUME Inv, WorkerCrash
    PROVE  Inv'
<1>1. /\ rows' = rows /\ audit' = audit /\ req' = req /\ nextId' = nextId /\ elapsed' = elapsed
      /\ event' = NoEvent /\ tick' = [k \in Ticks |-> IdleTick]
      /\ crashes' = crashes + 1 /\ crashes < MaxWorkerCrashes
  BY DEF WorkerCrash
<1>2. tick' \in [Ticks -> Tick] /\ crashes' \in 0 .. MaxWorkerCrashes
  BY <1>1, IdleTypes, CommandsAssumption DEF Inv, TypeOK
<1>3. \A k \in Ticks : InHand(k)' = {} /\ tick'[k].publish = Nothing
  BY <1>1 DEF InHand, IdleTick
<1>4. TickInv' /\ EventsAreCommitted'
  BY <1>1, <1>3 DEF TickInv, EventsAreCommitted, NoEvent
<1>. QED
  BY <1>1, <1>2, <1>3, <1>4, WorkerStep DEF Inv, TypeOK

\* One transition of a tick: status and audit row change together; keys and
\* every other command stay.
LEMMA InvTransition ==
    ASSUME Inv, NEW k \in Ticks, NEW c \in Requests, Transition(k, c)
    PROVE  Inv'
<1>. USE DEF Inv
<1>. DEFINE target == TickTarget(tick[k].pc)
            row == [rows[c] EXCEPT !.status = target]
            q == [tick[k] EXCEPT !.todo = tick[k].todo \ {c}, !.publish = c]
<1>1. /\ c \in tick[k].todo /\ rows' = [rows EXCEPT ![c] = row]
      /\ audit' = [audit EXCEPT ![c] = Append(@, target)]
      /\ tick' = [tick EXCEPT ![k] = q]
      /\ req' = req /\ nextId' = nextId /\ elapsed' = elapsed /\ crashes' = crashes
      /\ event' = NoEvent
  BY DEF Transition
<1>2. tick[k] \in Tick /\ c \in InHand(k) /\ Exists(c)
  BY <1>1 DEF TypeOK, InHand
<1>3. tick[k].pc \in {"complete", "accept", "expire"}
  BY <1>2 DEF TickInv, Tick
<1>4. target \in COMMAND_STATES /\ target # "absent"
  BY <1>3 DEF TickTarget, COMMAND_STATES
<1>. HIDE DEF target
<1>5. /\ row \in Row /\ row.status = target /\ row.type = rows[c].type
      /\ row.device = rows[c].device /\ row.key = rows[c].key
  BY <1>4 DEF TypeOK, Row
<1>6. /\ q \in Tick /\ q.pc = tick[k].pc /\ q.publish = c /\ q.todo = tick[k].todo \ {c}
  BY <1>2 DEF Tick
<1>. HIDE DEF row, q
<1>7. rows'[c] = row /\ \A d \in Requests : d # c => rows'[d] = rows[d]
  BY <1>1 DEF TypeOK
<1>8. \A d \in Requests : Exists(d)' = Exists(d)
  BY <1>2, <1>4, <1>5, <1>7 DEF Exists
<1>9. \A d, e \in Requests : SameKey(rows'[d], rows'[e]) <=> SameKey(rows[d], rows[e])
  BY <1>5, <1>7 DEF SameKey, SameSlot
<1>10. \A d \in Requests : \A x : SameKey(rows'[d], x) <=> SameKey(rows[d], x)
  BY <1>5, <1>7 DEF SameKey, SameSlot
<1>11. tick'[k] = q /\ \A j \in Ticks : j # k => tick'[j] = tick[j]
  BY <1>1 DEF TypeOK
<1>12. InHand(k)' \subseteq InHand(k) /\ \A j \in Ticks : j # k => InHand(j)' = InHand(j)
  BY <1>1, <1>6, <1>11 DEF InHand
<1>13. \A j \in Ticks : InHand(j) \subseteq Requests
  BY DEF TypeOK, InHand, Tick
<1>. DEFINE old == audit[c]
            new == Append(old, target)
<1>14. audit'[c] = new /\ \A d \in Requests : d # c => audit'[d] = audit[d]
  BY <1>1 DEF TypeOK
<1>15. old \in Seq(COMMAND_STATES) /\ old # <<>> /\ old[1] = "submitted"
  BY <1>2 DEF TypeOK, AuditTruth
<1>. HIDE DEF old
<1>16. /\ new \in Seq(COMMAND_STATES) /\ new # <<>> /\ new[1] = "submitted"
       /\ new[Len(new)] = target /\ Len(new) \in DOMAIN new
       /\ \A i \in DOMAIN old : i \in DOMAIN new /\ new[i] = old[i]
  BY <1>4, <1>15
<1>. HIDE DEF new
<1>17. TypeOK'
  <2>1. rows' \in [Requests -> Row] /\ tick' \in [Ticks -> Tick]
    BY <1>1, <1>5, <1>6 DEF TypeOK
  <2>2. audit' \in [Requests -> Seq(COMMAND_STATES)]
    BY <1>1, <1>16 DEF TypeOK, new, old
  <2>3. \A j \in Ticks : \A d \in InHand(j)' : Exists(d)'
    BY <1>8, <1>12, <1>13 DEF TypeOK
  <2>. QED
    BY <1>1, <2>1, <2>2, <2>3 DEF TypeOK
<1>18. HandlerInv' /\ KeyInv'
  BY <1>1, <1>8, <1>10 DEF HandlerInv, KeyInv
<1>19. Idempotent'
  BY <1>1, <1>8, <1>9, <1>10 DEF Idempotent
<1>20. AuditTruth'
  BY <1>2, <1>5, <1>7, <1>8, <1>14, <1>16 DEF AuditTruth
<1>21. TickInv'
  <2>2. \E i \in DOMAIN audit'[c] : audit'[c][i] = target
    BY <1>14, <1>16
  <2>3. \A j \in Ticks : tick[j].publish # Nothing => tick[j].publish \in Requests
    BY DEF TypeOK, Tick
  <2>4. tick'[k].pc # "idle" /\ tick'[k].publish = c /\ TickTarget(tick'[k].pc) = target
    BY <1>3, <1>6, <1>11 DEF target
  <2>5. \A j \in Ticks : InHand(j)' # {} => tick'[j].pc # "idle"
    BY <1>11, <1>12, <2>4 DEF TickInv
  <2>6. ASSUME NEW j \in Ticks, tick'[j].publish # Nothing
        PROVE  Audited(tick[j].publish, TickTarget(tick[j].pc))'
    <3>1. CASE j = k
      BY <3>1, <2>2, <2>4 DEF Audited
    <3>2. CASE j # k
      <4>1. tick'[j] = tick[j] /\ tick[j].publish \in Requests
        BY <3>2, <2>3, <2>6, <1>11
      <4>. DEFINE d == tick[j].publish
                  x == TickTarget(tick[j].pc)
      <4>2. \E i \in DOMAIN audit[d] : audit[d][i] = x
        BY <2>6, <4>1 DEF TickInv, Audited
      <4>3. \E i \in DOMAIN audit'[d] : audit'[d][i] = x
        <5>. HIDE DEF d, x
        <5>1. d \in Requests
          BY <4>1 DEF d
        <5>. QED
          BY <4>2, <5>1, <1>14, <1>16 DEF old
      <4>. QED
        BY <4>1, <4>3 DEF Audited
    <3>. QED
      BY <3>1, <3>2
  <2>. QED
    BY <2>5, <2>6 DEF TickInv
<1>22. EventsAreCommitted'
  BY <1>1 DEF EventsAreCommitted, NoEvent
<1>. QED
  BY <1>17, <1>18, <1>19, <1>20, <1>21, <1>22

\* A tick announces what it has committed.
LEMMA InvPublish ==
    ASSUME Inv, NEW k \in Ticks, PublishTransition(k)
    PROVE  Inv'
<1>. USE DEF Inv
<1>. DEFINE c == tick[k].publish
            q == [tick[k] EXCEPT !.publish = Nothing]
<1>1. /\ c # Nothing /\ tick' = [tick EXCEPT ![k] = q]
      /\ rows' = rows /\ audit' = audit /\ req' = req /\ nextId' = nextId /\ elapsed' = elapsed
      /\ crashes' = crashes
  BY DEF PublishTransition
<1>2. \/ event' = NoEvent
      \/ event' = StatusEvent(c, TickTarget(tick[k].pc))
      \/ event' = ModeEvent(c) /\ tick[k].pc = "complete" /\ rows[c].type = "mode.switch"
  BY DEF PublishTransition
<1>3. Audited(c, TickTarget(tick[k].pc)) /\ tick[k] \in Tick
  BY <1>1 DEF TickInv, TypeOK
<1>4. /\ q \in Tick /\ q.pc = tick[k].pc /\ q.todo = tick[k].todo /\ q.publish = Nothing
  BY <1>3 DEF Tick
<1>5. tick'[k] = q /\ tick' \in [Ticks -> Tick] /\ \A j \in Ticks : j # k => tick'[j] = tick[j]
  BY <1>1, <1>4 DEF TypeOK
<1>. HIDE DEF q
<1>6. InHand(k)' \subseteq InHand(k) /\ \A j \in Ticks : j # k => InHand(j)' = InHand(j)
  BY <1>4, <1>5 DEF InHand
<1>7. \A j \in Ticks : \A d \in InHand(j)' : Exists(d)
  BY <1>6 DEF TypeOK
<1>8. TickInv'
  BY <1>1, <1>4, <1>5, <1>6, TablesKept DEF TickInv
<1>. HIDE DEF c
<1>9. EventsAreCommitted'
  <2>1. tick[k].pc = "complete" => TickTarget(tick[k].pc) = "completed"
    BY DEF TickTarget
  <2>. QED
    BY <1>1, <1>2, <1>3, <2>1 DEF EventsAreCommitted, NoEvent, StatusEvent, ModeEvent, Audited
<1>. QED
  BY <1>1, <1>5, <1>7, <1>8, <1>9, WorkerStep DEF TypeOK

\* Every step keeps the invariant.
LEMMA InvStep == Inv /\ [Next]_vars => Inv'
<1>. SUFFICES ASSUME Inv, [Next]_vars PROVE Inv'
  OBVIOUS
<1>1. CASE UNCHANGED vars
  <2>1. /\ rows' = rows /\ audit' = audit /\ req' = req /\ nextId' = nextId /\ elapsed' = elapsed
        /\ tick' = tick /\ event' = event /\ crashes' = crashes
    BY <1>1 DEF vars
  <2>2. TickInv' /\ EventsAreCommitted'
    BY <2>1, TablesKept DEF Inv, EventsAreCommitted
  <2>3. \A k \in Ticks : InHand(k)' = InHand(k)
    BY <2>1 DEF InHand
  <2>4. \A k \in Ticks : \A d \in InHand(k)' : Exists(d)
    BY <2>3 DEF Inv, TypeOK
  <2>. QED
    BY <2>1, <2>2, <2>4, WorkerStep DEF Inv, TypeOK
<1>2. ASSUME NEW r \in Requests, NEW type \in Types, NEW device \in Devices, NEW key \in Keys,
             NEW u \in BOOLEAN, Arrive(r, type, device, key, u)
      PROVE  Inv'
  BY <1>2, InvArrive
<1>3. ASSUME NEW r \in Requests, Submit(r) \/ Abort(r) PROVE Inv'
  BY <1>3, InvSelects, InvInsert, InvCommitSubmit, InvPublishSubmit DEF Submit
<1>4. ASSUME NEW c \in Requests, Elapse(c) PROVE Inv'
  BY <1>4, InvElapse
<1>5. ASSUME NEW k \in Ticks, TickStep(k) PROVE Inv'
  BY <1>5, InvLists, InvTransition, InvPublish DEF TickStep
<1>6. CASE WorkerCrash
  BY <1>6, InvWorkerCrash
<1>. QED
  BY <1>1, <1>2, <1>3, <1>4, <1>5, <1>6 DEF Next

\* Tables, handlers and ticks always hold values of their types.
THEOREM CommandsTypeCorrect == Spec => []TypeOK
<1>1. Inv => TypeOK
  BY DEF Inv
<1>. QED
  BY <1>1, InitInv, InvStep, PTL DEF Spec

\* submit is idempotent for any number of racing, failing and repeated
\* requests: one key, one row, one command in every answer.
THEOREM IdempotentHolds == Spec => []Idempotent
<1>1. Inv => Idempotent
  BY DEF Inv
<1>. QED
  BY <1>1, InitInv, InvStep, PTL DEF Spec

\* The status of a command is always the last one audited for it, however
\* ticks overwrite each other.
THEOREM CommandAuditTruth == Spec => []AuditTruth
<1>1. Inv => AuditTruth
  BY DEF Inv
<1>. QED
  BY <1>1, InitInv, InvStep, PTL DEF Spec

\* command:status and mode:changed only tell of committed transitions.
THEOREM EventsCommittedHolds == Spec => []EventsAreCommitted
<1>1. Inv => EventsAreCommitted
  BY DEF Inv
<1>. QED
  BY <1>1, InitInv, InvStep, PTL DEF Spec

============================================================================
