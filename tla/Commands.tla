------------------------------ MODULE Commands ------------------------------
(***************************************************************************)
(* Device commands: app/services/command_service.py behind                 *)
(* app/routers/governance/commands.py, and the two cron jobs of            *)
(* worker/tasks.py that move commands along.                               *)
(*                                                                         *)
(* submit runs up to four SELECTs and an INSERT, each with a snapshot of   *)
(* its own, and commits at the end of AuditService.record.  A worker tick  *)
(* SELECTs a list and then commits one command after another; it checks    *)
(* the status it SELECTed, never the one in the table, because its session *)
(* keeps the objects it has loaded.  Ticks run concurrently with each      *)
(* other and with requests.                                                *)
(***************************************************************************)
EXTENDS Naturals, Sequences, FiniteSets, FiniteSetsExt

CONSTANTS
    Requests,          \* POST requests; a request that creates a command names it
    Types,             \* command types in use
    Devices,           \* devices the registry knows
    Keys,              \* idempotency keys
    Confirmers,        \* overlapping runs of mock_confirm_commands
    Scanners,          \* overlapping runs of scan_command_timeouts
    PageSize,          \* rows a confirm tick lists at most (limit=100)
    MaxWorkerCrashes,  \* a bound
    Nothing            \* no command, no event, not asked yet

COMMAND_STATES == {"submitted", "accepted", "completed", "failed", "timeout", "rejected"}

TERMINAL_STATES == {"completed", "failed", "timeout", "rejected"}

COMMAND_TYPES == {"cycle.start", "cycle.stop", "mode.switch", "safety.stop_request"}

Ticks == Confirmers \cup Scanners

ASSUME CommandsAssumption ==
    /\ Types \subseteq COMMAND_TYPES
    /\ Confirmers \cap Scanners = {}
    /\ PageSize \in Nat \ {0}
    /\ MaxWorkerCrashes \in Nat
    /\ Nothing \notin Requests \cup Types \cup Devices \cup Keys
    /\ {"conflict", "error"} \cap Requests = {}

VARIABLES
    rows,     \* the commands table, committed rows
    audit,    \* results audited for each command, oldest first
    req,      \* handlers of POST /commands/...
    nextId,   \* the sequence behind the id column
    elapsed,  \* commands whose confirm window is over
    tick,     \* the worker's ticks
    event,    \* the event the last step delivered, if it did
    crashes   \* of the worker

vars == <<rows, audit, req, nextId, elapsed, tick, event, crashes>>

NoRow == [status |-> "absent", type |-> Nothing, device |-> Nothing, key |-> Nothing,
          id |-> 0, unconfirmed |-> FALSE]

NewRequest == [pc |-> "new", row |-> NoRow, answer |-> Nothing]

IdleTick == [pc |-> "idle", todo |-> {}, publish |-> Nothing]

NoEvent == [name |-> "none", cmd |-> Nothing, status |-> Nothing]

Init ==
    /\ rows = [r \in Requests |-> NoRow]
    /\ audit = [r \in Requests |-> <<>>]
    /\ req = [r \in Requests |-> NewRequest]
    /\ nextId = 1
    /\ elapsed = {}
    /\ tick = [k \in Ticks |-> IdleTick]
    /\ event = NoEvent
    /\ crashes = 0

Exists(c) == rows[c].status # "absent"

Listed(statuses) == {c \in Requests : rows[c].status \in statuses}

SameSlot(a, b) == a.type = b.type /\ a.device = b.device

SameKey(a, b) == SameSlot(a, b) /\ a.key = b.key

\* The one row that ORDER BY id DESC LIMIT 1 returns, if any.
Newest(cs) == {c \in cs : \A d \in cs : rows[d].id <= rows[c].id}

Goto(r, pc) == req' = [req EXCEPT ![r] = [@ EXCEPT !.pc = pc]]

Answer(r, what) == req' = [req EXCEPT ![r] = [@ EXCEPT !.pc = "done", !.answer = what]]

UnchangedBySelect ==
    /\ UNCHANGED <<rows, audit, nextId, elapsed, tick, crashes>>
    /\ event' = NoEvent

----------------------------------------------------------------------------
\* A request that passed the permission gate reaches submit.  Which commands
\* the mock device will leave unconfirmed depends on their random command_id.
Arrive(r, type, device, key, unconfirmed) ==
    /\ req[r].pc = "new"
    /\ req' = [req EXCEPT ![r] =
                 [pc |-> "key",
                  row |-> [NoRow EXCEPT !.status = "submitted", !.type = type, !.device = device,
                                        !.key = key, !.unconfirmed = unconfirmed],
                  answer |-> Nothing]]
    /\ UnchangedBySelect

\* get_by_idempotency: a replay is answered with the original, 200.
CheckKey(r) ==
    LET same == {c \in Requests : Exists(c) /\ SameKey(rows[c], req[r].row)}
    IN  /\ req[r].pc = "key"
        /\ IF same # {}
             THEN \E c \in same : Answer(r, c)
             ELSE Goto(r, "pending")
        /\ UnchangedBySelect

\* active_pending: 409, or the original when the key turns out to be the same.
CheckPending(r) ==
    LET pending == {c \in Listed({"submitted", "accepted"}) : SameSlot(rows[c], req[r].row)}
    IN  /\ req[r].pc = "pending"
        /\ \/ /\ pending = {}
              /\ Goto(r, IF req[r].row.type = "cycle.start" THEN "cycle" ELSE "insert")
           \/ \E c \in Newest(pending) :
                 Answer(r, IF SameKey(rows[c], req[r].row) THEN c ELSE "conflict")
        /\ UnchangedBySelect

\* is_cycle_running: is the newest live cycle command of the device a start?
is_cycle_running(device) ==
    LET live == {c \in Listed({"submitted", "accepted", "completed"}) :
                    /\ rows[c].device = device
                    /\ rows[c].type \in {"cycle.start", "cycle.stop"}}
    IN  \E c \in Newest(live) : rows[c].type = "cycle.start"

CheckCycle(r) ==
    /\ req[r].pc = "cycle"
    /\ IF is_cycle_running(req[r].row.device)
         THEN Answer(r, "conflict")
         ELSE Goto(r, "insert")
    /\ UnchangedBySelect

\* Uncommitted rows that hold the key in the unique index.
KeyHolders(r) == {s \in Requests : req[s].pc = "commit" /\ SameKey(req[s].row, req[r].row)}

\* Mutant: the table has no unique constraint.
InsertUnchecked(r) ==
    /\ req[r].pc = "insert"
    /\ req' = [req EXCEPT ![r] = [@ EXCEPT !.pc = "commit",
                                           !.row = [req[r].row EXCEPT !.id = nextId]]]
    /\ nextId' = nextId + 1
    /\ UNCHANGED <<rows, audit, elapsed, tick, crashes>>
    /\ event' = NoEvent

(***************************************************************************)
(* repo.add: the INSERT draws an id; it waits while another transaction    *)
(* holds the same key, and raises IntegrityError when that one commits.    *)
(***************************************************************************)
Insert(r) ==
    LET taken == \E c \in Requests : Exists(c) /\ SameKey(rows[c], req[r].row)
    IN  /\ req[r].pc = "insert"
        /\ KeyHolders(r) = {}
        /\ req' = [req EXCEPT ![r] = IF taken
                                       THEN [@ EXCEPT !.pc = "replay"]
                                       ELSE [@ EXCEPT !.pc = "commit",
                                                      !.row = [req[r].row EXCEPT !.id = nextId]]]
        /\ nextId' = nextId + 1
        /\ UNCHANGED <<rows, audit, elapsed, tick, crashes>>
        /\ event' = NoEvent

\* The loser of the race rolls back and answers with the original.
Replay(r) ==
    /\ req[r].pc = "replay"
    /\ \E c \in Requests : Exists(c) /\ SameKey(rows[c], req[r].row) /\ Answer(r, c)
    /\ UnchangedBySelect

\* AuditService.record commits the command together with its audit row.
CommitSubmit(r) ==
    /\ req[r].pc = "commit"
    /\ rows' = [rows EXCEPT ![r] = req[r].row]
    /\ audit' = [audit EXCEPT ![r] = Append(@, "submitted")]
    /\ Goto(r, "publish")
    /\ UNCHANGED <<nextId, elapsed, tick, crashes>>
    /\ event' = NoEvent

StatusEvent(c, status) == [name |-> "command:status", cmd |-> c, status |-> status]

ModeEvent(c) == [name |-> "mode:changed", cmd |-> c, status |-> "completed"]

\* command:status after the commit, best effort; then 202.
PublishSubmit(r) ==
    /\ req[r].pc = "publish"
    /\ event' \in {NoEvent, StatusEvent(r, "submitted")}
    /\ Answer(r, r)
    /\ UNCHANGED <<rows, audit, nextId, elapsed, tick, crashes>>

\* The handler fails or the api process dies before the commit: rolled back.
Abort(r) ==
    /\ req[r].pc \in {"key", "pending", "cycle", "insert", "replay", "commit"}
    /\ Answer(r, "error")
    /\ UnchangedBySelect

----------------------------------------------------------------------------
\* The confirm window of a command ends.
Elapse(c) ==
    /\ Exists(c)
    /\ c \notin elapsed
    /\ elapsed' = elapsed \cup {c}
    /\ UNCHANGED <<rows, audit, req, nextId, tick, crashes>>
    /\ event' = NoEvent

SetTick(k, pc, todo) ==
    /\ tick' = [tick EXCEPT ![k] = [IdleTick EXCEPT !.pc = pc, !.todo = todo]]
    /\ UNCHANGED <<rows, audit, req, nextId, elapsed, crashes>>
    /\ event' = NoEvent

\* repo.list: the newest rows first, at most a page of them.
Page(cs) == {c \in cs : Cardinality({d \in cs : rows[d].id > rows[c].id}) < PageSize}

\* mock_confirm_commands starts with the commands already accepted ...
ListAccepted(k) ==
    /\ k \in Confirmers
    /\ tick[k].pc = "idle"
    /\ SetTick(k, "complete", Page(Listed({"accepted"})))

\* ... and goes on with the submitted ones its device answers.
ListSubmitted(k) ==
    /\ tick[k].pc = "complete"
    /\ tick[k].todo = {} /\ tick[k].publish = Nothing
    /\ SetTick(k, "accept", {c \in Page(Listed({"submitted"})) : ~rows[c].unconfirmed})

\* Mutant: only accepted commands can time out.
ScanAcceptedOnly(k) ==
    /\ k \in Scanners
    /\ tick[k].pc = "idle"
    /\ SetTick(k, "expire", Listed({"accepted"}) \cap elapsed)

\* scan_timeouts: the non-terminal commands whose window is over.
ScanTimeouts(k) ==
    /\ k \in Scanners
    /\ tick[k].pc = "idle"
    /\ SetTick(k, "expire", Listed({"submitted", "accepted"}) \cap elapsed)

TickDone(k) ==
    /\ tick[k].pc \in {"accept", "expire"}
    /\ tick[k].todo = {} /\ tick[k].publish = Nothing
    /\ SetTick(k, "idle", {})

\* Mutant: a status name that is not one of the table's.
BadTickTarget(pc) == CASE pc = "complete" -> "completed"
                       [] pc = "accept" -> "accepted"
                       [] pc = "expire" -> "timed_out"

\* The status a tick moves the commands of its list to.
TickTarget(pc) == CASE pc = "complete" -> "completed"
                    [] pc = "accept" -> "accepted"
                    [] pc = "expire" -> "timeout"

\* Mutant: the UPDATE is made conditional on the status, but its row count is
\* not looked at and the transition is audited all the same.
TransitionConditionally(k, c) ==
    LET target == TickTarget(tick[k].pc)
    IN  /\ c \in tick[k].todo
        /\ tick[k].publish = Nothing
        /\ rows' = IF rows[c].status \in TERMINAL_STATES
                     THEN rows
                     ELSE [rows EXCEPT ![c] = [@ EXCEPT !.status = target]]
        /\ audit' = [audit EXCEPT ![c] = Append(@, target)]
        /\ tick' = [tick EXCEPT ![k] = [@ EXCEPT !.todo = tick[k].todo \ {c}, !.publish = c]]
        /\ UNCHANGED <<req, nextId, elapsed, crashes>>
        /\ event' = NoEvent

(***************************************************************************)
(* _transition of one command of the list.  The status it validates is the *)
(* one the list was SELECTed by, so the check passes; the UPDATE names the *)
(* row by its key only and commits with the audit row.  The order within   *)
(* the list is left open.                                                  *)
(***************************************************************************)
Transition(k, c) ==
    LET target == TickTarget(tick[k].pc)
    IN  /\ c \in tick[k].todo
        /\ tick[k].publish = Nothing
        /\ rows' = [rows EXCEPT ![c] = [@ EXCEPT !.status = target]]
        /\ audit' = [audit EXCEPT ![c] = Append(@, target)]
        /\ tick' = [tick EXCEPT ![k] = [@ EXCEPT !.todo = tick[k].todo \ {c}, !.publish = c]]
        /\ UNCHANGED <<req, nextId, elapsed, crashes>>
        /\ event' = NoEvent

\* Mutant: events leave before the commit.
PublishEarly(k) ==
    LET next == IF tick[k].publish # Nothing THEN {tick[k].publish} ELSE tick[k].todo
    IN  /\ \E c \in next : event' \in {NoEvent, StatusEvent(c, TickTarget(tick[k].pc))}
        /\ tick' = [tick EXCEPT ![k] = [@ EXCEPT !.publish = Nothing]]
        /\ UNCHANGED <<rows, audit, req, nextId, elapsed, crashes>>

\* command:status, and mode:changed for a completed mode.switch, best effort:
\* each is delivered or lost, and event shows any one that was delivered.
PublishTransition(k) ==
    LET c == tick[k].publish
    IN  /\ c # Nothing
        /\ event' \in {NoEvent, StatusEvent(c, TickTarget(tick[k].pc))}
                      \cup (IF tick[k].pc = "complete" /\ rows[c].type = "mode.switch"
                              THEN {ModeEvent(c)} ELSE {})
        /\ tick' = [tick EXCEPT ![k] = [@ EXCEPT !.publish = Nothing]]
        /\ UNCHANGED <<rows, audit, req, nextId, elapsed, crashes>>

\* The worker dies and restarts; its ticks are gone.
WorkerCrash ==
    /\ crashes < MaxWorkerCrashes
    /\ \E k \in Ticks : tick[k].pc # "idle"
    /\ crashes' = crashes + 1
    /\ tick' = [k \in Ticks |-> IdleTick]
    /\ UNCHANGED <<rows, audit, req, nextId, elapsed>>
    /\ event' = NoEvent

----------------------------------------------------------------------------
Submit(r) ==
    \/ CheckKey(r) \/ CheckPending(r) \/ CheckCycle(r)
    \/ Insert(r) \/ Replay(r) \/ CommitSubmit(r) \/ PublishSubmit(r)

TickStep(k) ==
    \/ ListAccepted(k) \/ ListSubmitted(k) \/ ScanTimeouts(k) \/ TickDone(k)
    \/ \E c \in Requests : Transition(k, c)
    \/ PublishTransition(k)

Next ==
    \/ \E r \in Requests :
          \/ \E type \in Types, device \in Devices, key \in Keys, u \in BOOLEAN :
                Arrive(r, type, device, key, u)
          \/ Submit(r)
          \/ Abort(r)
          \/ Elapse(r)
    \/ \E k \in Ticks : TickStep(k)
    \/ WorkerCrash

Spec == Init /\ [][Next]_vars

\* arq fires the cron jobs for ever and runs what it started; time passes.
FairSpec ==
    /\ Spec
    /\ \A k \in Ticks : WF_vars(TickStep(k))
    /\ \A c \in Requests : WF_vars(Elapse(c))

----------------------------------------------------------------------------
Row == [status : COMMAND_STATES \cup {"absent"},
        type : Types \cup {Nothing},
        device : Devices \cup {Nothing},
        key : Keys \cup {Nothing},
        id : Nat,
        unconfirmed : BOOLEAN]

RequestPcs == {"new", "key", "pending", "cycle", "insert", "replay", "commit", "publish", "done"}

Handler == [pc : RequestPcs,
            row : Row,
            answer : Requests \cup {Nothing, "conflict", "error"}]

Tick == [pc : {"idle", "complete", "accept", "expire"},
         todo : SUBSET Requests,
         publish : Requests \cup {Nothing}]

\* The commands a tick still has to move or to publish.
InHand(k) == tick[k].todo \cup ({tick[k].publish} \ {Nothing})

\* Tables, handlers and ticks hold values of their types, and a tick works on
\* commands that exist.
TypeOK ==
    /\ rows \in [Requests -> Row]
    /\ audit \in [Requests -> Seq(COMMAND_STATES)]
    /\ req \in [Requests -> Handler]
    /\ nextId \in Nat \ {0}
    /\ elapsed \subseteq Requests
    /\ tick \in [Ticks -> Tick]
    /\ \A k \in Ticks : \A c \in InHand(k) : Exists(c)
    /\ crashes \in 0 .. MaxWorkerCrashes

\* Idempotency: whatever requests race, crash or fail, two requests with the
\* same (command_type, device, idempotency_key) are never answered with
\* different commands, and no two rows share a key (submit, D6.2).
Idempotent ==
    /\ \A r \in Requests :
          req[r].answer \in Requests =>
             Exists(req[r].answer) /\ SameKey(rows[req[r].answer], req[r].row)
    /\ \A c, d \in Requests :
          Exists(c) /\ Exists(d) /\ SameKey(rows[c], rows[d]) => c = d

\* Audit truth: a command's status is the last result audited for it, its
\* audit trail starts with its submission and a command that was rolled back
\* leaves none, although ticks overwrite each other from stale lists.
AuditTruth ==
    \A c \in Requests :
        IF Exists(c)
          THEN /\ audit[c] # <<>>
               /\ audit[c][1] = "submitted"
               /\ audit[c][Len(audit[c])] = rows[c].status
          ELSE audit[c] = <<>>

\* A subscriber is never told of a transition that was not committed: the
\* status in a delivered event has been audited for that command, and
\* mode:changed names a mode.switch that was completed (D6.6).
EventsAreCommitted ==
    event.name # "none" =>
        /\ \E i \in DOMAIN audit[event.cmd] : audit[event.cmd][i] = event.status
        /\ event.name = "mode:changed" => rows[event.cmd].type = "mode.switch"

\* Every command settles: although a late tick may take it out of a terminal
\* status again, from some point on it is in a terminal status for ever, across
\* worker crashes and for the commands the device never confirms.
Settles ==
    \A c \in Requests : Exists(c) ~> [](rows[c].status \in TERMINAL_STATES)

\* domain/commands.py: completed, failed, timeout and rejected are terminal.
TerminalIsFinal ==
    [][\A c \in Requests :
          rows[c].status \in TERMINAL_STATES => rows'[c].status = rows[c].status]_vars

\* D6.8: a command awaiting confirmation blocks a new one of its device and
\* type, so there are never two of them.
OnePending ==
    \A c, d \in Listed({"submitted", "accepted"}) : SameSlot(rows[c], rows[d]) => c = d

============================================================================
