# Verification of the AI Servo Platform back end

TLA+ models, TLC runs and TLAPS proofs for the governance back end of the AI Servo
Platform (`src/app`, `src/worker`, `src/executor`). The modules are translated from the
code; `PROJECT.json` gives, for every definition, the lines it stands for, and lists
the hazards the properties are aimed at.

## 1. The system

### Processes and shared state

| Process | Runs | Scheduling |
|---|---|---|
| api | FastAPI under one uvicorn worker | one event loop; handlers interleave at every `await`, file access blocks the loop |
| worker | arq cron jobs (`worker/main.py`) | one event loop; a job starts on schedule whether or not its last run has ended, 300 s job timeout |
| executor | `run_executor.py` | one thread, polls the api, `restart: unless-stopped` |

They share PostgreSQL (READ COMMITTED), the engine's files (`models.jsonl`, reports)
and Redis channels on which events are published after the commit, best effort.

Every mutation of a table has the same form: SELECT without a lock, a pure check of the
loaded object, then `AuditService.record`, which takes the advisory lock of the audit
chain, flushes the UPDATE, inserts the audit row and commits. UPDATE and audit row are
one transaction, but the check is as old as the SELECT: sessions are created with
`expire_on_commit=False`, the UPDATE is keyed by the primary key only, and only the
assigned columns are written. This pattern is what most of the hazards come from.

### Components

| Component | State | Operations | What makes it correct | Module |
|---|---|---|---|---|
| permissions | role tables, deploy mode | pure | approve and propose codes per type | `Permissions` |
| approval workflow | `approvals`, audit entries, side effects | propose, approve, reject, withdraw, apply | nobody decides an own proposal; rows, effects and log agree; nothing unapproved takes effect | `Approvals` |
| parameter checks | none | five checks | order and boundaries of the checks | `ParamTuning` |
| model registry | `models.jsonl`, its temporary file | promote, add_shadow, generate | one active version per scenario, an approved one; the file stays decodable | `ModelRegistry`, `RegistryFile`, `Approvals`, `Training` |
| audit log | `audit_events`, `audit_chain_verifications` | append, verify, save | the chain never forks; verification is true and locates edits | `AuditLog`, `AuditChain` |
| device commands | `commands`, events | submit, confirm, complete, time out | idempotent submission; every command settles | `Commands` |
| training jobs | `training_jobs`, candidates | create, cancel, advance | no shortcut through the pipeline; every passed job has a proposal | `Training` |
| alarms and maintenance reports | `alarms`, `maintenance_reports` | escalate, ack, resolve, report | one active alarm per escalation, never re-opened | `Alarms` |
| executor | device parameters, reports, executed set | poll, apply, verify, roll back | nothing is forgotten; the device keeps what the reports say | `Executor` |
| proposal bridge | none | turns a diagnosis into a proposal | its policy agrees with the checks and the executor's | `ProposalBridge` |
| trust boundary | none | authenticate, gate, audit denials | who reaches a handler is entitled to it; a denial is audited | `TrustBoundary`, in `Approvals` |
| model service client | two caches, a lock | predict, info, snapshot | one call at a time, none needless; every snapshot answered | `ModelService` |
| events | none | publish | events name committed facts | in `Approvals`, `Commands`, `Alarms` |
| engine reads, integration probes, plant, gate | generated files | reads | - | not modelled |

Interactions: a training job proposes an approval; an approval promotes a model, or
releases a parameter change to the executor, or raises a governance alarm when its
effect fails; a maintenance report resolves an alarm; everything appends to the audit
log and publishes events.

### Hard behaviours

- Two handlers, two ticks of a cron job, or a handler and a tick hold the same row,
  each with the status it loaded.
- A decision commits before its effect; the effect may fail, raise, or never happen.
- A training job's last step spans two transactions; a candidate is written to a file
  before the status that announces it.
- api and worker rewrite `models.jsonl` from what they read, without a lock and through
  one temporary file; the worker truncates it when it boots.
- Snapshots share a cache, a lock and a service that may be slow, down or redeployed.
- The executor remembers what it executed only when a poll ends, and truncates files
  before it writes them.
- The audit lock must cover read, insert and commit, and be released by a rollback.

## 2. Modules

Definitions keep the names of the source where there is one. Definitions preceded by a
comment `Mutant:` are small variations of the definition after them which no
specification uses; they exist to show which change of the code a property notices.

**`Approvals`** - `rows` is the `approvals` table, `audit` the entries concerned, `req`
the handlers (`pc` = where the coroutine awaits), `models` the registry file, `alarms`,
`changed` (last delivered `model:changed`). `Propose` is a whole handler. A decision is
`Read` (SELECT and checks), `Decide` (UPDATE, audit row, COMMIT), and for an approval
`ApplyEffect` (file rewrite or five checks), `RecordEffect`, `RaiseAlarm`,
`PublishModelChanged`. `Deny` and `Refuse` are the 403, 404 and 409 paths,
`EffectRaises` an exception nobody catches (an undecodable registry, or a `param` that
cannot be looked up in the whitelist: `CheckRaises`), `Crash` the end of the process. `Concurrent = FALSE` lets one handler run at a time. `Permissions`,
`ParamTuning` and `ModelRegistry` are operators it uses. **`DecisionRegister`** is the
abstract specification: a table in which a proposal is decided once, by the right
person, and gets at most one effect; `Register` maps a row to an entry of it.

**`TrustBoundary`** - what a call meets before one of these handlers: `Dispatch` is the
middleware, `Principal` the identity it leaves behind, `Gate` the dependency of the
route, `Denied` the refusals that are audited. Stateless, so there is no run: its
theorem is over all calls. `Approvals` takes requests past the middleware and has the
gate as `PassesGate` and `Deny`.

**`ProposalBridge`** - the proposals `param_proposal_bridge.py` computes, in fixed point:
values in 1/1000, `delta_pct` in tenths of a percent, the precisions it rounds to. The
parameter proposals of the `Approvals` runs are built with it, `StaleFor` is the
executor's comparison, which is not made when the device's value is 0.

**`AuditChain`** - `table` (committed rows by id), `nextId` (the sequence, with gaps),
`lock`, `tx`, `ver`, `checks`. An append is `Begin`, `Lock`, `ReadHead`, `Insert`,
`Commit`, with `Rollback` at any of them; a verification is `Verify` (reads without the
lock) and `Save`. A hash is the sequence of the business views it covers: collision
free, as SHA-256 is taken to be. `Stored` is what JSONB returns of a value, which need
not be what was hashed. **`AuditLog`** is the abstract specification, an append-only
sequence.

**`Commands`** - `Arrive`, `CheckKey`, `CheckPending`, `CheckCycle`, `Insert` (which
waits for an uncommitted row with the same key, as the unique index does),
`CommitSubmit`, `Replay`, `PublishSubmit`, `Abort` for a request; `ListAccepted`,
`ListSubmitted`, `ScanTimeouts`, `Transition`, `PublishTransition`, `TickDone`,
`WorkerCrash` for the ticks. `Elapse` is the end of a confirm window. `Page` is the
`ORDER BY id DESC LIMIT` of the confirm tick's two queries; the timeout scan has none.

**`RegistryFile`** - `models.jsonl` as names and inodes. `path` and `tmp` are the contents
behind the two names, `file` what each process has open, known by the name its inode
has at the moment. A save is `ReadAll`, `OpenTmp` (truncates), `CloseTmp` (writes) and
`Replace`, or `ReplaceFails` when the other process has renamed the file away.
`WriteOpen` writes to the inode whatever it is called by now, `Overlay` says what that
makes of contents somebody else put there. `Truncate` and `Generate` are the simulator's
writing in place, `CloseAll` the death of a process. The module has no specification of
its own: `Training` composes it with the actors.

**`Training`** - `Create`, `ReadCancel`, `CommitCancel` in the api; `ListJobs`,
`Progress`, `EnterShadow`, `SaveShadow`, `FinishShadow`, `SpawnApproval`, `Record`,
`TickDone` in a tick; `Approve`, `SavePromotion`, `FinishPromotion` as far as they touch
`models.jsonl`; `Undecodable` (the file is torn and the tick raises), `Abort` (it raises
for another reason), `Restart` and `Boot` (mock mode regenerates the file),
`RestartApi`. The later writer of the file wins, and `lost` remembers that it did. The
last step of a job is two transactions, as in the code. A job's scenario is any string:
the registry refuses one of another form (`WellFormed`), `EnterShadow` goes on without a
candidate, and the job passes all the same. The limit of 100 in `active_jobs` is left
out: the list is oldest first, and the oldest jobs are the ones that leave it.

**`Alarms`** - `Escalate` (look-up), `InsertAlarm` or `RefreshAlarm`, `PublishAlarm` for
the cron job; `RaiseGovernance`; `Arrive` or `CreateReport`, `Load`, `Store`, `Answer`
for requests; `CrashApi`, `CrashWorker`. A maintenance report is committed before its
alarm is looked up, so that a 404 or 409 leaves it in place. `AuditTruth` covers the
events too: one names a status that was committed and audited.

**`Executor`** - `Poll`, then for each item `Skip`, `Exclude`, `Refuse` or `Apply`;
writing a file is an `Open...` step, which truncates it, and a `Write...` step. An item
may end the poll by an exception at three places: `Raises` (before anything is changed:
a `current` or `new` that float arithmetic refuses, a device that cannot be simulated as
it is), `Abandon` (the measurement after `p[param]` was set raises, such as
`ZeroDivisionError` for `Acc = 0`: the value stays in memory, nothing is saved or rolled
back) and `ReportRaises` (after the change is saved: the current of before is 0 in
`peak_current_delta_pct`, or the device's name has a `/` and the report no path). Which
values and devices do so are constants (`NonFloat`, `Fatal`, `Still`, `Unwritable`).
`Crash` may happen between any two steps; `Start` needs both state files to be readable.
`Decide` and `Settle` are what the executor sees of the approval workflow. The plant's
verdict on a change it can simulate is a free choice. `kept`, `verified` and `applies`
only record what was done.

**`ModelService`** - a snapshot is `Arrive` (cache, then the queue of the lock), `Turn`
(the lock is acquired, the cache looked at again), `PostReturns` or `PostFails`, and
`GetAnswered`, `GetReturns` or `GetFails` for the metadata, inside `predict` and once
more after it. An answer is made by the service in one step and stored in another, so
that answers overtake each other. Time is ages: `Pass` makes everything older, up to the
age at which it has expired. `Deploy` gives the service another version; `obsolete` only
records how long ago a version was replaced. A handler that ends in an exception is
`Failed` (a 500), one that is answered `Idle`: `Finish`, `Rendered` and `ParseRaises` are
the places where a body of an `Oversized` version, or the `reg_r2` of an `Unrenderable`
one, gets past the `except` clauses.

The modules named `...Proofs` hold the theorems of section 4: one for each component with
a specification, which it extends, and `PolicyProofs` for the two stateless ones.

## 3. Runs

| Run | Specification | Shows |
|---|---|---|
| `approvals_race` | two approvals, two users, two overlapping decisions, crash, raising effects, lite topology | `TypeOK`, `SeparationOfDuties`, `AuditTruth`, `EffectsAuthorised`, `FailuresAlarmed`, `ActiveVersionWasApproved`, `ModelChangedIsRecorded` hold although decisions overwrite each other |
| `approvals_serial` | the same, one request at a time, full topology, no crash | `RegisterSpec` (refinement of `DecisionRegister`), `RegistryMatchesAudit`, and `ApprovedGetsEffect` under fairness |
| `approvals_terminal` | two overlapping decisions on one approval | **violation** of `DecidedIsTerminal` (finding 1) |
| `audit_chain` | three appends with rollbacks, two verifications | `LogSpec` (refinement), `VerificationTruth`, `EditsDetected`, `WaitersServed` |
| `audit_roundtrip` | a value that JSONB returns in another form | **violation** of `NeverDrifts` (finding 2) |
| `commands_race` | two racing submissions, a confirm tick with a page of one row, a timeout tick, worker crash | `Idempotent`, `AuditTruth`, `EventsAreCommitted`, `Settles` |
| `commands_terminal` | a confirm and a timeout tick on one command | **violation** of `TerminalIsFinal` (finding 3) |
| `commands_pending` | two submissions with different keys | **violation** of `OnePending` (finding 4) |
| `training` | one job of a well-formed or ill-formed scenario, overlapping ticks, cancel, raising tick, restart of either process, missing file, approvals, saves that collide in the temporary file | `PassedHasApproval`, `PipelineHonoured`, `CandidateRegistered`, `RegistryWhole`, `JobSettles` |
| `alarms` | the escalation, two requests of any kind, a governance alarm, a crash | `AuditTruth`, `OneActive`, `HandledStaysHandled`, `EscalationShown` |
| `executor` | four proposals for three devices on a page of three, each of which but the newest raises somewhere, a crash | `DoneIsReported`, `DeviceMatchesReports`, `TriedOnce`, `Executed` |
| `model_service` | three overlapping snapshots of two devices, a service that fails, is slow, and is redeployed as a version that sends numbers no float holds | `HerdCollapsed`, `InfoNotOverstated`, `Answered` |

### Findings

1. A decided approval can be decided again by a handler that read it while pending
   (`approval_service.py:188`), against `domain/approvals.py:9-10`.
2. An event value whose text form changes in JSONB (a float such as 1e16) makes an
   untouched audit chain fail verification (`audit_repo.py:74`), against
   `audit_repo.py:7-9`. `docs/DECISIONS.md:210-214` concedes an edge of this kind.
3. A timed-out command becomes accepted or completed when a confirm tick has it on its
   list (`command_service.py:187`), against `domain/commands.py:8-11`.
4. Two commands of one device and type can both await confirmation
   (`command_service.py:115`), against `docs/DECISIONS.md:603-605`.

### What the runs do not promise

`CandidateRegistered` speaks of jobs of a well-formed scenario, and of runs in which
`models.jsonl` was never missing, regenerated or overwritten from a stale reading; the
others propose a version the registry does not hold, and their promotion fails with
`apply_failed`. (`TrainingJobIn` takes any string as `scenario_id`; `S01` is not of the
form `add_shadow` asks for.) `FailuresAlarmed` and `RegistryMatchesAudit` presume no
crash, and `RegistryMatchesAudit` is checked for requests that do not overlap: two
overlapping promotions may be recorded in the opposite order of their writes. An
acknowledgement may overwrite a resolution (`AuditTruth` holds, the alarm shows
`acknowledged`).

`ApprovedGetsEffect` excepts a tuning whose `param` is a list or an object. `param not
in PARAM_WHITELIST` raises `TypeError` for it after the decision has been committed: the
row stays approved without a `side_effect_status`, and no alarm is raised. The executor
skips such a row for ever, as one that is not settled yet.

Exceptions that end a poll of the executor bound what its properties promise. `Executed`
speaks of approvals the executor can get at (`Accessible`): not of one behind the page,
nor of one behind an item that raises, nor of a start with a state file torn by a crash;
newer approvals than the item that raises are executed. `TriedOnce` speaks of proposals
that end in a report (`Reportable`); one that does not is never put into `done` and is
tried again in every poll, on the device, for as long as it is on the page.
`DeviceMatchesReports` excepts a value the device cannot be simulated with: it stays in
memory, without a verdict or a report, and the next save of any device writes it to disk.

`Answered` promises an answer in every case and a rendered one only while no version was
deployed whose bodies raise something else than the `except` clauses name:
`OverflowError` of an integer too large for a float (`model_service.py:69`,
`snapshot_service.py:50`), `RecursionError` of the parser (`model_service.py:82`), or a
`reg_r2` that is not finite, which `float()` accepts and the JSON response refuses. The
snapshot then ends in a 500, for as long as such metadata is cached, and the fallback the
module's docstring promises is not used.

`RegistryWhole` excepts two processes that meet in the temporary file, and a worker that
is still booting. The comment at `model_registry_repo.py:10-13` speaks of a crash in the
middle of a write, which is covered; when two saves collide, one of them may publish
what the other has half written, or fail with `FileNotFoundError`. An undecodable file
is not a `ModelRegistryError`: every tick then raises at the job it would take to
`shadow` or `passed`, until somebody repairs the file, which is why `JobSettles` names
this case.

`InfoNotOverstated` allows an older answer to replace a newer one, each with its own
stamp: the version shown may go back for the rest of its `InfoTTL`. A failed call is not
remembered, so that during an outage each snapshot waits its turn and calls.

`BridgePasses` speaks of a device within its bounds. Outside them by more than a step,
`BridgeCannotReturn`: everything the bridge proposes is approved in vain. Range and
`delta_pct` of a proposal are what its author says they are; nothing on the way to the
device computes them again. The 10 % policy is one of the proposal: what the executor
finds may be 2 % away from it, and the step it makes up to 12.4 % of a value other than 0
(`ExecutedStepBounded`). From 0 there is no relative step, the executor compares nothing
there, and the theorem says nothing.

### Bounds

- Two handlers suffice for every race on one row: a stale check needs one reader and
  one writer. Two approvals (or payloads, keys, types) let them differ. In the audit
  chain the third transaction waits while the second reads what the first committed.
- `MaxOverlaps = 2` (`Training`): each overlap can take a job back once, two let a job
  be taken back after it passed and again after its second run. Without the bound the
  number of histories grows past what TLC can enumerate, though it stays finite.
- `MaxCrashes`, `MaxWorkerCrashes`, `MaxAborts`, `MaxRestarts`: one of each. What more
  crashes do to the executor's files is proved (`ExecutorProofs`).
- `N = 4` and `PageSize = 3` (`Executor`): one approval is behind the page while all are
  approved. The oldest and the newest are about one parameter, so that one makes the
  other stale or, by setting it to 0, incomparable; the two in between are about devices
  of their own, one whose new value cannot be simulated and one that stands still and
  whose report has no path. Every exception of section 2 happens.
- `MaxGovernance = 1`: one alarm the de-duplication must not take for its own.
- `PageSize = 1` and two commands (`Commands`): the older one is never on the page while
  the newer waits. One key, which requests use or leave out; what races of more
  requests do to rows, answers and events is proved (`CommandsProofs`).
- `TTL = 1`, `InfoTTL = 2` (`ModelService`): an answer may be fresh, half as old as
  allowed or expired when it arrives. Three requests: one holds the lock, one waits for
  the same device and one for the other. Two versions: one can be out of date, and the
  second one is `Oversized` and `Unrenderable`.
- Symmetry is used in `approvals_race` only, which checks invariants.

`CHECK_DEADLOCK FALSE` appears in the executor's run alone: with a torn file it cannot
start again. The other specifications say when they may rest (`Quiescent`), or have
ticks for ever.

### Fairness

- `WF` of a handler's continuation (`Approvals`): an event loop runs every ready
  coroutine. No fairness for arrivals or crashes.
- `SF(Lock)` and `WF` of the other statements (`AuditChain`): PostgreSQL grants a
  heavyweight lock in the order of waiting, and statements end.
- `WF` of each tick (`Commands`, `Training`, `Alarms`): arq starts the cron jobs for
  ever. `WF(Elapse)`: time passes. `WF(Boot)`: a worker that boots gets to its end.
- `WF` of a snapshot's continuation (`ModelService`): `asyncio.Lock` wakes its waiters in
  order, and httpx ends a call that stalls by its timeout (one that trickles on for ever
  is not covered). None for `Pass` and `Deploy`.
- `WF(ExecutorStep)`: `while True` in `main`, and `restart: unless-stopped` for `Start`.
- Crashes, raising ticks and restarts are bounded, so that liveness is claimed after
  the last of them.

## 4. Proofs

Proved by TLAPS for every value of the constants that satisfies the named assumptions
(`ApprovalsAssumption`, `NonNumberAssumption`, `UnhashableAssumption`, `DeployModeAssumption`,
`AuditAssumption`, `CommandsAssumption`, `ModelServiceAssumption`, `AlarmsAssumption`,
`ExecutorAssumption`, `TrainingAssumption`). They say that markers such as `NoOne`,
`Torn` or `Missing` differ from the values they stand beside, that bounds are naturals
and that types are those of the code. Four of their clauses are about the program
rather than the notation: a record of `models.jsonl` has one of the four statuses of
`model_registry_repo.py:34-37`, the generated file is not empty, its versions are not
named like those of jobs (`v1.0.3`, never `v1.0.4-job7`), and a device with the values it
starts with can be simulated and draws a current.

| Module | Theorems | Argument |
|---|---|---|
| `ApprovalsProofs` | `TypeCorrect`, `SeparationHolds`, `AuditTruthHolds`, `EffectsAuthorisedHolds` | `Inv` adds `HandlerInv`: a handler in flight may still decide the row it read, because proposer and proposal of a row never change, and past its decision the log holds its approve entry. Needed because `Decide` relies on checks made in `Read`. |
| | `ActivationsApproved`, `EventsRecorded` | `RegistryInv`: the log's entries name approvals whose proposals stay (`LogIds`), and a handler about to publish has its apply entry (`PromotionInv`). `PromoteFacts` says what promote does to any registry, versions recorded twice included. |
| | `NoSilentFailure` | `AlarmInv` counts: the entry of a failed effect and the handler's move to its alarm are one step, so failures = alarms + handlers about to raise one. |
| | `ImplementsRegister`, `DecidedIsFinal`, `RegistryFollowsAudit`, all under `~Concurrent` | `SerialInv`: at most one handler is in flight and its row is as it read or left it; `Decide` is then a `Decide` of the register, `RecordEffect` a `Settle`. `MatchInv`: the registry agrees with the log but for the scenario of a handler between its effect and its record. |
| `AuditChainProofs` | `AuditTypeCorrect`, `ImplementsLog`, `VerificationsTrue` | `Inv` adds `LockInv` (a transaction past `Lock` holds the lock), `HeadInv` (the head it read is still the head), `RowInv` (its row is newer than every committed one) and `TableInv` (links and contents of the committed rows); `Commit` is then the `Append` of `AuditLog`, every other step a stutter. |
| | `TamperingDetected` | `TableInv` makes every row good; an edited row breaks its own hash, and the removal of a row the link of its successor. Rows before it are unchanged, so it is the first bad one (`FirstBad`). |
| `CommandsProofs` | `CommandsTypeCorrect`, `IdempotentHolds`, `CommandAuditTruth`, `EventsCommittedHolds` | `Inv` adds `HandlerInv` (a row belongs to the request that inserted it), `KeyInv` (an uncommitted row has a key nobody else has or waits to commit) and `TickInv` (what a tick still has to publish has been audited). |
| `TrainingProofs` | `TypeCorrect`, `PassedIsProposed`, `NoShortcut`, `CandidatesAreRegistered`, `RegistryStaysWhole` | `TablesInv`: rows, handlers and ticks know of a job only what its audit trail, which never shrinks, already shows (`Reached`, `ReadyFor`); a stale tick can therefore take a job back but never past a stage. `FilesInv` and `SoundInv`: who has which inode open and what is in it, and that no registry written, read or remembered anywhere has an undecided candidate active. `FileTickInv`, `CandidateWritten` and `CandidateInv` join the two. `FormsKept`: a job keeps its scenario. |
| `AlarmsProofs` | `TypeCorrect`, `AuditIsTruth`, `OneActiveAlarm`, `HandledForGood` | `TickInv`: between the look-up that found no active alarm and the INSERT the set of active alarms can only shrink, as nothing else activates one; what is about to be published was audited (`HandlerInv` for requests). |
| `ExecutorProofs` | `TypeCorrect`, `NothingLost`, `DeviceKeepsReports`, `TriedOncePerCrash` | `PageInv` (a listed status is final or `unsettled`), `DoneInv` (the set in memory holds the one on disk, and everything in either is reported), `TryInv` (a try-out is charged to a crash or to an approval that is not tried again) with `StillInv` and `OriginInv` (where values in memory and on disk come from, so that a reportable try-out raises nowhere after the change), `DeviceInv` (memory, file and verified changes agree except between try-out and save, and for values that cannot be simulated). |
| `ModelServiceProofs` | `TypeCorrect`, `HerdCollapses`, `InfoDated` | `TypeOK` and `HerdCollapsed` need each other: a finished handler takes the head off the queue, which is itself only because nobody else is past the lock. `AnswersDated` (a travelling answer is no more obsolete than it is old) carries the stamps. |
| `PolicyProofs` | `BridgePasses`, `BridgeCannotReturn`, `ExecutedStepBounded`; `ReachedIsEntitled` | About `ProposalBridge` and `TrustBoundary`, which have no state. `RoundedBounds` brackets a rounded quotient, `StepFacts` turns it into linear bounds on the new value and its `delta_pct`, the rest is arithmetic; and a case for each way through `Dispatch` and `Gate`. |

Every invariant and refinement the passing runs check is a theorem, so for those the
bounds of section 3 no longer matter, with three conditions that are part of the
statements: `VerificationsTrue` and `TamperingDetected` hold while stored values come
back as hashed (`RoundTrips`; finding 2 is what happens otherwise), and the three
theorems under `~Concurrent` are about requests that do not overlap. `DecidedIsFinal`
is the counterpart of finding 1: overlap alone makes a decision change. The runs remain
what shows that the properties are not vacuous, and what checked the inductive
invariants before they were proved.

Only model-checked: liveness (`ApprovedGetsEffect`, `WaitersServed`, `Settles`,
`JobSettles`, `EscalationShown`, `Executed`, `Answered`), which is out of the prover's
reach. The four statements that are expected to fail are refuted, not proved.

The proof of `RegistryStaysWhole` corrected the model once: `Overlay` was a `CASE`
whose guards overlapped, which left it to TLC which branch was meant. The proof for
`Executor` had its page stated as a set, of which `Poll` takes the items newest first.

## 5. Not modelled

- Engine reads, integration probes, trends, listings and exports: they read and answer;
  nothing they compute is kept.
- The simulator's files and events other than `models.jsonl`: demonstration data. Plant
  simulation and the L3 gate: floating-point simulation and statistics.
- `reference/`: scripts that train the model off line.
- The append-only triggers of `audit_events`: `EditsDetected` asks what verification
  says of an edit that got past them.
- A write of `models.jsonl` that exceeds the buffer of its file object: contents reach
  the inode when the file is closed. With more than the buffer, colliding saves can tear
  the file in more ways, of which `Torn` stands for each.
- What a `cycle.start` after an unconfirmed `cycle.stop` should do: the rule of
  `is_cycle_running` is modelled (`CheckCycle`), no document says what it is to achieve.

## 6. Plan

Done: all components of section 1 that keep state, the abstract specifications of audit
log and decisions, and a proof of every invariant that is checked. Next:

1. Theorems: what `Commands` guarantees of terminal states when the ticks do not meet on
   a row, as `DecidedIsFinal` does for approvals; the exact set of status changes that
   overlapping handlers of `Approvals`, `Commands` and `Alarms` can make, as action
   properties.
2. Model: a composition of `Training` and `Approvals` over one registry, with the full
   decision protocol in place of `Approve`; an at-least-once executor that `Executor`
   implements.
