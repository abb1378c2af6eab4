------------------------------ MODULE Training ------------------------------
(***************************************************************************)
(* Training jobs: app/services/training_service.py behind                  *)
(* app/routers/governance/training.py, and the cron job                    *)
(* advance_training_jobs of worker/tasks.py; the candidates they leave in  *)
(* models.jsonl and the promotions they propose, up to the approval that   *)
(* makes a candidate active.                                               *)
(*                                                                         *)
(* A tick SELECTs the active jobs and advances one after another, each     *)
(* from the status its session loaded.  Ticks overlap when one takes       *)
(* longer than the 3 seconds to the next; cancel requests run in the api   *)
(* process.  The version of a job's candidate is named after the job.      *)
(* models.jsonl is the file of RegistryFile, shared by both processes.     *)
(***************************************************************************)
EXTENDS Naturals, Sequences, FiniteSets, RegistryFile

CONSTANTS
    Jobs,           \* training jobs
    Cancels,        \* POST /training/jobs/{id}/cancel requests
    Ticks,          \* overlapping runs of advance_training_jobs
    Scenario,       \* scenario of the jobs
    IllFormed,      \* a scenario_id of another form, which the router lets through
    InitialModels,  \* models.jsonl as the simulator generates it
    FileMayMiss,    \* may models.jsonl be missing when a candidate is added?
    MaxAborts,      \* ticks that raise, a bound
    MaxRestarts,    \* restarts of the worker, a bound
    MaxOverlaps,    \* ticks that start while another one runs, a bound
    Nothing         \* no job, no approval

\* A record of models.jsonl: of a generated model, or of the candidate of a job.
ModelRecord ==
    [scenario_id : {Scenario} \cup {InitialModels[i].scenario_id : i \in DOMAIN InitialModels},
     version : Jobs \cup {InitialModels[i].version : i \in DOMAIN InitialModels},
     status : MODEL_STATUSES]

\* The generated models are not named after jobs (v1.0.3, not v1.0.4-job7).
ASSUME TrainingAssumption ==
    /\ InitialModels \in Seq(ModelRecord) \ {<<>>}
    /\ \A i \in DOMAIN InitialModels : InitialModels[i].version \notin Jobs
    /\ \A contents \in {Torn, Missing, Unread} : contents \notin Seq(ModelRecord)
    /\ Torn \notin {Missing, Unread}
    /\ Missing # Unread
    /\ FileMayMiss \in BOOLEAN
    /\ MaxAborts \in Nat
    /\ MaxRestarts \in Nat
    /\ MaxOverlaps \in Nat
    /\ Nothing \notin Jobs
    /\ IllFormed # Scenario

JOB_STATES == {"queued", "running", "evaluating", "shadow", "passed", "failed", "cancelled"}

TERMINAL_STATES == {"passed", "failed", "cancelled"}

\* Mutant: a job that ran goes to shadow without an evaluation.
SkipEvaluation == [queued |-> "running", running |-> "shadow",
                   evaluating |-> "shadow", shadow |-> "passed"]

next_happy == [queued |-> "running", running |-> "evaluating",
               evaluating |-> "shadow", shadow |-> "passed"]

VARIABLES
    rows,       \* the training_jobs table
    audit,      \* results audited for each job, oldest first
    approvals,  \* model_promotion approvals the jobs proposed, oldest first
    req,        \* handlers of cancel
    tick,       \* the worker's ticks
    lost,       \* was models.jsonl missing, regenerated or overwritten?
    aborts, restarts, overlaps  \* what is bounded so far

vars == <<rows, audit, approvals, req, tick, lost, aborts, restarts, overlaps, fileVars>>

NoRow == [status |-> "absent", scenario |-> Scenario, version |-> Nothing, approval |-> 0]

IdleTick == [pc |-> "idle", todo |-> {}, job |-> Nothing, target |-> "absent", approval |-> 0]

Init ==
    /\ rows = [j \in Jobs |-> NoRow]
    /\ audit = [j \in Jobs |-> <<>>]
    /\ approvals = <<>>
    /\ FileInit(InitialModels)
    /\ req = [c \in Cancels |-> [pc |-> "new", job |-> Nothing]]
    /\ tick = [k \in Ticks |-> IdleTick]
    /\ lost = FALSE
    /\ aborts = 0
    /\ restarts = 0
    /\ overlaps = 0

Exists(j) == rows[j].status # "absent"

\* is_wellformed_scenario, which the registry asks before it reads the file.
WellFormed(j) == rows[j].scenario # IllFormed

Audited(j, result) == audit' = [audit EXCEPT ![j] = Append(@, result)]

----------------------------------------------------------------------------
\* create: the INSERT and its audit row commit together, whatever string the
\* scenario_id is.
Create(j) ==
    /\ ~Exists(j)
    /\ \E s \in {Scenario, IllFormed} :
          rows' = [rows EXCEPT ![j] = [@ EXCEPT !.status = "queued", !.scenario = s]]
    /\ Audited(j, "queued")
    /\ UNCHANGED <<approvals, req, tick, lost, aborts, restarts, overlaps, fileVars>>

\* Mutant: a job that is not found is not told from one that may be cancelled.
ReadCancelUnchecked(c, j) ==
    /\ req[c].pc = "new"
    /\ req' = [req EXCEPT ![c] =
                 [pc |-> IF rows[j].status \notin TERMINAL_STATES THEN "cancel" ELSE "done",
                  job |-> j]]
    /\ UNCHANGED <<rows, audit, approvals, tick, lost, aborts, restarts, overlaps, fileVars>>

\* cancel: the SELECT and the check of the status it returned (404, 409).
ReadCancel(c, j) ==
    /\ req[c].pc = "new"
    /\ req' = [req EXCEPT ![c] =
                 [pc |-> IF Exists(j) /\ rows[j].status \notin TERMINAL_STATES
                           THEN "cancel" ELSE "done",
                  job |-> j]]
    /\ UNCHANGED <<rows, audit, approvals, tick, lost, aborts, restarts, overlaps, fileVars>>

\* The UPDATE, keyed by the row only, and the audit row.
CommitCancel(c) ==
    /\ req[c].pc = "cancel"
    /\ rows' = [rows EXCEPT ![req[c].job] = [@ EXCEPT !.status = "cancelled"]]
    /\ Audited(req[c].job, "cancelled")
    /\ req' = [req EXCEPT ![c].pc = "done"]
    /\ UNCHANGED <<approvals, tick, lost, aborts, restarts, overlaps, fileVars>>

----------------------------------------------------------------------------
\* arq starts a tick every 3 seconds, whether or not the last one has ended.
Starts(k) ==
    IF \A l \in Ticks : tick[l].pc = "idle"
      THEN UNCHANGED overlaps
      ELSE overlaps < MaxOverlaps /\ overlaps' = overlaps + 1

\* Mutant: the list forgets the jobs in shadow.
ListWithoutShadow(k) ==
    /\ tick[k].pc = "idle"
    /\ Starts(k)
    /\ tick' = [tick EXCEPT ![k] =
                  [IdleTick EXCEPT !.pc = "next",
                                   !.todo = {[job |-> j, status |-> rows[j].status] :
                                                j \in {i \in Jobs : rows[i].status \in
                                                         {"queued", "running", "evaluating"}}}]]
    /\ UNCHANGED <<rows, audit, approvals, req, lost, aborts, restarts, fileVars>>

\* active_jobs: the jobs that are not terminal, with the status they have now.
\* (Its limit of 100 is left out: the list is oldest first and the oldest jobs
\* are the ones that leave it.)
ListJobs(k) ==
    LET active == {j \in Jobs : Exists(j) /\ rows[j].status \notin TERMINAL_STATES}
    IN  /\ tick[k].pc = "idle"
        /\ Starts(k)
        /\ tick' = [tick EXCEPT ![k] =
                      [IdleTick EXCEPT !.pc = "next",
                                       !.todo = {[job |-> j, status |-> rows[j].status] :
                                                    j \in active}]]
        /\ UNCHANGED <<rows, audit, approvals, req, lost, aborts, restarts, fileVars>>

TickDone(k) ==
    /\ tick[k].pc = "next"
    /\ tick[k].todo = {}
    /\ tick' = [tick EXCEPT ![k] = IdleTick]
    /\ UNCHANGED <<rows, audit, approvals, req, lost, aborts, restarts, overlaps, fileVars>>

\* The tick turns to an item of its list, on its way to the next state.
Turns(k, item, pc, target, approval) ==
    /\ tick[k].pc = "next"
    /\ item \in tick[k].todo
    /\ next_happy[item.status] = target
    /\ tick' = [tick EXCEPT ![k] = [pc |-> pc,
                                    todo |-> tick[k].todo \ {item},
                                    job |-> item.job,
                                    target |-> target,
                                    approval |-> approval]]

\* advance to running or evaluating: nothing happens before the record.
Progress(k, item) ==
    /\ Turns(k, item, "record", "running", 0) \/ Turns(k, item, "record", "evaluating", 0)
    /\ UNCHANGED <<rows, audit, approvals, req, lost, aborts, restarts, overlaps, fileVars>>

\* Mutant: the candidate is registered by the step that proposes it.
EnterShadowLater(k, item) ==
    /\ Turns(k, item, "record", "shadow", 0)
    /\ UNCHANGED <<rows, audit, approvals, req, lost, aborts, restarts, overlaps, fileVars>>

(***************************************************************************)
(* _enter_shadow: add_shadow reads the file ... A missing file and an      *)
(* ill-formed scenario (refused before the file is looked at) are only     *)
(* logged, the job goes on without a candidate.                            *)
(***************************************************************************)
EnterShadow(k, item) ==
    /\ \/ /\ WellFormed(item.job)
          /\ Turns(k, item, "file", "shadow", 0)
          /\ ReadAll("worker")
          /\ UNCHANGED lost
       \/ /\ FileMayMiss /\ WellFormed(item.job)
          /\ Turns(k, item, "record", "shadow", 0)
          /\ lost' = TRUE
          /\ UNCHANGED fileVars
       \/ /\ ~WellFormed(item.job)
          /\ Turns(k, item, "record", "shadow", 0)
          /\ UNCHANGED <<lost, fileVars>>
    /\ UNCHANGED <<rows, audit, approvals, req, aborts, restarts, overlaps>>

\* ... writes it with the candidate into the temporary file ...
SaveShadow(k) ==
    /\ tick[k].pc = "file"
    /\ \/ OpenTmp("worker")
       \/ CloseTmp("worker", add_shadow(file["worker"].seen, Scenario, tick[k].job))
    /\ UNCHANGED <<rows, audit, approvals, req, tick, lost, aborts, restarts, overlaps>>

\* A save takes effect; what the other process wrote since the reading is gone.
TakesEffect(p) ==
    /\ Replace(p)
    /\ lost' = (lost \/ collided \/ path # file[p].seen)

\* ... and renames it, before the new status is committed; or the tick raises.
FinishShadow(k) ==
    /\ tick[k].pc = "file"
    /\ \/ TakesEffect("worker") /\ tick' = [tick EXCEPT ![k].pc = "record"]
       \/ ReplaceFails("worker") /\ tick' = [tick EXCEPT ![k] = IdleTick] /\ UNCHANGED lost
    /\ UNCHANGED <<rows, audit, approvals, req, aborts, restarts, overlaps>>

(***************************************************************************)
(* A file that cannot be decoded raises in add_shadow, and in the look-up  *)
(* of the active version for a proposal: JSONDecodeError is not a          *)
(* ModelRegistryError.  The rest of the list is dropped with the job.      *)
(***************************************************************************)
Undecodable(k, item) ==
    /\ tick[k].pc = "next"
    /\ next_happy[item.status] \in {"shadow", "passed"}
    /\ WellFormed(item.job) /\ path = Torn
    /\ tick' = [tick EXCEPT ![k] = IdleTick]
    /\ UNCHANGED <<rows, audit, approvals, req, lost, aborts, restarts, overlaps, fileVars>>

\* Mutant: the new status is committed before the approval is inserted, which a
\* failure in between then prevents.
SpawnWithoutStatus(k, item) ==
    /\ Turns(k, item, "record", "passed", Len(approvals) + 1)
    /\ rows' = [rows EXCEPT ![item.job] = [@ EXCEPT !.status = "passed"]]
    /\ UNCHANGED <<audit, approvals, req, lost, aborts, restarts, overlaps, fileVars>>

(***************************************************************************)
(* _spawn_promotion_approval: propose flushes the job's new status with    *)
(* the approval's INSERT and commits both; approval_id and the audit row   *)
(* of the progress follow in a second transaction.                         *)
(***************************************************************************)
SpawnApproval(k, item) ==
    /\ Turns(k, item, "record", "passed", Len(approvals) + 1)
    /\ WellFormed(item.job) => path # Torn
    /\ approvals' = Append(approvals, [job |-> item.job, state |-> "pending"])
    /\ rows' = [rows EXCEPT ![item.job] = [@ EXCEPT !.status = "passed"]]
    /\ UNCHANGED <<audit, req, lost, aborts, restarts, overlaps, fileVars>>

\* What the record of this step still has to write of the job.
RecordedRow(row, q) ==
    CASE q.target = "passed" -> [row EXCEPT !.approval = q.approval]
      [] q.target = "shadow" -> [row EXCEPT !.status = "shadow", !.version = q.job]
      [] OTHER               -> [row EXCEPT !.status = q.target]

\* AuditService.record of the progress: UPDATE, audit row and COMMIT.
Record(k) ==
    LET q == tick[k]
    IN  /\ q.pc = "record"
        /\ rows' = [rows EXCEPT ![q.job] = RecordedRow(@, q)]
        /\ Audited(q.job, q.target)
        /\ tick' = [tick EXCEPT ![k] = [IdleTick EXCEPT !.pc = "next", !.todo = q.todo]]
        /\ UNCHANGED <<approvals, req, lost, aborts, restarts, overlaps, fileVars>>

\* The tick raises (a deadlock with a cancel, a file it cannot write): its
\* session is rolled back and the rest of its list is dropped.
Abort(k) ==
    /\ tick[k].pc # "idle"
    /\ tick[k].pc = "file" \/ Free("worker")
    /\ CloseAll("worker")
    /\ aborts < MaxAborts
    /\ aborts' = aborts + 1
    /\ tick' = [tick EXCEPT ![k] = IdleTick]
    /\ UNCHANGED <<rows, audit, approvals, req, lost, restarts, overlaps>>

\* The worker dies and boots: its ticks are gone, and in mock mode _on_startup
\* generates models.jsonl anew, in place.
Restart ==
    /\ restarts < MaxRestarts
    /\ restarts' = restarts + 1
    /\ tick' = [k \in Ticks |-> IdleTick]
    /\ Truncate("worker")
    /\ lost' = TRUE
    /\ UNCHANGED <<rows, audit, approvals, req, aborts, overlaps>>

Boot ==
    /\ Generate("worker", InitialModels)
    /\ UNCHANGED <<rows, audit, approvals, req, tick, lost, aborts, restarts, overlaps>>

(***************************************************************************)
(* The approval of a proposal, seen from here: _apply_model_promotion      *)
(* refuses an ill-formed scenario, or reads the file; it finds no such     *)
(* version, cannot decode it, or goes on to save it (see Approvals for the *)
(* workflow).                                                              *)
(***************************************************************************)
Approve(i) ==
    /\ approvals[i].state = "pending"
    /\ IF /\ WellFormed(approvals[i].job) /\ path # Torn
          /\ CanPromote(path, Scenario, approvals[i].job)
         THEN ReadAll("api") /\ approvals' = [approvals EXCEPT ![i].state = "applying"]
         ELSE approvals' = [approvals EXCEPT ![i].state = "approved"] /\ UNCHANGED fileVars
    /\ UNCHANGED <<rows, audit, req, tick, lost, aborts, restarts, overlaps>>

SavePromotion(i) ==
    /\ approvals[i].state = "applying"
    /\ \/ OpenTmp("api")
       \/ CloseTmp("api", Promote(file["api"].seen, Scenario, approvals[i].job))
    /\ UNCHANGED <<rows, audit, approvals, req, tick, lost, aborts, restarts, overlaps>>

\* The promotion takes effect, or the handler fails and the decision stays.
FinishPromotion(i) ==
    /\ approvals[i].state = "applying"
    /\ TakesEffect("api") \/ (ReplaceFails("api") /\ UNCHANGED lost)
    /\ approvals' = [approvals EXCEPT ![i].state = "approved"]
    /\ UNCHANGED <<rows, audit, req, tick, aborts, restarts, overlaps>>

\* The api dies: a decision it was applying stays without an effect.
RestartApi ==
    /\ restarts < MaxRestarts
    /\ \E i \in DOMAIN approvals : approvals[i].state = "applying"
    /\ restarts' = restarts + 1
    /\ CloseAll("api")
    /\ approvals' = [i \in DOMAIN approvals |->
                        IF approvals[i].state = "applying"
                          THEN [approvals[i] EXCEPT !.state = "approved"] ELSE approvals[i]]
    /\ req' = [c \in Cancels |-> IF req[c].pc = "cancel" THEN [req[c] EXCEPT !.pc = "done"]
                                 ELSE req[c]]
    /\ UNCHANGED <<rows, audit, tick, lost, aborts, overlaps>>

----------------------------------------------------------------------------
TickStep(k) ==
    \/ SaveShadow(k) \/ FinishShadow(k)
    \/ /\ Free("worker")
       /\ \/ ListJobs(k) \/ TickDone(k) \/ Record(k)
          \/ \E item \in tick[k].todo :
                \/ Progress(k, item) \/ EnterShadow(k, item) \/ SpawnApproval(k, item)
                \/ Undecodable(k, item)

ApiStep ==
    \/ \E j \in Jobs : Create(j)
    \/ \E c \in Cancels : CommitCancel(c) \/ \E j \in Jobs : ReadCancel(c, j)
    \/ \E i \in DOMAIN approvals : Approve(i)

Next ==
    \/ Free("api") /\ ApiStep
    \/ \E i \in DOMAIN approvals : SavePromotion(i) \/ FinishPromotion(i)
    \/ \E k \in Ticks : TickStep(k) \/ Abort(k)
    \/ Restart
    \/ Boot
    \/ RestartApi

Spec == Init /\ [][Next]_vars

\* arq fires the cron job for ever and runs what it started.
FairSpec == Spec /\ WF_vars(Boot) /\ \A k \in Ticks : WF_vars(TickStep(k))

----------------------------------------------------------------------------
Row == [status : JOB_STATES \cup {"absent"}, scenario : {Scenario, IllFormed},
        version : Jobs \cup {Nothing}, approval : Nat]

Item == [job : Jobs, status : JOB_STATES \ TERMINAL_STATES]

Tick == [pc : {"idle", "next", "file", "record"},
         todo : SUBSET Item,
         job : Jobs \cup {Nothing},
         target : JOB_STATES \cup {"absent"},
         approval : Nat]

\* Tables, handlers and ticks hold values of their types; work in hand is on
\* jobs that exist.
TypeOK ==
    /\ rows \in [Jobs -> Row]
    /\ audit \in [Jobs -> Seq(JOB_STATES)]
    /\ approvals \in Seq([job : Jobs, state : {"pending", "applying", "approved"}])
    /\ req \in [Cancels -> [pc : {"new", "cancel", "done"}, job : Jobs \cup {Nothing}]]
    /\ tick \in [Ticks -> Tick]
    /\ \A c \in Cancels : req[c].pc = "cancel" => req[c].job \in Jobs /\ Exists(req[c].job)
    /\ \A k \in Ticks :
          /\ \A item \in tick[k].todo : Exists(item.job)
          /\ tick[k].pc \in {"file", "record"} => tick[k].job \in Jobs /\ Exists(tick[k].job)

\* A job is shown as passed only together with the promotion it proposed: no
\* crash, failure or overlap leaves a passed job, which no tick looks at any
\* more, without an approval to decide; and the approval a job links to is its
\* own (advance to passed commits in two transactions).
PassedHasApproval ==
    \A j \in Jobs :
        /\ rows[j].status = "passed" => \E i \in DOMAIN approvals : approvals[i].job = j
        /\ rows[j].approval # 0 =>
              /\ rows[j].approval \in DOMAIN approvals
              /\ approvals[rows[j].approval].job = j

\* The results of one pass through the pipeline appear in order.
WentThrough(j) ==
    \E a, b, c \in DOMAIN audit[j] :
        /\ a < b /\ b < c
        /\ audit[j][a] = "running"
        /\ audit[j][b] = "evaluating"
        /\ audit[j][c] = "shadow"

\* No shortcut to production: whatever ticks, cancels, failures and restarts
\* interleave, a promotion is only proposed for, and a trained version only
\* active of, a job whose audit trail shows running, evaluating and shadow in
\* this order.
PipelineHonoured ==
    /\ \A i \in DOMAIN approvals : WentThrough(approvals[i].job)
    /\ path # Torn =>
          \A m \in DOMAIN path :
             path[m].status = "active" /\ path[m].version \in Jobs =>
                \E i \in DOMAIN approvals :
                   approvals[i].job = path[m].version /\ approvals[i].state # "pending"

\* As long as models.jsonl is neither missing nor regenerated, and neither
\* process overwrote what the other one wrote, a promotion proposed for a
\* well-formed scenario can be applied: the candidate it names is in the
\* registry (_enter_shadow writes the file before the status is committed).
\* Named exception: the job of an ill-formed scenario passes and proposes a
\* version the registry has never held.
CandidateRegistered ==
    ~lost => \A i \in DOMAIN approvals :
                WellFormed(approvals[i].job) => CanPromote(path, Scenario, approvals[i].job)

\* Every job settles: although an overlapping tick or a late cancel may take it
\* out of a terminal status again, it is in one for ever from some point on -
\* unless two colliding saves have left models.jsonl undecodable for ever.
JobSettles ==
    \A j \in Jobs :
        Exists(j) ~> ([](rows[j].status \in TERMINAL_STATES) \/ [](collided /\ path = Torn))

============================================================================
