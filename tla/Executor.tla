------------------------------ MODULE Executor ------------------------------
(***************************************************************************)
(* The executor of approved parameter changes: ExecutorLoop and            *)
(* SimExecutor of executor/sim_executor.py under the loop of               *)
(* executor/run_executor.py, a single-threaded process beside the api.     *)
(*                                                                         *)
(* Approvals are the ids of the param_tuning rows, so that a larger id is  *)
(* a newer row.  A slot is a parameter of a device.  Values are levels     *)
(* more than the staleness tolerance apart; 0 is the value whose relative  *)
(* deviation the code does not compute.  Opening a file for writing        *)
(* truncates it: a crash before the contents follow leaves it Torn.        *)
(*                                                                         *)
(* Whatever raises inside poll_once reaches main, which logs it and goes   *)
(* on with the next poll: done stays in memory, _executed.json is not      *)
(* written, and a parameter that was already set stays set in memory.      *)
(***************************************************************************)
EXTENDS Integers, Sequences, FiniteSets, SequencesExt

CONSTANTS
    N,           \* number of param_tuning approvals
    Slots,       \* the parameters of the devices
    Device,      \* the device of each slot
    Unwritable,  \* devices whose name no report can be opened under (it has a '/')
    Fatal,       \* <<slot, value>>: simulating the device raises (an acceleration of 0)
    Still,       \* <<slot, value>>: the simulated device draws no measurable current
    Base,        \* value of every slot before anything is executed
    Slot, Current, New,  \* slot, current and new of each proposal's summary
    PageSize,    \* rows that GET /approvals returns
    Missing,     \* a summary whose current is null
    NonFloat,    \* a current or new that float arithmetic raises on: a current that is
                 \* not a number, an integer too large for a float
    Torn,        \* a file truncated and not written
    MaxCrashes   \* crashes of the executor, a bound

Approvals == 1 .. N

ASSUME ExecutorAssumption ==
    /\ N \in Nat
    /\ PageSize \in Nat \ {0}
    /\ MaxCrashes \in Nat
    /\ Base \in Int
    /\ \A s \in Slots : <<s, Base>> \notin Fatal \cup Still
    /\ Slot \in [Approvals -> Slots]
    /\ New \in [Approvals -> Int \cup {NonFloat}]
    /\ Current \in [Approvals -> Int \cup {Missing, NonFloat}]
    /\ Missing \notin Int
    /\ NonFloat \notin Int \cup {Missing}

Outcomes == {"verified", "rolled_back", "skipped_stale"}

VARIABLES
    effect,     \* approval state and side_effect_status, as the api shows them
    value,      \* SimExecutor.params
    paramFile,  \* sim_device_params.json
    reports,    \* param_verify/{device}_{approval}.json
    done,       \* ExecutorLoop.done
    doneFile,   \* _executed.json
    loop,       \* where poll_once is
    kept,       \* the verified changes written to paramFile
    verified,   \* the last of them for each slot, 0 when there is none
    applies,    \* how often each proposal was set on the device, up to TryLimit
    crashes

vars == <<effect, value, paramFile, reports, done, doneFile, loop, kept, verified, applies, crashes>>

\* What no code keeps: the record of what happened.
ghosts == <<kept, verified, applies, crashes>>

files == <<paramFile, reports, doneFile>>

\* still: the measurement before the change saw no current.
Idle == [pc |-> "idle", todo |-> <<>>, outcome |-> "verified", still |-> FALSE]

Init ==
    /\ effect = [a \in Approvals |-> "undecided"]
    /\ value = [s \in Slots |-> Base]
    /\ paramFile = value
    /\ reports = [a \in Approvals |-> "none"]
    /\ done = {}
    /\ doneFile = {}
    /\ loop = Idle
    /\ kept = {}
    /\ verified = [s \in Slots |-> 0]
    /\ applies = [a \in Approvals |-> 0]
    /\ crashes = 0

----------------------------------------------------------------------------
\* The api approves a proposal, and settles its side effect in a later commit.
Decide(a) ==
    /\ effect[a] = "undecided"
    /\ effect' = [effect EXCEPT ![a] = "unsettled"]
    /\ UNCHANGED <<value, files, done, loop, ghosts>>

Settle(a) ==
    /\ effect[a] = "unsettled"
    /\ \E status \in {"applied", "failed"} : effect' = [effect EXCEPT ![a] = status]
    /\ UNCHANGED <<value, files, done, loop, ghosts>>

----------------------------------------------------------------------------
\* Mutant: the page starts with the oldest rows.
OldestPage ==
    LET approved == {a \in Approvals : effect[a] # "undecided"}
    IN  {a \in approved : Cardinality({b \in approved : b < a}) < PageSize}

\* The newest PageSize approved rows.
Page ==
    LET approved == {a \in Approvals : effect[a] # "undecided"}
    IN  {a \in approved : Cardinality({b \in approved : b > a}) < PageSize}

\* The api's answer: the page, newest first, with the status of now.
Poll ==
    /\ loop.pc = "idle"
    /\ \E ids \in SetToSeqs(Page) :
          /\ \A i, k \in DOMAIN ids : i < k => ids[i] > ids[k]
          /\ loop' = [loop EXCEPT !.pc = "next",
                                  !.todo = [i \in DOMAIN ids |->
                                              [approval |-> ids[i], effect |-> effect[ids[i]]]]]
    /\ UNCHANGED <<effect, value, files, done, ghosts>>

\* The item the poll turns to.
Item == Head(loop.todo)

Turning == loop.pc = "next" /\ loop.todo # <<>>

\* Already executed, or approved with its side effect not settled yet.
Skip ==
    /\ Turning
    /\ Item.approval \in done \/ Item.effect = "unsettled"
    /\ loop' = [loop EXCEPT !.todo = Tail(@)]
    /\ UNCHANGED <<effect, value, files, done, ghosts>>

\* Mutant: whatever is not applied is final, as before the apply window was
\* retried.
ExcludeUnsettled ==
    /\ Turning
    /\ Item.approval \notin done
    /\ Item.effect # "applied"
    /\ done' = done \cup {Item.approval}
    /\ loop' = [loop EXCEPT !.todo = Tail(@)]
    /\ UNCHANGED <<effect, value, files, ghosts>>

\* A side effect that failed is final.
Exclude ==
    /\ Turning
    /\ Item.approval \notin done
    /\ Item.effect \notin {"unsettled", "applied"}
    /\ done' = done \cup {Item.approval}
    /\ loop' = [loop EXCEPT !.todo = Tail(@)]
    /\ UNCHANGED <<effect, value, files, ghosts>>

\* The staleness check compares with the device's value unless that is 0.
Compared(a) == Current[a] # Missing /\ value[Slot[a]] # 0

Stale(a) == Compared(a) /\ Current[a] # value[Slot[a]]

\* Mutant: a proposal is executed before its five checks are settled.
ExecutesUnsettled ==
    Turning /\ Item.approval \notin done /\ Item.effect \in {"unsettled", "applied"}

Executes == Turning /\ Item.approval \notin done /\ Item.effect = "applied"

\* Does one of the parameters f of device d have a value of this set?
HasValueOf(set, f, d) == \E s \in Slots : Device[s] = d /\ <<s, f[s]>> \in set

ItsDevice(a) == Device[Slot[a]]

\* What raises before anything is changed: the comparison with current,
\* float(new) in either branch, the measurement of a device that cannot be
\* simulated as it is.
CannotStart(a) ==
    \/ Compared(a) /\ Current[a] = NonFloat
    \/ New[a] = NonFloat
    \/ ~Stale(a) /\ HasValueOf(Fatal, value, ItsDevice(a))

Raises ==
    /\ Executes
    /\ CannotStart(Item.approval)
    /\ loop' = Idle
    /\ UNCHANGED <<effect, value, files, done, ghosts>>

Refuse ==
    /\ Executes
    /\ ~CannotStart(Item.approval)
    /\ Stale(Item.approval)
    /\ loop' = [loop EXCEPT !.pc = "report", !.outcome = "skipped_stale", !.still = FALSE]
    /\ UNCHANGED <<effect, value, files, done, ghosts>>

\* A try-out is counted up to TryLimit, which is more than TriedOnce allows.
TryLimit == MaxCrashes + 2

Counted(a) == [applies EXCEPT ![a] = IF @ < TryLimit THEN @ + 1 ELSE @]

\* The parameters once p[param] has been set.
Changed(a) == [value EXCEPT ![Slot[a]] = New[a]]

StartsTryOut(a) == Executes /\ ~CannotStart(a) /\ ~Stale(a)

\* Mutant: a regression is reported and the parameter left as it is.
ApplyWithoutRollback ==
    LET a == Item.approval
    IN  /\ StartsTryOut(a)
        /\ ~HasValueOf(Fatal, Changed(a), ItsDevice(a))
        /\ applies' = Counted(a)
        /\ value' = Changed(a)
        /\ \E outcome \in {"verified", "rolled_back"} :
              loop' = [loop EXCEPT !.pc = "save", !.outcome = outcome,
                                   !.still = HasValueOf(Still, value, ItsDevice(a))]
        /\ UNCHANGED <<effect, files, done, kept, verified, crashes>>

\* apply_and_verify up to its verdict: measured before and after on the
\* simulated plant, whose verdict is either one; a regression restores the old value.
Apply ==
    LET a == Item.approval
    IN  /\ StartsTryOut(a)
        /\ ~HasValueOf(Fatal, Changed(a), ItsDevice(a))
        /\ applies' = Counted(a)
        /\ \E outcome \in {"verified", "rolled_back"} :
              /\ value' = IF outcome = "verified" THEN Changed(a) ELSE value
              /\ loop' = [loop EXCEPT !.pc = "save", !.outcome = outcome,
                                      !.still = HasValueOf(Still, value, ItsDevice(a))]
        /\ UNCHANGED <<effect, files, done, kept, verified, crashes>>

\* The measurement after the change raises: nothing is rolled back or saved,
\* the value stays in memory until the next save of any device or a crash.
Abandon ==
    LET a == Item.approval
    IN  /\ StartsTryOut(a)
        /\ HasValueOf(Fatal, Changed(a), ItsDevice(a))
        /\ applies' = Counted(a)
        /\ value' = Changed(a)
        /\ loop' = Idle
        /\ UNCHANGED <<effect, files, done, kept, verified, crashes>>

\* _save, for both verdicts and for all devices.
OpenParams ==
    /\ loop.pc = "save"
    /\ paramFile' = Torn
    /\ loop' = [loop EXCEPT !.pc = "saving"]
    /\ UNCHANGED <<effect, value, reports, done, doneFile, ghosts>>

WriteParams ==
    /\ loop.pc = "saving"
    /\ paramFile' = value
    /\ IF loop.outcome = "verified"
         THEN /\ kept' = kept \cup {Item.approval}
              /\ verified' = [verified EXCEPT ![Slot[Item.approval]] = Item.approval]
         ELSE UNCHANGED <<kept, verified>>
    /\ loop' = [loop EXCEPT !.pc = "report"]
    /\ UNCHANGED <<effect, value, reports, done, doneFile, applies, crashes>>

\* What raises after the change is on disk: peak_current_delta_pct divides by
\* the current of before, and a report whose path is no file cannot be opened.
CannotReport(a) == loop.still \/ ItsDevice(a) \in Unwritable

ReportRaises ==
    /\ loop.pc = "report"
    /\ CannotReport(Item.approval)
    /\ loop' = Idle
    /\ UNCHANGED <<effect, value, files, done, ghosts>>

OpenReport ==
    /\ loop.pc = "report"
    /\ ~CannotReport(Item.approval)
    /\ reports' = [reports EXCEPT ![Item.approval] = "torn"]
    /\ loop' = [loop EXCEPT !.pc = "reporting"]
    /\ UNCHANGED <<effect, value, paramFile, done, doneFile, ghosts>>

\* Mutant: a proposal that was rolled back stays eligible.
WriteReportRetry ==
    /\ loop.pc = "reporting"
    /\ reports' = [reports EXCEPT ![Item.approval] = loop.outcome]
    /\ done' = IF loop.outcome = "rolled_back" THEN done ELSE done \cup {Item.approval}
    /\ loop' = [loop EXCEPT !.pc = "next", !.todo = Tail(@), !.still = FALSE]
    /\ UNCHANGED <<effect, value, paramFile, doneFile, ghosts>>

WriteReport ==
    /\ loop.pc = "reporting"
    /\ reports' = [reports EXCEPT ![Item.approval] = loop.outcome]
    /\ done' = done \cup {Item.approval}
    /\ loop' = [loop EXCEPT !.pc = "next", !.todo = Tail(@), !.still = FALSE]
    /\ UNCHANGED <<effect, value, paramFile, doneFile, ghosts>>

\* The poll ends with the set of executed approvals.
OpenDone ==
    /\ loop.pc = "next"
    /\ loop.todo = <<>>
    /\ doneFile' = Torn
    /\ loop' = [loop EXCEPT !.pc = "finish"]
    /\ UNCHANGED <<effect, value, paramFile, reports, done, ghosts>>

WriteDone ==
    /\ loop.pc = "finish"
    /\ doneFile' = done
    /\ loop' = Idle
    /\ UNCHANGED <<effect, value, paramFile, reports, done, ghosts>>

----------------------------------------------------------------------------
Crash ==
    /\ loop.pc # "down"
    /\ crashes < MaxCrashes
    /\ crashes' = crashes + 1
    /\ loop' = [Idle EXCEPT !.pc = "down"]
    /\ UNCHANGED <<effect, value, files, done, kept, verified, applies>>

\* The constructors decode both files and raise when one is torn.
Start ==
    /\ loop.pc = "down"
    /\ paramFile # Torn
    /\ doneFile # Torn
    /\ value' = paramFile
    /\ done' = doneFile
    /\ loop' = Idle
    /\ UNCHANGED <<effect, files, ghosts>>

ExecutorStep ==
    \/ Poll \/ Skip \/ Exclude \/ Raises \/ Refuse \/ Apply \/ Abandon
    \/ OpenParams \/ WriteParams \/ ReportRaises \/ OpenReport \/ WriteReport
    \/ OpenDone \/ WriteDone
    \/ Start

Next ==
    \/ \E a \in Approvals : Decide(a) \/ Settle(a)
    \/ ExecutorStep
    \/ Crash

Spec == Init /\ [][Next]_vars

\* The loop runs for ever and is restarted after a crash (restart:
\* unless-stopped); the api owes nothing.
FairSpec == Spec /\ WF_vars(ExecutorStep)

----------------------------------------------------------------------------
\* Files, sets and the poll hold values of their types; a poll that writes has
\* an approved and applied item at hand.
TypeOK ==
    /\ effect \in [Approvals -> {"undecided", "unsettled", "applied", "failed"}]
    /\ value \in [Slots -> Int]
    /\ verified \in [Slots -> Approvals \cup {0}]
    /\ paramFile = Torn \/ paramFile \in [Slots -> Int]
    /\ reports \in [Approvals -> Outcomes \cup {"none", "torn"}]
    /\ done \in SUBSET Approvals
    /\ doneFile = Torn \/ doneFile \in SUBSET Approvals
    /\ loop.pc \in {"down", "idle", "next", "save", "saving", "report", "reporting", "finish"}
    /\ loop.outcome \in Outcomes
    /\ \A i \in DOMAIN loop.todo :
          loop.todo[i].approval \in Approvals /\ effect[loop.todo[i].approval] # "undecided"
    /\ loop.pc \in {"save", "saving", "report", "reporting"} =>
          loop.todo # <<>> /\ effect[Item.approval] = "applied"

Reported(a) == reports[a] \in Outcomes

\* No approval is lost in the apply window: what the executor remembers for good
\* as executed is settled, and if it was applied there is a complete report on
\* it, whatever crashes cut a poll short (poll_once persists the set last).
DoneIsReported ==
    doneFile # Torn =>
        \A a \in doneFile : effect[a] = "failed" \/ (effect[a] = "applied" /\ Reported(a))

\* The value of slot s after its last verified change in v.
Promised(v, s) == IF v[s] = 0 THEN Base ELSE New[v[s]]

\* The parameters f are the verified ones, but for values that cannot be measured.
InForce(f, v) == \A s \in Slots : f[s] = Promised(v, s) \/ <<s, f[s]>> \in Fatal

\* The device keeps what the reports say: a report of a verified change is only
\* written after the change is on disk, and unless a write was cut short every
\* parameter on disk is the one of its last verified change, so that a roll-back
\* or a restart never leaves anything else in force.  Only a value the device
\* cannot be simulated with, left in memory by the exception and saved with
\* another device's change, gets to the disk without a verdict.
DeviceMatchesReports ==
    /\ \A a \in Approvals : reports[a] = "verified" => a \in kept
    /\ paramFile # Torn => InForce(paramFile, verified)

\* Trying a out ends in a report: its own value can be simulated, the report has
\* a path, and no proposal brings its device to a standstill.
Reportable(a) ==
    /\ <<Slot[a], New[a]>> \notin Fatal
    /\ ItsDevice(a) \notin Unwritable
    /\ \A c \in Approvals : ItsDevice(c) = ItsDevice(a) => <<Slot[c], New[c]>> \notin Still

\* A reportable proposal is tried out on the device once, and once more for every
\* crash before the poll was over, also while other items make every poll raise.
\* (One that is not reportable is tried out again in every poll.)
TriedOnce == \A a \in Approvals : Reportable(a) => applies[a] <= 1 + crashes

\* Executing b raises nowhere.
Executable(b) ==
    /\ NonFloat \notin {Current[b], New[b]}
    /\ Reportable(b)
    /\ \A c \in Approvals : ItsDevice(c) = ItsDevice(b) => <<Slot[c], New[c]>> \notin Fatal

\* Nothing keeps the executor from getting at a: it is on the page whatever else
\* is approved, and no item up to it makes the poll raise.
Accessible(a) ==
    /\ N - a < PageSize
    /\ \A b \in a .. N : Executable(b)

\* Every accessible approval that is applied is executed or refused with a
\* report, also when older items make every poll raise, unless a crash tore a
\* file the executor needs to start.
Executed ==
    \A a \in Approvals :
        Accessible(a) /\ effect[a] = "applied" ~>
            Reported(a) \/ (loop.pc = "down" /\ Torn \in {paramFile, doneFile})

============================================================================
