--------------------------- MODULE ModelRegistry ---------------------------
(***************************************************************************)
(* What ModelRegistryFileRepository computes on the contents of            *)
(* Stage5_Output/models.jsonl: a registry is the sequence of the file's    *)
(* records.  Nothing stops two records from naming the same version        *)
(* (add_shadow appends without looking), so it is a sequence and not a     *)
(* function.  Hashes, metrics and training dates play no part.             *)
(***************************************************************************)
EXTENDS Naturals, Sequences, SequencesExt

MODEL_STATUSES == {"active", "shadow", "rolled_back", "archived"}

Model(scenario, version, status) ==
    [scenario_id |-> scenario, version |-> version, status |-> status]

\* Index of the first record of this version, 0 if there is none.
TargetIndex(models, scenario, version) ==
    SelectInSeq(models,
        LAMBDA r : r.scenario_id = scenario /\ r.version = version)

\* promote(): ModelRegistryError when the version is absent ...
CanPromote(models, scenario, version) ==
    TargetIndex(models, scenario, version) # 0

\* Mutant: the outgoing active version is not demoted.
PromoteOnly(models, scenario, version) ==
    LET target == TargetIndex(models, scenario, version)
    IN  [models EXCEPT ![target].status = "active"]

\* ... otherwise every other active record of the scenario is demoted.
Promote(models, scenario, version) ==
    LET target == TargetIndex(models, scenario, version)
    IN  [i \in DOMAIN models |->
            IF i = target
              THEN [models[i] EXCEPT !.status = "active"]
            ELSE IF models[i].scenario_id = scenario /\ models[i].status = "active"
              THEN [models[i] EXCEPT !.status = "archived"]
            ELSE models[i]]

add_shadow(models, scenario, version) ==
    Append(models, Model(scenario, version, "shadow"))

ActiveIndices(models, scenario) ==
    {i \in DOMAIN models :
        models[i].scenario_id = scenario /\ models[i].status = "active"}

============================================================================
