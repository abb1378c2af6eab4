---------------------------- MODULE Permissions ----------------------------
(***************************************************************************)
(* The role -> permission-code table of app/core/permissions.py and the    *)
(* per-type propose / approve codes of the approval workflow.              *)
(* DEPLOY_MODE selects the table at call time; it is fixed for the life of *)
(* a process, so it is a constant here.                                    *)
(***************************************************************************)
CONSTANT DeployMode

ASSUME DeployModeAssumption == DeployMode \in {"full", "lite"}

VALID_ROLES == {"operator", "engineer", "admin"}

APPROVAL_TYPES == {"model_promotion", "scenario_activation", "param_tuning"}

PROPOSE_CODE ==
    [t \in APPROVAL_TYPES |->
        CASE t = "model_promotion"     -> "model.promote.propose"
          [] t = "scenario_activation" -> "scenario.activate.propose"
          [] t = "param_tuning"        -> "param.tune.propose"]

APPROVE_CODE ==
    [t \in APPROVAL_TYPES |->
        CASE t = "model_promotion"     -> "model.promote.approve"
          [] t = "scenario_activation" -> "scenario.activate.approve"
          [] t = "param_tuning"        -> "param.tune.approve"]

ROLE_PERMISSIONS ==
    [operator |-> {"dashboard.read", "trend.read", "cycle.start", "cycle.stop",
                   "mode.switch", "safety.stop_request", "alarm.read",
                   "alarm.ack", "audit.read", "model.read",
                   "maintenance.report"},
     engineer |-> {"dashboard.read", "trend.read", "mode.switch",
                   "safety.stop_request", "alarm.read", "alarm.ack",
                   "audit.read", "model.read", "model.retrain",
                   "maintenance.report", "model.promote.propose",
                   "scenario.activate.propose", "param.tune.propose",
                   "approval.read"},
     admin    |-> {"dashboard.read", "trend.read", "safety.stop_request",
                   "alarm.read", "audit.read", "audit.export",
                   "approval.read", "model.read", "system.settings",
                   "model.promote.approve", "scenario.activate.approve",
                   "param.tune.approve"}]

LITE_ENGINEER_EXTRA == {"model.promote.approve", "param.tune.approve"}

\* _effective_permissions(): the lite topology widens the engineer only.
EffectivePermissions ==
    IF DeployMode = "lite"
      THEN [ROLE_PERMISSIONS EXCEPT !.engineer = @ \cup LITE_ENGINEER_EXTRA]
      ELSE ROLE_PERMISSIONS

has_permission(role, permission) == permission \in EffectivePermissions[role]

============================================================================
