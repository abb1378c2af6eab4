---------------------------- MODULE ParamTuning ----------------------------
(***************************************************************************)
(* The five-check chain of app/domain/param_tuning.py, run by the approval *)
(* service after a param_tuning proposal has been approved.                *)
(*                                                                         *)
(* A JSON scalar of the proposal's summary is an integer or NonNumber      *)
(* (a string, a bool, a list, null); an allowed_range that is not a pair   *)
(* has NonNumber bounds.  A param that is a list or an object cannot be    *)
(* looked up in a frozenset: it is Unhashable, the one input on which the  *)
(* chain has no verdict.  delta_pct is in tenths of a percent.             *)
(***************************************************************************)
EXTENDS Integers

CONSTANTS NonNumber, Unhashable

ASSUME NonNumberAssumption == NonNumber \notin Int

PARAM_WHITELIST == {"Kp", "Ki", "Acc"}

MAX_DELTA_PCT == 100

ASSUME UnhashableAssumption == Unhashable \notin PARAM_WHITELIST

SAFE_DEVICE_STATES == {"idle", "normal"}

IsNumber(v) == v # NonNumber

\* Returns "ok", or the name of the first check that fails, in the
\* order whitelist, type, bounds, rate_of_change, device_state; "TypeError"
\* stands for the exception that escapes the whitelist check.
check_param_tuning(s, device_state) ==
    IF s.param = Unhashable
      THEN "TypeError"
    ELSE IF s.param \notin PARAM_WHITELIST
      THEN "whitelist"
    ELSE IF ~(IsNumber(s.new) /\ IsNumber(s.low) /\ IsNumber(s.high))
      THEN "type"
    ELSE IF ~(s.low <= s.new /\ s.new <= s.high)
      THEN "bounds"
    ELSE IF ~IsNumber(s.delta_pct)
      THEN "rate_of_change"
    ELSE IF s.delta_pct > MAX_DELTA_PCT \/ s.delta_pct < -MAX_DELTA_PCT
      THEN "rate_of_change"
    ELSE IF device_state \notin SAFE_DEVICE_STATES
      THEN "device_state"
    ELSE "ok"

============================================================================
