--------------------------- MODULE ProposalBridge ---------------------------
(***************************************************************************)
(* The bridge from a diagnosis to a parameter proposal, executor/          *)
(* param_proposal_bridge.py, and what the approval workflow and the        *)
(* executor make of its proposals.                                         *)
(*                                                                         *)
(* Parameter values are integers in units of 1/1000, the precision a       *)
(* truncated step is rounded to; delta_pct is in tenths of a percent, the  *)
(* precision the bridge rounds it to.                                      *)
(***************************************************************************)
EXTENDS Integers, ParamTuning

\* The nearest integer to n / d.
Rounded(n, d) == (2 * n + d) \div (2 * d)

DEFAULT_BOUNDS == [Kp  |-> [low |-> 10000,  high |-> 30000],
                   Ki  |-> [low |-> 20000,  high |-> 120000],
                   Acc |-> [low |-> 200000, high |-> 800000]]

MAX_STEP_PCT == 100

Clamped(target, b) ==
    IF target > b.high THEN b.high ELSE IF target < b.low THEN b.low ELSE target

\* The new value and its delta_pct: within the bounds, then cut to one step.
Step(current, target) ==
    LET delta == Rounded(1000 * (target - current), current)
    IN  CASE delta > MAX_STEP_PCT ->
               [new |-> Rounded(1100 * current, 1000), delta_pct |-> MAX_STEP_PCT]
          [] delta < -MAX_STEP_PCT ->
               [new |-> Rounded(900 * current, 1000), delta_pct |-> -MAX_STEP_PCT]
          [] OTHER -> [new |-> target, delta_pct |-> delta]

\* _propose: the summary of the proposal.
Proposal(param, current, target, b) ==
    LET step == Step(current, Clamped(target, b))
    IN  [param |-> param, current |-> current, new |-> step.new,
         low |-> b.low, high |-> b.high, delta_pct |-> step.delta_pct]

\* submit_from_recommendation: the parameter and the target of an action.
Derating(current) == Proposal("Acc", current, Rounded(9 * current, 10), DEFAULT_BOUNDS.Acc)

Retuning(current) == Proposal("Kp", current, Rounded(108 * current, 100), DEFAULT_BOUNDS.Kp)

Magnitude(n) == IF n < 0 THEN -n ELSE n

\* The staleness check of apply_and_verify: current is off by more than 2 % of
\* the device's value, unless that is 0, which nothing is compared with.
StaleFor(current, old) == old # 0 /\ 100 * Magnitude(current - old) > 2 * Magnitude(old)
============================================================================
