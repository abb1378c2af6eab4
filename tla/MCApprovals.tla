---------------------------- MODULE MCApprovals ----------------------------
(* Instances of Approvals for TLC. *)
EXTENDS Approvals, ProposalBridge, TLC

Promotion(v) == [type |-> "model_promotion", scenario_id |-> "S1", to |-> v]

Tuning(param, new, delta) ==
    [type |-> "param_tuning", param |-> param, new |-> new, low |-> 5, high |-> 9,
     delta_pct |-> delta, device |-> "AXIS-04"]

\* A proposal of the bridge, as it is stored.
Bridged(summary) == [type |-> "param_tuning", device |-> "AXIS-04"] @@ summary

\* Two competing promotions, one whose version is absent, a tuning that fails
\* the rate check and one on whose param the checks raise.
MCProposalsSerial ==
    {Promotion("v4"), Promotion("v2"), Promotion("v9"),
     Tuning("Kp", 6, 250), Tuning(Unhashable, 6, 30)}

\* One proposal per outcome, and two competing promotions.  The bridge's first
\* proposal passes the checks, its second one, made for a device far above its
\* bounds, fails one.
MCProposalsAll ==
    {Promotion("v4"), Promotion("v2"), Promotion("v9"),
     Tuning("Kv", 6, 30), Tuning("Ki", 6, NonNumber), Tuning(Unhashable, 6, 30),
     Bridged(Retuning(20000)), Bridged(Derating(900000)),
     [type |-> "scenario_activation"]}

\* models.jsonl as generated by the simulator, plus one shadow candidate.
MCModels == <<Model("S1", "v3", "active"), Model("S1", "v2", "rolled_back"),
              Model("S1", "v4", "shadow")>>

RaceSymmetry == Permutations(Users) \cup Permutations(Requests) \cup Permutations(Approvals)
============================================================================
