-------------------------- MODULE DecisionRegister --------------------------
(***************************************************************************)
(* What the approval workflow promises its users: a register in which      *)
(* every proposal is decided at most once, by somebody else than its       *)
(* proposer or withdrawn by the proposer, and in which an approved one is  *)
(* given at most one effect.  Approvals provides it as long as requests    *)
(* are answered one at a time.                                             *)
(***************************************************************************)
CONSTANTS
    Approvals,
    Users,
    EFFECTS,   \* outcomes of an approved proposal
    NoOne      \* nobody, no outcome

VARIABLE register

Blank == [state |-> "absent", proposer |-> NoOne, decider |-> NoOne, effect |-> NoOne]

Init == register = [a \in Approvals |-> Blank]

Propose(a, u) ==
    /\ register[a] = Blank
    /\ register' = [register EXCEPT ![a] = [@ EXCEPT !.state = "pending", !.proposer = u]]

Decide(a, state, u) ==
    /\ register[a].state = "pending"
    /\ state = "withdrawn" <=> u = register[a].proposer
    /\ register' = [register EXCEPT ![a] = [@ EXCEPT !.state = state, !.decider = u]]

Settle(a, effect) ==
    /\ register[a].state = "approved"
    /\ register[a].effect = NoOne
    /\ register' = [register EXCEPT ![a] = [@ EXCEPT !.effect = effect]]

Next ==
    \E a \in Approvals :
        \/ \E u \in Users :
              \/ Propose(a, u)
              \/ \E state \in {"approved", "rejected", "withdrawn"} : Decide(a, state, u)
        \/ \E effect \in EFFECTS : Settle(a, effect)

Spec == Init /\ [][Next]_register

============================================================================
