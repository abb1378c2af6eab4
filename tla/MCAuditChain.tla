---------------------------- MODULE MCAuditChain ----------------------------
(* Instances of AuditChain for TLC. *)
EXTENDS AuditChain

CONSTANTS login, float, integer

\* Values that JSONB gives back as they were.
Exact == [p \in Payloads |-> p]

\* A float such as 1e16 in new_value reads back as the integer 10^16.
Lossy == [p \in Payloads |-> IF p = float THEN integer ELSE p]

============================================================================
