------------------------------ MODULE AuditLog ------------------------------
(***************************************************************************)
(* What the audit subsystem promises its callers: one log, shared by every *)
(* process, that only grows, one whole event at a time.  AuditChain shows  *)
(* that the tables, the lock and the hash chain provide it; Approvals and  *)
(* Commands write their audit rows to such a log.                          *)
(***************************************************************************)
EXTENDS Sequences

CONSTANT Payloads   \* business views of audit events

VARIABLE log

Init == log = <<>>

Record(p) == log' = Append(log, p)

Next == \E p \in Payloads : Record(p)

Spec == Init /\ [][Next]_log

============================================================================
