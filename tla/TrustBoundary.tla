---------------------------- MODULE TrustBoundary ----------------------------
(***************************************************************************)
(* What a request meets before its handler runs: the middleware of         *)
(* app/core/security.py and the dependency of its route.  The middleware   *)
(* leaves an identity behind, the dependency judges the identity it finds; *)
(* the handlers of the other modules rely on both.                         *)
(*                                                                         *)
(* A call is a method, a kind of path, the headers that matter and the     *)
(* code its route asks for: a permission, "any role", or "none" when the   *)
(* route only looks at the identity.                                       *)
(***************************************************************************)
EXTENDS Permissions

CONSTANTS
    Callers,          \* X-User-ID values
    Absent,           \* a header that is missing or empty, no identity
    TokenConfigured   \* is service_token set?

MUTATION_METHODS == {"POST", "PUT", "PATCH", "DELETE"}

Codes == UNION {ROLE_PERMISSIONS[role] : role \in VALID_ROLES}

Call == [method : MUTATION_METHODS \cup {"GET"},
         path : {"exempt", "service mutation", "other"},
         nul : BOOLEAN,
         token : {"service_token", "another", Absent},
         cid : {"id", Absent},
         user : Callers \cup {Absent},
         role : VALID_ROLES \cup {"unknown", Absent},
         code : Codes \cup {"any role", "none"}]

HeaderRequired(c) == c.method \in MUTATION_METHODS /\ c.path # "service mutation"

\* dispatch: where the middleware sends the call, in the order of its checks.
Dispatch(c) ==
    IF c.nul THEN "nul bytes"
    ELSE IF c.path = "exempt" THEN "call"
    ELSE IF ~TokenConfigured \/ c.token # "service_token" THEN "invalid_service_token"
    ELSE IF ~HeaderRequired(c) THEN "call"
    ELSE IF Absent \in {c.cid, c.user, c.role} THEN "missing_identity_headers"
    ELSE IF c.role \notin VALID_ROLES THEN "unknown_role"
    ELSE "call"

\* The identity on request.state: none on an exempt path, and a role only if it
\* is a valid one.
Principal(c) ==
    IF c.path = "exempt"
      THEN [user_id |-> Absent, role |-> Absent]
      ELSE [user_id |-> c.user, role |-> IF c.role \in VALID_ROLES THEN c.role ELSE Absent]

\* require_role and require_permission, or get_principal alone.
Gate(p, code) ==
    IF code = "none" THEN "handler"
    ELSE IF p.role = Absent THEN "missing_role"
    ELSE IF code # "any role" /\ ~has_permission(p.role, code) THEN "missing_permission"
    ELSE "handler"

Verdict(c) == IF Dispatch(c) = "call" THEN Gate(Principal(c), c.code) ELSE Dispatch(c)

\* Refusals record_denied_attempt is called for: all but the one for NUL bytes.
Denied(c) == Verdict(c) \notin {"handler", "nul bytes"}

----------------------------------------------------------------------------
\* What a handler may rely on, although headers are optional on reads and the
\* gate looks at an identity the middleware may have left empty: a call reached
\* it with the service token, in a valid role that holds the code of the route
\* if it asks for one, and a mutation of the governance tables has a caller.
Entitled(c) ==
    /\ c.token = "service_token" /\ TokenConfigured
    /\ c.code # "none" => Principal(c).role \in VALID_ROLES
    /\ c.code \notin {"none", "any role"} => has_permission(Principal(c).role, c.code)
    /\ HeaderRequired(c) => Principal(c).user_id \in Callers /\ Principal(c).role \in VALID_ROLES

============================================================================
