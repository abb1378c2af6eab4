---------------------------- MODULE PolicyProofs ----------------------------
(***************************************************************************)
(* The two checks without a state: who reaches a handler past the trust    *)
(* boundary, which is why the other modules let any user in any valid role *)
(* call a handler, and nobody else; and what the bridge's proposals are    *)
(* worth, for every value and all bounds.                                  *)
(***************************************************************************)
EXTENDS TrustBoundary, ProposalBridge, TLAPS

\* No call reaches a handler past the trust boundary unless it is entitled to:
\* outside the exempt paths the handler's caller has the token, the role and
\* the permission of the route (dispatch and require_permission together).
THEOREM ReachedIsEntitled ==
    ASSUME NEW c \in Call, c.path # "exempt", Verdict(c) = "handler"
    PROVE  Entitled(c)
PROOF
  <1>1. Dispatch(c) = "call"
    BY DEF Verdict, Dispatch
  <1>2. Gate(Principal(c), c.code) = "handler"
    BY <1>1 DEF Verdict
  <1>3. /\ TokenConfigured /\ c.token = "service_token"
        /\ HeaderRequired(c) => Absent \notin {c.cid, c.user, c.role} /\ c.role \in VALID_ROLES
    BY <1>1 DEF Dispatch
  <1>4. /\ Principal(c).user_id = c.user
        /\ Principal(c).role = IF c.role \in VALID_ROLES THEN c.role ELSE Absent
    BY DEF Principal
  <1>5. c.code # "none" => Principal(c).role \in VALID_ROLES
    <2>1. c.code # "none" => Principal(c).role # Absent
      BY <1>2 DEF Gate
    <2>. QED
      BY <1>4, <2>1
  <1>6. c.code \notin {"none", "any role"} => has_permission(Principal(c).role, c.code)
    BY <1>2 DEF Gate
  <1>7. HeaderRequired(c) => Principal(c).user_id \in Callers /\ Principal(c).role \in VALID_ROLES
    <2>1. c.user \in Callers \cup {Absent}
      BY DEF Call
    <2>. QED
      BY <1>3, <1>4, <2>1
  <1>. QED
    BY <1>3, <1>5, <1>6, <1>7 DEF Entitled

----------------------------------------------------------------------------
Bounds == [low : Int, high : Int]

\* Rounding to the nearest integer is off by half a unit at most.
LEMMA RoundedBounds ==
    ASSUME NEW n \in Int, NEW d \in Nat \ {0}
    PROVE  /\ Rounded(n, d) \in Int
           /\ 2 * (d * Rounded(n, d)) <= 2 * n + d
           /\ 2 * (d * Rounded(n, d)) > 2 * n - d
PROOF
  <1> DEFINE q == (2 * n + d) \div (2 * d)
  <1>1. /\ q \in Int
        /\ (2 * d) * q <= 2 * n + d
        /\ 2 * n + d < (2 * d) * q + 2 * d
    BY SMT
  <1>2. (2 * d) * q = 2 * (d * q)
    BY <1>1, SMT
  <1>. QED
    BY <1>1, <1>2 DEF Rounded

\* A product with a factor of at most k, or of at least k, is bounded by k times
\* the other factor.
LEMMA ProductBounds ==
    ASSUME NEW c \in Nat \ {0}, NEW d \in Int, NEW k \in Int
    PROVE  /\ d <= k => c * d <= k * c
           /\ d >= k => c * d >= k * c
PROOF
  <1>1. ASSUME d <= k PROVE c * d <= k * c
    <2>1. c * (k - d) >= 0
      BY <1>1, SMT
    <2>2. c * (k - d) = k * c - c * d
      BY SMT
    <2>. QED
      BY <2>1, <2>2, SMT
  <1>2. ASSUME d >= k PROVE c * d >= k * c
    <2>1. c * (d - k) >= 0
      BY <1>2, SMT
    <2>2. c * (d - k) = c * d - k * c
      BY SMT
    <2>. QED
      BY <2>1, <2>2, SMT
  <1>. QED
    BY <1>1, <1>2

\* A step from c towards t: at most 10.1 % of c and half a unit away from it, no
\* further than t when it is cut, with a rate the policy allows; and cut whenever
\* t is 10.1 % of c away.
GoodStep(c, t, s) ==
    /\ s.new \in Int /\ s.delta_pct \in Int
    /\ s.delta_pct <= MAX_STEP_PCT /\ s.delta_pct >= -MAX_STEP_PCT
    /\ 1000 * (s.new - c) <= 101 * c + 500
    /\ 1000 * (c - s.new) <= 101 * c + 500
    /\ s.new = t \/ (c <= s.new /\ s.new <= t) \/ (t <= s.new /\ s.new <= c)
    /\ 1000 * (t - c) >= 101 * c => 2000 * s.new <= 2200 * c + 1000
    /\ 1000 * (c - t) >= 101 * c => 2000 * s.new > 1800 * c - 1000

\* Step makes such steps.
LEMMA StepFacts ==
    ASSUME NEW c \in Nat \ {0}, NEW t \in Int
    PROVE  GoodStep(c, t, Step(c, t))
PROOF
  <1> DEFINE delta == Rounded(1000 * (t - c), c)
             up == Rounded(1100 * c, 1000)
             down == Rounded(900 * c, 1000)
  <1>1. /\ delta \in Int
        /\ 2 * (c * delta) <= 2 * (1000 * (t - c)) + c
        /\ 2 * (c * delta) > 2 * (1000 * (t - c)) - c
    BY RoundedBounds
  <1>2. /\ up \in Int
        /\ 2 * (1000 * up) <= 2 * (1100 * c) + 1000
        /\ 2 * (1000 * up) > 2 * (1100 * c) - 1000
    BY RoundedBounds
  <1>3. /\ down \in Int
        /\ 2 * (1000 * down) <= 2 * (900 * c) + 1000
        /\ 2 * (1000 * down) > 2 * (900 * c) - 1000
    BY RoundedBounds
  <1> HIDE DEF delta, up, down
  <1>4. CASE delta > 100
    <2>1. c * delta >= 101 * c
      BY <1>1, <1>4, ProductBounds
    <2>2. Step(c, t) = [new |-> up, delta_pct |-> 100]
      BY <1>4, <1>1 DEF Step, MAX_STEP_PCT, delta, up
    <2>3. 2000 * t > 2200 * c
      BY <1>1, <2>1, SMT
    <2>4. up <= t /\ c <= up
      BY <1>2, <2>3, SMT
    <2>. QED
      BY <1>2, <2>2, <2>3, <2>4, SMT DEF MAX_STEP_PCT, GoodStep
  <1>5. CASE delta < -100
    <2>1. c * delta <= (-101) * c
      BY <1>1, <1>5, ProductBounds
    <2>2. Step(c, t) = [new |-> down, delta_pct |-> -100]
      BY <1>5, <1>1 DEF Step, MAX_STEP_PCT, delta, down
    <2>3. 2000 * t < 1800 * c
      BY <1>1, <2>1, SMT
    <2>4. t <= down /\ down <= c
      BY <1>3, <2>3, SMT
    <2>. QED
      BY <1>3, <2>2, <2>3, <2>4, SMT DEF MAX_STEP_PCT, GoodStep
  <1>6. CASE delta <= 100 /\ delta >= -100
    <2>1. c * delta <= 100 * c /\ c * delta >= (-100) * c
      BY <1>1, <1>6, ProductBounds
    <2>2. Step(c, t) = [new |-> t, delta_pct |-> delta]
      BY <1>6, <1>1 DEF Step, MAX_STEP_PCT, delta
    <2>3. /\ 1000 * (t - c) <= 101 * c + 500
          /\ 1000 * (c - t) <= 101 * c + 500
          /\ ~(1000 * (t - c) >= 101 * c) /\ ~(1000 * (c - t) >= 101 * c)
      BY <1>1, <2>1, SMT
    <2>. QED
      BY <1>1, <1>6, <2>2, <2>3, SMT DEF MAX_STEP_PCT, GoodStep
  <1>. QED
    BY <1>1, <1>4, <1>5, <1>6, SMT

\* The clamped target is within the bounds.
LEMMA ClampedFacts ==
    ASSUME NEW t \in Int, NEW b \in Bounds, b.low <= b.high
    PROVE  Clamped(t, b) \in Int /\ b.low <= Clamped(t, b) /\ Clamped(t, b) <= b.high
PROOF
  BY SMT DEF Clamped, Bounds

\* A proposal the bridge makes for a device that is within its bounds passes the
\* five checks the approval runs on it, whatever the target: the two policies,
\* one in each process, agree (_propose against check_param_tuning).
THEOREM BridgePasses ==
    ASSUME NEW param \in PARAM_WHITELIST, NEW state \in SAFE_DEVICE_STATES,
           NEW c \in Nat \ {0}, NEW t \in Int, NEW b \in Bounds,
           b.low <= c, c <= b.high
    PROVE  check_param_tuning(Proposal(param, c, t, b), state) = "ok"
PROOF
  <1> DEFINE k == Clamped(t, b)
             s == Step(c, k)
             p == Proposal(param, c, t, b)
  <1>1. k \in Int /\ b.low <= k /\ k <= b.high
    BY ClampedFacts, SMT DEF Bounds
  <1>2. GoodStep(c, k, s)
    BY <1>1, StepFacts
  <1>3. p = [param |-> param, current |-> c, new |-> s.new, low |-> b.low,
             high |-> b.high, delta_pct |-> s.delta_pct]
    BY DEF Proposal
  <1> HIDE DEF s, k, p
  <1>4. b.low <= s.new /\ s.new <= b.high
    BY <1>1, <1>2, SMT DEF Bounds, GoodStep
  <1>5. /\ p.param \in PARAM_WHITELIST
        /\ p.new = s.new /\ p.low = b.low /\ p.high = b.high /\ p.delta_pct = s.delta_pct
    BY <1>3
  <1>6. /\ IsNumber(p.new) /\ IsNumber(p.low) /\ IsNumber(p.high) /\ IsNumber(p.delta_pct)
    BY <1>2, <1>5, NonNumberAssumption DEF IsNumber, Bounds, GoodStep
  <1>7. ~(p.delta_pct > MAX_DELTA_PCT \/ p.delta_pct < -MAX_DELTA_PCT)
    BY <1>2, <1>5, SMT DEF MAX_DELTA_PCT, MAX_STEP_PCT, GoodStep
  <1>8. p.low <= p.new /\ p.new <= p.high
    BY <1>4, <1>5
  <1>9. check_param_tuning(p, state) = "ok"
    BY <1>5, <1>6, <1>7, <1>8, UnhashableAssumption DEF check_param_tuning
  <1>. QED
    BY <1>9 DEF p

\* A device further outside its bounds than one step is not brought back: every
\* proposal the bridge makes for it is cut to a value outside the range it
\* states, and fails the bounds check after it has been approved.
THEOREM BridgeCannotReturn ==
    ASSUME NEW param \in PARAM_WHITELIST, NEW state,
           NEW c \in Nat, c >= 1000, NEW t \in Int, NEW b \in Bounds, b.low <= b.high,
           1000 * (b.low - c) >= 101 * c \/ 1000 * (c - b.high) >= 101 * c
    PROVE  check_param_tuning(Proposal(param, c, t, b), state) = "bounds"
PROOF
  <1> DEFINE k == Clamped(t, b)
             s == Step(c, k)
             p == Proposal(param, c, t, b)
  <1>1. c \in Nat \ {0}
    BY SMT
  <1>2. k \in Int /\ b.low <= k /\ k <= b.high
    BY ClampedFacts
  <1>3. GoodStep(c, k, s)
    BY <1>1, <1>2, StepFacts
  <1>4. p = [param |-> param, current |-> c, new |-> s.new, low |-> b.low,
             high |-> b.high, delta_pct |-> s.delta_pct]
    BY DEF Proposal
  <1> HIDE DEF s, k, p
  <1>5. s.new < b.low \/ s.new > b.high
    <2>1. CASE 1000 * (b.low - c) >= 101 * c
      BY <1>2, <1>3, <2>1, SMT DEF Bounds, GoodStep
    <2>2. CASE 1000 * (c - b.high) >= 101 * c
      BY <1>2, <1>3, <2>2, SMT DEF Bounds, GoodStep
    <2>. QED
      BY <2>1, <2>2
  <1>6. p.param \in PARAM_WHITELIST /\ p.new = s.new /\ p.low = b.low /\ p.high = b.high
    BY <1>4
  <1>7. IsNumber(p.new) /\ IsNumber(p.low) /\ IsNumber(p.high)
    BY <1>3, <1>6, NonNumberAssumption DEF IsNumber, Bounds, GoodStep
  <1>8. ~(p.low <= p.new /\ p.new <= p.high)
    BY <1>3, <1>6, <1>5, SMT DEF Bounds, GoodStep
  <1>9. check_param_tuning(p, state) = "bounds"
    BY <1>6, <1>7, <1>8, UnhashableAssumption DEF check_param_tuning
  <1>. QED
    BY <1>9 DEF p

\* The executor changes a parameter other than 0 by at most 12.4 % (and half a
\* unit) of the value it finds, however old the proposal is: the bridge allows one
\* step from the value it saw, and the staleness check a deviation of 2 % from
\* that.  At 0 nothing is compared, and the change is as large as the proposal.
THEOREM ExecutedStepBounded ==
    ASSUME NEW param, NEW c \in Nat \ {0}, NEW t \in Int, NEW old \in Int \ {0},
           NEW b \in Bounds, b.low <= b.high, ~StaleFor(c, old)
    PROVE  1000 * Magnitude(Proposal(param, c, t, b).new - old) <= 124 * Magnitude(old) + 500
PROOF
  <1> DEFINE k == Clamped(t, b)
             s == Step(c, k)
  <1>1. k \in Int
    BY ClampedFacts
  <1>2. GoodStep(c, k, s)
    BY <1>1, StepFacts
  <1>3. Proposal(param, c, t, b).new = s.new
    BY DEF Proposal
  <1>4. 100 * Magnitude(c - old) <= 2 * Magnitude(old)
    BY SMT DEF StaleFor, Magnitude
  <1>5. old > 0 /\ 100 * (c - old) <= 2 * old /\ 100 * (old - c) <= 2 * old
    BY <1>4, SMT DEF Magnitude
  <1> HIDE DEF s, k
  <1>6. s.new \in Int
    BY <1>2 DEF GoodStep
  <1>7. 1000 * (s.new - old) <= 124 * old + 500 /\ 1000 * (old - s.new) <= 124 * old + 500
    BY <1>2, <1>5, SMT DEF GoodStep
  <1>. QED
    BY <1>3, <1>5, <1>6, <1>7, SMT DEF Magnitude

============================================================================
