\* Overlapping appends and verifications; values that JSONB returns unchanged.
CONSTANTS
    Nobody = Nobody
    login = login
    float = float
    integer = integer
    Transactions = {t1, t2, t3}
    Payloads = {login, integer}
    Verifiers = {v1, v2}
    Stored <- Exact
SPECIFICATION FairSpec
INVARIANTS TypeOK VerificationTruth EditsDetected
PROPERTIES LogSpec WaitersServed
