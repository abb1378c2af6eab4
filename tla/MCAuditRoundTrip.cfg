\* The event values include a number that JSONB returns in another form.
CONSTANTS
    Nobody = Nobody
    login = login
    float = float
    integer = integer
    Transactions = {t1, t2}
    Payloads = {login, float, integer}
    Verifiers = {v1}
    Stored <- Lossy
SPECIFICATION Spec
INVARIANTS NeverDrifts
