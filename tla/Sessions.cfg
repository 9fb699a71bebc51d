CONSTANTS
    Request = {r1, r2}
    Principal = {alice}
    Token = {t1, t2}
    Attempt = {a1, a2}
    Code = {c1}
    None = None
SYMMETRY Symmetric
SPECIFICATION Spec
INVARIANTS RevokedStaysGone SignInMatchesAttempt SpentAttemptGone
PROPERTY TokenKeepsIdentity
CHECK_DEADLOCK FALSE
