SPECIFICATION Spec
CONSTANTS
    p1 = p1
    p2 = p2
    Requests = {r1, r2}
    Pids = {p1, p2}
    Parents <- Child
    Keys = {k1}
    Tokens = {t1}
    Scopes = {"file", "process", "vault"}
    MaxDuration = 2
    MaxCallbacks = 2
    Nil = Nil
SYMMETRY Symmetry
INVARIANTS TypeOK SessionsOpen CacheIsCurrent IdentityExpires
