SPECIFICATION FairSpec
CONSTANTS
    p1 = p1
    p2 = p2
    Requests = {r1, r2}
    Pids = {p1}
    Parents = {}
    Keys = {k1}
    Tokens = {t1}
    Scopes = {"file", "process"}
    MaxDuration = 1
    MaxCallbacks = 1
    Nil = Nil
PROPERTIES DeadOwnersSessionEnds ExpiredIdentityDropped RequestReturns
