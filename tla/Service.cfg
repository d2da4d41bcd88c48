SPECIFICATION Spec
CONSTANTS
    Commands = {c1, c2}
    Vaults = {v1, v2}
    FirstVault = v1
    MaxRevision = 1
    MaxBegun = 2
    MaxFaults = 1
    Daemon = Daemon
    Nil = Nil
INVARIANTS OfflineExclusive SettingsApplied
PROPERTIES ServiceRecovers
CHECK_DEADLOCK FALSE
