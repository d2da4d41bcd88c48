SPECIFICATION Spec
CONSTANTS
    Objects = {o1, o2}
    Contents = {e}
    Empty = e
    None = None
    NoFile = NoFile
    Procs = {p1}
    Roles = {"serve", "purge"}
    Synced = {o1, o2}
    FaultKinds = {"io", "crash"}
    MaxFaults = 2
SYMMETRY Symmetry
INVARIANT AcknowledgedWriteIndexed
PROPERTY KeepsContract
