SPECIFICATION Spec
CONSTANTS
    Objects = {o1}
    Contents = {e, c}
    Empty = e
    None = None
    NoFile = NoFile
    Procs = {p1, p2}
    Roles = {"serve", "unprotect", "verify"}
    Synced = {o1}
    FaultKinds = {"io", "crash"}
    MaxFaults = 2
SYMMETRY Symmetry
INVARIANTS TypeOK AcknowledgedWriteIndexed UnlinkedStaysForgotten NoDanglingRecord
PROPERTY KeepsContract
