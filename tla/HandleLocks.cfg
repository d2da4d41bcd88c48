SPECIFICATION FairSpec
CONSTANTS
    Objects = {o1}
    Handles = {h1, h2, h3}
    Contents = {e, b}
    Large = {b}
    Empty = e
    NoFile = NoFile
    None = None
    Calls = {"read", "write", "truncate", "create", "createReadOnly", "chmod"}
INVARIANTS TypeOK WriterSeesStored AcceptedWriteFits
PROPERTY LocksGranted
