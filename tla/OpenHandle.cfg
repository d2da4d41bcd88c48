SPECIFICATION FileSpec
CONSTANTS
    Writes = {c1, c2, c3}
    MaxFileSize = 2
    MaxLength = 2
    Workaround = TRUE
    Zero = Zero
SYMMETRY Symmetry
CHECK_DEADLOCK FALSE
INVARIANTS FileTypeOK WithinLimit AcknowledgedIsStored AppendsKept

