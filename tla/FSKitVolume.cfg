SPECIFICATION Spec
CONSTANTS
    Items = {i1, i2}
    First = i1
    Callers = {t1, t2}
    Nil = Nil
    SerializedDirectory = TRUE
    MaxCalls = 3
    MaxHandles = 4
INVARIANTS HandlesHeld WriterHasHandle WritesKept
PROPERTIES ShutdownCompletes
CHECK_DEADLOCK FALSE
