SPECIFICATION Spec
CONSTANTS
    Commands = {c1, c2}
    Objects = {o1, o2, o3}
    MaxVersion = 3
    MaxBegun = 4
    MaxFaults = 1
    Nil = Nil
SYMMETRY Symmetry
INVARIANTS TypeOK LatestKept ReportedIsProtected
CHECK_DEADLOCK FALSE
