SPECIFICATION Spec
CONSTANTS
    Processes = {p1, p2}
    Objects = {o1, o2}
    Passphrases = {w1, w2}
    Nil = Nil
    MaxVersion = 1
    MaxBegun = 2
    MaxFaults = 0
INVARIANT VerifiesAgain
CHECK_DEADLOCK FALSE
SYMMETRY Symmetry
