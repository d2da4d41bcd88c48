SPECIFICATION FairSpec
CONSTANTS
    Objects = {1, 2, 3}
    Dirs = {"d", "e"}
    Names = {"x", "y", "z", "w"}
    Staging = {"s", "t", "u"}
    Inodes = {1, 2, 3, 4, 5, 6, 7}
    FirstDir = "d"
    FirstName <- MCFirstName
    OldLinks = {1}
    MaxUser = 2
    MaxFaults = 1
    Nil = Nil
INVARIANTS TypeOK UserFilesKept RecoveryHasCause
PROPERTY RecordsSettle
