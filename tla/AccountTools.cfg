SPECIFICATION Spec
CONSTANTS
    FolderImports = {"folder1", "folder2"}
    FileImports = {"file"}
    Checks = {"check1", "check2"}
    Together <- Pairs
    NumPhones = 5
    Unreadable = {2, 4}
    Lines = 2
    OldProxies = 1
    Given <- FileProxies
    FailLimit = 3
    Rounds = 3
INVARIANT TypeOK
INVARIANT LoadIsSpread
INVARIANT ChecksDecide
PROPERTY SessionKeepsItsProxy
\* Every tool ends.
CHECK_DEADLOCK FALSE
