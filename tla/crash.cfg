\* User-level calls by two threads, crashes and failing system calls.
SPECIFICATION Spec
CONSTANTS
    Thread = {t1, t2}
    Font = {"ttc", "single"}
    Name = {"N1", "N2"}
    Token = {"a", "b"}
    Client <- TwoClients
    NoToken = NoToken
    NoPath = NoPath
    NoFont = NoFont
    NoUrl = NoUrl
    Url = {"u1"}
    Tag = {0, 1, 2, 3, 4, 5}
    MaxInstallNum = 1
    Fault = {"crash", "write", "copy", "remove"}
    RepeatTag = FALSE
    InitialFile = {"valid"}
    Op <- UserOps
    FullNames <- MCFullNames
    BaseName <- DistinctNames
CONSTRAINT FewFiles
SYMMETRY ThreadSymmetry
PROPERTIES FileGoesFirst RefusedOnlyIfInstalled
