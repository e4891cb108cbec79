\* User-level and scope calls by two threads.
SPECIFICATION Spec
CONSTANTS
    Thread = {t1, t2}
    Font = {"single", "other"}
    Name = {"N1", "N2"}
    Token = {"a", "b"}
    Client <- OneClient
    NoToken = NoToken
    NoPath = NoPath
    NoFont = NoFont
    NoUrl = NoUrl
    Url = {"u1", "u2"}
    Tag = {0, 1, 2, 3}
    MaxInstallNum = 1
    Fault = {}
    RepeatTag = FALSE
    InitialFile = {"valid"}
    Op <- CallerOps
    FullNames <- MCFullNames
    BaseName <- DistinctNames
CONSTRAINT FewFiles
SYMMETRY ThreadSymmetry
INVARIANTS LimitOvershoot NoDanglingRecord
PROPERTIES InstallOkIsInstalled UserUninstallKeepsScope
