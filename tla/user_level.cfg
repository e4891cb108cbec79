\* User-level installs and uninstalls by two threads, failing copies.
SPECIFICATION Spec
CONSTANTS
    Thread = {t1, t2}
    Font = {"single", "other", "ttc", "bad"}
    Name = {"N1", "N2"}
    Token = {"a", "b"}
    Client <- TwoClients
    NoToken = NoToken
    NoPath = NoPath
    NoFont = NoFont
    NoUrl = NoUrl
    Url = {"u1"}
    Tag = {0, 1, 2}
    MaxInstallNum = 2
    Fault = {"copy"}
    RepeatTag = FALSE
    InitialFile = {"valid"}
    Op <- UserOps
    FullNames <- MCFullNames
    BaseName <- DistinctNames
SYMMETRY ThreadSymmetry
INVARIANTS WithinLimit DiskAgrees
PROPERTY ImplementsFontStore
