\* Every operation, called by one thread, where copies and directories may fail.
SPECIFICATION Spec
CONSTANTS
    Thread = {t1}
    Font = {"single", "other", "ttc", "bad"}
    Name = {"N1", "N2"}
    Token = {"a", "b"}
    Client <- AllClients
    NoToken = NoToken
    NoPath = NoPath
    NoFont = NoFont
    NoUrl = NoUrl
    Url = {"u1", "u2"}
    Tag = {0, 1, 2, 3}
    MaxInstallNum = 2
    Fault = {"copy", "dir"}
    RepeatTag = FALSE
    InitialFile = {"missing", "valid"}
    Op <- Operation
    FullNames <- MCFullNames
    BaseName <- DistinctNames
INVARIANTS TypeOK DiskAgrees NoDoubleRecord
PROPERTIES InstallOkIsVisible OnlyOwnerUninstalls CleanupSparesOthers AppCleanupIsComplete ImplementsAtomicStore
