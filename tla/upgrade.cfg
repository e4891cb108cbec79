\* A store of an older release, restarts, an application that starts first, and
\* files of one name copied within one second.
SPECIFICATION Spec
CONSTANTS
    Thread = {t1}
    Font = {"single", "ttc"}
    Name = {"N1", "N2"}
    Token = {"a", "b"}
    Client <- TwoClients
    NoToken = NoToken
    NoPath = NoPath
    NoFont = NoFont
    NoUrl = NoUrl
    Url = {"u1"}
    Tag = {0, 1}
    MaxInstallNum = 2
    Fault = {"crash", "dir", "write", "read"}
    RepeatTag = TRUE
    InitialFile = {"old", "missing"}
    Op <- CallerOps
    FullNames <- MCFullNames
    BaseName <- SameName
CONSTRAINT FewFiles
INVARIANTS UniqueUserPaths ScopeOnlyInV7
PROPERTIES RefreshKeepsNames
