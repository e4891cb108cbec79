\* Files of the same name installed within a second by one thread.
SPECIFICATION Spec
CONSTANTS
    Thread = {t1}
    Font = {"single", "other"}
    Name = {"N1", "N2"}
    Token = {"a", "b"}
    Client <- TwoClients
    NoToken = NoToken
    NoPath = NoPath
    NoFont = NoFont
    NoUrl = NoUrl
    Url = {"u1"}
    Tag = {0}
    MaxInstallNum = 2
    Fault = {}
    RepeatTag = TRUE
    InitialFile = {"valid"}
    Op <- InstallFontOnly
    FullNames <- MCFullNames
    BaseName <- SameName
PROPERTIES InstallOkIsInstalled
