\* A font and the configuration of older releases and two users, with every failure, crashes, and calls of the users meanwhile.
SPECIFICATION FairSpec
CONSTANTS
    UserIds <- MCUserIds
    Font = {f1}
    Config = Config
    Method = {"InstallFont", "UninstallFont", "UpdateConfig"}
    Fault = {"users", "dir", "copy", "remove", "write", "crash"}
INVARIANTS NoFontLost MigratedFontsAreNamed HeartBeatsEnd
PROPERTIES MigrationEnds
