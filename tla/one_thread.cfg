\* One thread serves two applications of two users, with crashes and failing posts of all tasks but cleanups.
SPECIFICATION Spec
CONSTANTS
    Token = {"a", "b"}
    NoToken = NoToken
    User = {"u1", "u2"}
    InvalidUser = "invalid"
    Binder = {"a1", "a2", "b1"}
    TokenOf <- MCTokenOf
    UserOf <- MCUserOf
    Thread = {t1}
    MaxScopeFontAppNum = 1
    Handler = Handler
    NoBinder = NoBinder
    Method = {"DataMigration", "OnFontObserver", "OffFontObserver", "InstallScopeFont"}
    StartsFor <- FullStarts
    Fault = {"crash", "post", "unload"}
    QueueBound = 1
INVARIANTS TypeOK MigrationSlot AppFontsOwned
