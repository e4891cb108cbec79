\* Two threads serve one application and its end, with every method that the lifecycle depends on.
SPECIFICATION FairSpec
CONSTANTS
    Token = {"a"}
    NoToken = NoToken
    User = {"u1"}
    InvalidUser = "invalid"
    Binder = {"a1"}
    TokenOf <- MCTokenOf
    UserOf <- MCUserOf
    Thread = {t1, t2}
    MaxScopeFontAppNum = 1
    Handler = Handler
    NoBinder = NoBinder
    Method = {"DataMigration", "OnFontObserver", "OffFontObserver"}
    StartsFor <- FullStarts
    Fault = {"cleanup"}
    QueueBound = 1
INVARIANTS MigrationSlot NothingCutOff
PROPERTIES IdleServiceStops
