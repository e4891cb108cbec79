\* Registrations, deaths and unregistrations of three applications; nothing is left to do
\* when every process has ended.
SPECIFICATION FairSpec
CONSTANTS
    Token = {"a", "b", "x"}
    NoToken = NoToken
    User = {"u1", "invalid"}
    InvalidUser = "invalid"
    Binder = {"a1", "a2", "b1", "x1"}
    TokenOf <- MCTokenOf
    UserOf <- MCUserOf
    Thread = {t1, t2}
    MaxScopeFontAppNum = 1
INVARIANTS MapsAgree DeadIsNoticed
CHECK_DEADLOCK FALSE
PROPERTIES DeadAreDropped
