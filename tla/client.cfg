\* Two environments of one process, one callback may be late.
SPECIFICATION Spec
CONSTANTS
    Thread = {t1, t2}
    NoThread = NoThread
    MaxLate = 1
    Observer = {o1, o2}
    NoObserver = NoObserver
    Fault = {"samgr", "refuse", "limit", "call"}
SYMMETRY Symmetry
INVARIANTS OneRecipient RegisteredIsWatched TsfnNotLeaked NeverStuck
PROPERTIES NullHasCause OkIsWatched FreedByLateNotice
