\* One environment; violated: its function is aborted before a notice comes.
SPECIFICATION Spec
CONSTANTS
    Thread = {t1}
    NoThread = NoThread
    MaxLate = 1
    Observer = {o1, o2}
    NoObserver = NoObserver
    Fault = {"samgr", "refuse", "limit", "call"}
INVARIANT TsfnFreedAtLast
