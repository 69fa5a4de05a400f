SPECIFICATION Spec
CONSTANTS
    Threads = {t1, t2}
    Namespaces = {"users", "posts"}
    Keys = {k1}
    Bytes = {b1}
    None = None
    Lists <- MCLists
INVARIANTS TypeOK HandlesComplete NoStandstill
PROPERTY ImplementsMultiStore
