SPECIFICATION Spec
CONSTANTS
    primary = primary
    None = None
    Threads = {t1, t2, t3}
    StoreNames = {primary, index}
    Lists <- MCLists
    Keys = {k}
    Bytes = {b}
    Prepares = {"new", "again"}
    WriterPreferring = FALSE
SYMMETRY MCSymmetry
INVARIANTS
    TypeOK
    MutualExclusion
    NoLostWakeup
    NoStandstill
PROPERTY
    ImplementsMultiStore
