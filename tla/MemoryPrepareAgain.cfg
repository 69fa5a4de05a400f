SPECIFICATION Spec
CONSTANTS
    primary = primary
    None = None
    Threads = {t1, t2}
    StoreNames = {primary, index}
    Lists <- SameList
    Keys = {k}
    Bytes = {b}
    Prepares = {"new", "again"}
    WriterPreferring = FALSE
PROPERTY
    PrepareIsSafe
