SPECIFICATION FairSpec
CONSTANTS
    primary = primary
    None = None
    Threads = {t1, t2, t3, t4}
    StoreNames = {primary}
    Lists <- SameList
    Keys = {}
    Bytes = {}
    Prepares = {"new"}
    WriterPreferring = TRUE
PROPERTIES
    WaiterServed
    ReaderServed
