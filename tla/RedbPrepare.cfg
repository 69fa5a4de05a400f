SPECIFICATION FairSpec
CONSTANTS
    Threads = {t1, t2, t3, t4}
    Namespaces = {"posts"}
    Keys = {k1}
    Bytes = {b1}
    None = None
    Lists <- MCLists
PROPERTY PrepareServed
