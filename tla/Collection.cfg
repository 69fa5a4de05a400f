SPECIFICATION Spec
CONSTANTS
    v1 = v1
    v2 = v2
    v3 = v3
    k1 = k1
    k2 = k2
    None = None
    Clients = {c1, c2}
    Pks = {p1, p2}
    Vals = {v1, v2, v3}
    IndexKeys = {k1, k2}
    NumIndexes = 3
    UniqueIdx = {2, 3}
    IndexKey <- MCIndexKey
    Decode <- MCDecode
    Selections <- MCSelections
SYMMETRY MCSymmetry
INVARIANTS
    TypeOK
    IndexConsistent
    UniqueKeys
    NoUnexpected
    TransactionInv
PROPERTIES
    ImplementsRecordMap
