SPECIFICATION Spec
CONSTANTS
    v1 = v1
    v2 = v2
    k1 = k1
    k2 = k2
    None = None
    Pks = {p1, p2}
    Vals = {v1, v2}
    IndexKeys = {k1, k2}
    NumIndexes = 2
    UniqueIdx = {1}
    IndexKey <- OwnKeys
    Decode <- MCDecode
    Selections = {}
    Name <- OwnNames
    MaxCollections = 2
SYMMETRY MCSymmetry
INVARIANTS
    TypeOK
    IndexSound
    StableIndexExact
