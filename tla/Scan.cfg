SPECIFICATION Spec
CONSTANTS
    MaxByte = 3
    Discriminant <- MCDiscriminant
    None = None
    Schemas <- MCAllSchemas
INVARIANTS
    TypeOK
    IterExact
    CursorChecked
    NoPanic
    PagesComplete
