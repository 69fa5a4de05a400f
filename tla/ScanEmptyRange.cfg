SPECIFICATION Spec
CONSTANTS
    MaxByte = 3
    Discriminant <- MCDiscriminant
    None = None
    Schemas <- MCByteSchema
INVARIANT EmptyRangeYieldsNothing
