SPECIFICATION Spec
CONSTANTS
    MaxByte = 3
    Discriminant <- MCDiscriminant
    MaxLength = 4
    KeyTypes <- MCKeyTypes
INVARIANTS
    TypeOK
    EncodingIsSelfDelimiting
    DecodeIsCanonical
    OrderPreserved
CHECK_DEADLOCK FALSE
