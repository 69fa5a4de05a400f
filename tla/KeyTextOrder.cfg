SPECIFICATION Spec
CONSTANTS
    MaxByte = 3
    Discriminant <- MCDiscriminant
    MaxLength = 3
    KeyTypes <- MCTextTypes
INVARIANT TextOrderPreserved
CHECK_DEADLOCK FALSE
