CONSTANT MaxPayloads = 4
SPECIFICATION Spec
INVARIANTS
    TypeOK
    DataResponseFullySigned
    MainErrorIsTrue
PROPERTY
    Terminates
CHECK_DEADLOCK FALSE
