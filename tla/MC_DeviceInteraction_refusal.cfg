CONSTANT MaxPayloads = 1
SPECIFICATION Spec
INVARIANT
    NoDataAfterRefusal
CHECK_DEADLOCK FALSE
