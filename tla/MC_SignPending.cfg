CONSTANTS
    MaxPayloads = 3
    ExpectedArgs <- MC_ExpectedArgs
SPECIFICATION Spec
INVARIANTS
    TypeOK
    ReturnsWhatItSigned
PROPERTY
    CallReturns
