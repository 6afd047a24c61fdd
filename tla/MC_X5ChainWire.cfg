CONSTANTS
    root = root
    inter = inter
    junk = junk
    NoKey = NoKey
    X509 <- MC_X509
    Curve <- MC_Curve
    P256 = "P256"
    KeyCurve <- MC_KeyCurve
    SignedBy <- MC_SignedBy
    NoSigner = NoKey
    Malformed = {junk}
    Expired = {}
    Contents <- MC_Contents
    Registries <- MC_Registries
    MaxChainLen = 3
SPECIFICATION Spec
INVARIANTS
    TypeOK
    AcceptsExactlyWellFormed
    ValidatesTheWireChain
