CONSTANTS
    root = root
    inter = inter
    leaf = leaf
    lenA = lenA
    lenB = lenB
    NoKey = NoKey
    X509 <- MC_X509
    Curve = {"P256"}
    P256 = "P256"
    KeyCurve <- MC_KeyCurve
    SignedBy <- MC_SignedBy
    NoSigner = NoKey
    Malformed = {lenA, lenB}
    Expired = {}
    LengthDer <- MC_LengthDer
    Registries <- MC_Registries
    MaxChainLen = 3
SPECIFICATION Spec
INVARIANTS
    ValidatedChainHasNoDuplicates
