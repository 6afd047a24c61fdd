CONSTANTS
    root = root
    inter = inter
    leaf = leaf
    expd = expd
    junk = junk
    r384 = r384
    l384 = l384
    P384 = P384
    NoKey = NoKey
    X509 <- MC_X509
    Curve <- MC_Curve
    P256 <- MC_P256
    KeyCurve <- MC_KeyCurve
    SignedBy <- MC_SignedBy
    NoSigner = NoKey
    Malformed <- MC_Malformed
    Expired <- MC_Expired
    Registries <- MC_Registries
    MaxChainLen = 3
SPECIFICATION Spec
INVARIANTS
    TypeOK
    TrustSoundness
    AllDefectsReported
