\* A content that is longer than its 16 bit length.
CONSTANTS
    p = p
    q = q
    z = z
    None = None
    Proto = {p, q, z}
    contentLen <- MCcontentLen
    HeaderLen = 2
    LenMod = 2
    Chunk = 4
    SockBuf = 12
    MayExit = FALSE
SPECIFICATION Spec
CHECK_DEADLOCK FALSE
INVARIANTS
    LengthKept
