\* A protocol that the socket takes in two pieces is read too early.
CONSTANTS
    p = p
    q = q
    z = z
    None = None
    Proto = {p, q, z}
    contentLen <- MCcontentLen
    HeaderLen = 2
    LenMod = 3
    Chunk = 2
    SockBuf = 12
    MayExit = FALSE
SPECIFICATION Spec
CHECK_DEADLOCK FALSE
INVARIANTS
    ReadComplete
