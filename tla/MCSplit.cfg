\* The socket takes one byte at a time and holds three.
CONSTANTS
    p = p
    q = q
    z = z
    None = None
    Proto = {p, q, z}
    contentLen <- MCcontentLen
    HeaderLen = 2
    LenMod = 3
    Chunk = 1
    SockBuf = 3
    MayExit = TRUE
SPECIFICATION Spec
CHECK_DEADLOCK FALSE
INVARIANTS
    TypeOK
    InOrder
