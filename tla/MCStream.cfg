\* The socket takes every protocol in one piece and never fills up; the event loops of both
\* processes make the callbacks.
CONSTANTS
    p = p
    q = q
    z = z
    None = None
    Nothing = Nothing
    Proto = {p, q, z}
    contentLen <- MCcontentLen
    HeaderLen = 2
    LenMod = 16
    Chunk = 4
    SockBuf = 12
    MayExit = FALSE
    Runner = {"writes", "reads"}
    Fd <- MCFd
    runnerOf <- MCrunnerOf
SPECIFICATION LoopSpec
CHECK_DEADLOCK FALSE
INVARIANTS
    DelegateSet
    NoneAbandoned
PROPERTIES
    ImplementsFifo
    ServedForGood
    FairnessKept
    DeliveredByLoops
