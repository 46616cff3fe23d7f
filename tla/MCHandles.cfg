\* Two threads, six calls, two names, three handles.
CONSTANTS
    None = None
    Thread = {t1, t2}
    Call = {c1, c2, c3, c4, c5, c6}
    Name = {x, y}
    HandleMod = 4
SYMMETRY MCSymmetry
SPECIFICATION ApiSpec
CHECK_DEADLOCK FALSE
INVARIANTS
    ApiTypeOK
    HandlesDistinct
    HandlesReachable
    PairsReadable
    OnePlace
PROPERTIES
    LostInTwoWays
