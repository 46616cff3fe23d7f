\* A star: A invites B, twice, and C, all for pipes of one name.
CONSTANTS
    A = A
    B = B
    C = C
    ab = ab
    ab2 = ab2
    ac = ac
    bc = bc
    a1 = a1
    a2 = a2
    b1 = b1
    b2 = b2
    c1 = c1
    c2 = c2
    x = x
    y = y
    m1 = m1
    m2 = m2
    None = None
    Node = {A, B, C}
    Inv = {ab, ab2, ac}
    Call = {a1, a2, b1, c1}
    Name = {x}
    Msg = {}
    callNode <- MCcallNode
    inviterOf <- MCinviterOf
    inviteeOf <- MCinviteeOf
SYMMETRY MCSymmetry
SPECIFICATION Spec
CHECK_DEADLOCK FALSE
INVARIANTS
    TwoEnds
    CrashOnlyBySecond
