\* A invites B twice: the ports reserved for the second invitation are lost.
CONSTANTS
    A = A
    B = B
    C = C
    ab = ab
    ab2 = ab2
    ac = ac
    bc = bc
    a1 = a1
    a2 = a2
    b1 = b1
    b2 = b2
    c1 = c1
    c2 = c2
    x = x
    y = y
    m1 = m1
    m2 = m2
    None = None
    Node = {A, B}
    Inv = {ab, ab2}
    Call = {a1, a2, b1}
    Name = {x, y}
    Msg = {m1}
    callNode <- MCcallNode
    inviterOf <- MCinviterOf
    inviteeOf <- MCinviteeOf
SPECIFICATION Spec
CHECK_DEADLOCK FALSE
PROPERTIES
    ReservedMoved
