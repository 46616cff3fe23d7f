\* One inviter, one invitee, two names, two messages.
CONSTANTS
    A = A
    B = B
    C = C
    ab = ab
    ab2 = ab2
    ac = ac
    bc = bc
    a1 = a1
    a2 = a2
    b1 = b1
    b2 = b2
    c1 = c1
    c2 = c2
    x = x
    y = y
    m1 = m1
    m2 = m2
    None = None
    Node = {A, B}
    Inv = {ab}
    Call = {a1, b1, b2}
    Name = {x, y}
    Msg = {m1, m2}
    callNode <- MCcallNode
    inviterOf <- MCinviterOf
    inviteeOf <- MCinviteeOf
SPECIFICATION FairSpec
CHECK_DEADLOCK FALSE
INVARIANTS
    TypeOK
    CrashOnlyByTornWrite
    DeliveredToPeer
    Addressed
    AtMostOnce
PROPERTIES
    LinkStable
    ImplementsPipe
    MergeCompletes
    Delivered
