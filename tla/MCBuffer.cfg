\* Buffers of up to three chunks, and messages whose contents one digit can count.
CONSTANTS
    Base = 3
    Limit = 7
    Lengths = {0, 4}
    Group = 16
    Width16 = 1
    Width32 = 1
    Width64 = 2
    Longest = 6
    Junk = Junk
    Throw = Throw
    Crash = Crash
    Data <- MCData
    Typed <- MCTyped
    Rows <- MCRows
    Message <- MCMessage
SPECIFICATION WireSpec
CHECK_DEADLOCK FALSE
INVARIANTS
    Coherent
    DiesOnlyAtEnd
    FileKept
    CodecsInvert
    MessageKept
PROPERTIES
    ImplementsFlat
