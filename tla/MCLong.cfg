\* A message with a content that takes two digits to count.
CONSTANTS
    Base = 3
    Limit = 0
    Lengths = {0}
    Group = 16
    Width16 = 1
    Width32 = 1
    Width64 = 2
    Longest = 7
    Junk = Junk
    Throw = Throw
    Crash = Crash
    Data <- MCData
    Typed <- MCTyped
    Rows <- MCRows
    Message <- MCMessage
SPECIFICATION WireSpec
CHECK_DEADLOCK FALSE
INVARIANTS
    MessageKept
