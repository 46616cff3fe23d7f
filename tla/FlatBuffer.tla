------------------------------- MODULE FlatBuffer ------------------------------
(***************************************************************************)
(* What ByteArray promises: one string of bytes with a position in it.     *)
(* Reading returns what was written; nobody sees a chunk.                  *)
(***************************************************************************)
EXTENDS Integers, Sequences

CONSTANTS
    Data,       \* the strings of bytes that are written
    Lengths,    \* the lengths that are asked for
    Limit,      \* a bound of positions
    Throw       \* the answer to a call that asks for too much

VARIABLES
    content,    \* the bytes
    position,   \* a place in them
    out         \* what the last call returned

vars == <<content, position, out>>

Rest == Len(content) - position
Behind(v, n) == [k \in 1 .. n |-> v + k - 1]
Upto(n) == IF n < Rest THEN n ELSE Rest
Returns(call, v) == out' = [call |-> call, v |-> v]

Init ==
    /\ content = <<>>
    /\ position = 0
    /\ out = [call |-> "none"]

\* Writing replaces what is there and goes on behind the end.
Write(call, b) ==
    LET end == position + Len(b)
    IN  /\ content' = [k \in 1 .. (IF end > Len(content) THEN end ELSE Len(content)) |->
                          IF k \in position + 1 .. end THEN b[k - position] ELSE content[k]]
        /\ position' = end
        /\ Returns(call, Len(b))

Read(n) ==
    IF n > Rest
    THEN UNCHANGED <<content, position>> /\ Returns("read", Throw)
    ELSE /\ UNCHANGED content
         /\ position' = position + n
         /\ Returns("read", SubSeq(content, position + 1, position + n))

\* A position behind the end may be refused; if not, the bytes up to it are any.
SetPosition(v) ==
    \/ /\ v > Len(content)
       /\ UNCHANGED <<content, position>>
       /\ Returns("setPosition", Throw)
    \/ /\ position' = v
       /\ Len(content') = IF v > Len(content) THEN v ELSE Len(content)
       /\ SubSeq(content', 1, Len(content)) = content
       /\ Returns("setPosition", v)

Clear ==
    /\ content' = <<>>
    /\ position' = 0
    /\ Returns("clear", 0)

\* The rest, and the addresses of bytes to be read or written, leave all as it is.
Look ==
    /\ UNCHANGED <<content, position>>
    /\ \/ Returns("toString", SubSeq(content, position + 1, Len(content)))
       \/ \E n \in Lengths :
            \/ Returns("getReadBuffers", Behind(position, Upto(n)))
            \/ Returns("getWriteBuffers", Behind(position, n))
            \/ \E v \in 0 .. Limit :
                 /\ v + Upto(n) <= Len(content)
                 /\ out' = [call |-> "getReadBuffersAt", v |-> Behind(v, Upto(n)),
                             from |-> v, len |-> n]

\* A call of which nothing is promised but that it leaves the bytes alone.
Unpromised ==
    /\ UNCHANGED <<content, position>>
    /\ out' = [call |-> "unpromised"]

Next ==
    \/ \E b \in Data : Write("write", b) \/ Write("readFromFile", b)
    \/ \E n \in Lengths : Read(n)
    \/ \E v \in 0 .. Limit : SetPosition(v)
    \/ Clear \/ Look \/ Unpromised

Spec == Init /\ [][Next]_vars

=============================================================================
