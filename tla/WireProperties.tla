----------------------------- MODULE WireProperties ----------------------------
(***************************************************************************)
(* What is claimed of ByteArray and WireFormat.                            *)
(***************************************************************************)
EXTENDS WireFormat

CONSTANTS
    Typed,      \* the values of each type, as pairs of a type and a value
    Rows        \* the containers, as pairs of a sequence of types and one of tuples

\* The position and the chunk pointer, kept up to date by every call on its own, never part:
\* the pointer is that of the chunk of the position, and null at the end of the capacity.
Coherent ==
    /\ bt.position <= bt.size /\ bt.size <= bt.capacity
    /\ bt.capacity = Base * Len(bt.chunks)
    /\ bt.cur = IF bt.position = bt.capacity THEN Null ELSE bt.position \div Base + 1

Bytes(s) == FlattenSeq(s.chunks)
RestOf(s) == SubSeq(Bytes(s), s.position + 1, s.size)

\* Where the buffers end that were asked for from a position (cut to the buffer's own rest).
EndAsked == out.from + Least(out.len, getReadSize(bt))

\* A null pointer is followed only in reading no bytes at the end of the capacity (read,
\* byte_array.cc:375), in writing a rest of one chunk at most to a file from inside a chunk
\* (byte_array.cc:461-463), and in getting buffers from a position behind the buffer's own
\* that reach beyond the end of the capacity (byte_array.cc:589-605).
DiesOnlyAtEnd ==
    bt.dead =>
        \/ out.call = "read" /\ bt.position = bt.capacity
        \/ out.call = "writeToFile" /\ bt.position % Base # 0 /\ getReadSize(bt) <= Base
        \/ out.call = "getReadBuffersAt" /\ EndAsked > bt.capacity

\* What writeToFile writes is the rest, if that begins with a chunk or is longer than one.
\* For a shorter rest from inside a chunk the length of a piece is too small, or negative, and
\* the loop goes on into the next chunks, and mostly off their end (byte_array.cc:461-463).
FileKept ==
    (/\ out.call = "writeToFile"
     /\ bt.position % Base = 0 \/ getReadSize(bt) > Base)
    => out.v = RestOf(bt)

\* Whatever is in the buffer and wherever its position: a value that is written and read
\* from the same place is the same value and leaves the same buffer.  Only an empty string
\* whose length ends with the capacity kills its reader.  (setPosition to where it is leaves
\* any buffer as it is, so that this looks at each buffer once.)
GivenBack(r, written, v) ==
    \/ r.v = v /\ r.s = written
    \/ r.v = Crash /\ written.position = written.capacity /\ v = <<>>

CodecsInvert ==
    LET Value(s, p) == GivenBack(Take(setPosition(s, bt.position), p[1]), s, p[2])
        Container(s, p) ==
            GivenBack(TakeContainer(setPosition(s, bt.position), p[1]), s, FlattenSeq(p[2]))
    IN  out.call = "setPosition" =>
            /\ \A p \in Typed : Value(Put(bt, p[1], p[2]), p)
            /\ \A p \in Rows : Container(PutContainer(bt, p[1], p[2]), p)

\* What the handler of one end gets is what the other end sent, field by field ("then we can
\* use the decoded data received", protocol.h:37-38).
MessageKept == out.call = "send" => out.v = out.message

-----------------------------------------------------------------------------
\* Of a call that died, buffers that reach behind what was written, and the contents of files
\* a flat buffer promises nothing.
Unseen ==
    \/ bt.dead
    \/ out.call \in {"writeToFile", "send"}
    \/ out.call = "getReadBuffersAt" /\ EndAsked > bt.size

\* ByteArray implements FlatBuffer, chunks and pointer hidden.
Flat == INSTANCE FlatBuffer WITH
    content <- SubSeq(Bytes(bt), 1, bt.size),
    position <- bt.position,
    out <- IF Unseen THEN [call |-> "unpromised"] ELSE out

ImplementsFlat == Flat!Spec

=============================================================================
