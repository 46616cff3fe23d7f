------------------------------- MODULE ByteArray -------------------------------
(***************************************************************************)
(* ByteArray: the growing buffer that everything on the wire is written    *)
(* to and read from: a list of chunks of Base bytes each, a position, and  *)
(* a pointer to the chunk that the position is in.                         *)
(*                                                                         *)
(* A buffer is a record, each member function an operator on buffers, so   *)
(* that WireFormat can put the typed operations together from them.        *)
(***************************************************************************)
EXTENDS Integers, Sequences, SequencesExt

CONSTANTS
    Base,       \* m_baseSize, the size of every chunk (4096 by default)
    Limit,      \* a bound: no buffer grows beyond Limit bytes
    Data,       \* the strings of bytes that are written
    Lengths,    \* the lengths that are asked for
    Junk,       \* a byte that was never written
    Throw,      \* the outcome std::out_of_range
    Crash       \* the outcome of dereferencing a null pointer

ASSUME BufferAssumption ==
    /\ Base \in Nat \ {0}
    /\ Limit \in Nat
    /\ \A b \in Data : b \in Seq(Nat)
    /\ Lengths \subseteq Nat
    /\ Junk \notin Nat
    /\ Crash \notin Seq(Nat \cup {Junk})

VARIABLES
    bt,         \* the buffer
    out         \* what the last call returned

vars == <<bt, out>>

\* Chunks are numbered from 1; Null is the null pointer, also that behind the last chunk.
Null == 0
After(s, c) == IF c < Len(s.chunks) THEN c + 1 ELSE Null

\* new char[s] is not initialized.
NewNode == [k \in 1 .. Base |-> Junk]

New == [chunks |-> <<NewNode>>, cur |-> 1, position |-> 0, capacity |-> Base, size |-> 0,
        dead |-> FALSE]

Died(s) == [s EXCEPT !.dead = TRUE]

getReadSize(s) == s.size - s.position
getCapacity(s) == s.capacity - s.position

-----------------------------------------------------------------------------
(* The loop over the chunks that write, read and the buffer functions share. *)

\* The pieces that n bytes from place npos of chunk c on fall into; skip counts the bytes
\* before the piece.  It goes to the next chunk only while something is left.
Pieces(s, c, npos, n) ==
    LET walk[p \in (0 .. Len(s.chunks)) \X (0 .. Base) \X (0 .. n)] ==
            LET room == Base - p[2]
                left == p[3]
                piece(len) == [chunk |-> p[1], at |-> p[2], len |-> len, skip |-> n - left]
            IN  IF p[1] = Null \/ room >= left
                THEN << piece(left) >>
                ELSE << piece(room) >> \o walk[<<After(s, p[1]), 0, left - room>>]
    IN walk[<<c, npos, n>>]

HitsNull(ps) == \E i \in DOMAIN ps : ps[i].chunk = Null

\* The pointer moves on as soon as its chunk is full (CursorAfterStays is a bug to try).
CursorAfterStays(s, ps) == Last(ps).chunk
CursorAfter(s, ps) ==
    IF Last(ps).at + Last(ps).len = Base THEN After(s, Last(ps).chunk) ELSE Last(ps).chunk

\* The bytes of the pieces, and the chunks after b has been copied over them.
Gathered(s, ps) ==
    FlattenSeq([i \in DOMAIN ps |->
        SubSeq(s.chunks[ps[i].chunk], ps[i].at + 1, ps[i].at + ps[i].len)])

Scattered(s, ps, b) ==
    LET covers(p, d, k) == p.chunk = d /\ p.at < k /\ k <= p.at + p.len
    IN  [d \in DOMAIN s.chunks |-> [k \in 1 .. Base |->
            IF \E i \in DOMAIN ps : covers(ps[i], d, k)
            THEN LET i == CHOOSE i \in DOMAIN ps : covers(ps[i], d, k)
                 IN  b[ps[i].skip + k - ps[i].at]
            ELSE s.chunks[d][k]]]

-----------------------------------------------------------------------------
(* The member functions.                                                     *)

\* A bug to try: the pointer is left alone.
addCapacityCur(s, n) ==
    LET count == (n - getCapacity(s) + Base - 1) \div Base
    IN  IF n <= getCapacity(s) THEN s
        ELSE [s EXCEPT !.chunks = @ \o [i \in 1 .. count |-> NewNode],
                       !.capacity = @ + count * Base]

\* addCapacity: whole chunks are added; the pointer is set when it was behind the last chunk.
addCapacity(s, n) ==
    LET count == (n - getCapacity(s) + Base - 1) \div Base
    IN  IF n <= getCapacity(s) THEN s
        ELSE [s EXCEPT !.chunks = @ \o [i \in 1 .. count |-> NewNode],
                       !.capacity = @ + count * Base,
                       !.cur = IF getCapacity(s) = 0 THEN Len(s.chunks) + 1 ELSE @]

\* write: room first, then b over the pieces that it falls into.
WriteOver(s, ps, b, end) ==
    IF HitsNull(ps) THEN Died(s)
    ELSE [s EXCEPT !.chunks = Scattered(s, ps, b),
                   !.cur = CursorAfter(s, ps),
                   !.position = end,
                   !.size = IF end > @ THEN end ELSE @]

WriteInRoom(s, b) ==
    WriteOver(s, Pieces(s, s.cur, s.position % Base, Len(b)), b, s.position + Len(b))

write(s, b) == IF b = <<>> THEN s ELSE WriteInRoom(addCapacity(s, Len(b)), b)

\* read: the new buffer and the bytes.  The pointer is followed before the length is tested
\* for zero.
ReadOver(s, ps, n) ==
    IF HitsNull(ps) THEN [s |-> Died(s), v |-> Crash]
    ELSE [s |-> [s EXCEPT !.cur = CursorAfter(s, ps), !.position = @ + n],
          v |-> Gathered(s, ps)]

read(s, n) ==
    IF n > getReadSize(s) THEN [s |-> s, v |-> Throw]
    ELSE ReadOver(s, Pieces(s, s.cur, s.position % Base, n), n)

\* setPosition walks the list from the root; it may go beyond what was written.
Seek(s, v, c) == [s EXCEPT !.position = v, !.size = IF v > @ THEN v ELSE @, !.cur = c]

\* A bug to try: a position at the end of a chunk stays in it.
setPositionStays(s, v) ==
    LET seek[p \in (0 .. Len(s.chunks)) \X (0 .. v)] ==
            IF p[2] > Base THEN seek[<<After(s, p[1]), p[2] - Base>>] ELSE p[1]
    IN  Seek(s, v, seek[<<1, v>>])

setPosition(s, v) ==
    LET seek[p \in (0 .. Len(s.chunks)) \X (0 .. v)] ==
            IF p[2] > Base THEN seek[<<After(s, p[1]), p[2] - Base>>]
            ELSE IF p[2] = Base THEN After(s, p[1]) ELSE p[1]
    IN  Seek(s, v, seek[<<1, v>>])

clear(s) ==
    [s EXCEPT !.chunks = <<Head(@)>>, !.cur = 1, !.position = 0, !.capacity = Base, !.size = 0]

\* toString reads from the position on and leaves the position where it is.
toString(s) ==
    IF getReadSize(s) = 0 THEN <<>> ELSE read(s, getReadSize(s)).v

\* The iovecs of the three buffer functions, as the addresses of the bytes they cover.
Covered(ps) ==
    IF HitsNull(ps) THEN Crash
    ELSE FlattenSeq([i \in DOMAIN ps |->
             [k \in 1 .. ps[i].len |-> (ps[i].chunk - 1) * Base + ps[i].at + k - 1]])

Least(m, n) == IF m < n THEN m ELSE n

getReadBuffers(s, len) ==
    LET n == Least(len, getReadSize(s))
    IN  IF n = 0 THEN <<>> ELSE Covered(Pieces(s, s.cur, s.position % Base, n))

\* From any other position, the length is still cut to what is left behind the buffer's own,
\* and the chunk is counted off from the root, past the last one if v is.
ChunkOf(s, v) == IF v \div Base < Len(s.chunks) THEN v \div Base + 1 ELSE Null

getReadBuffersAt(s, len, v) ==
    LET n == Least(len, getReadSize(s))
    IN  IF n = 0 THEN <<>> ELSE Covered(Pieces(s, ChunkOf(s, v), v % Base, n))

getWriteBuffers(s, len) ==
    IF len = 0 THEN <<>> ELSE Covered(Pieces(s, s.cur, s.position % Base, len))

\* writeToFile takes one piece from each chunk.  Its length is that of the rest, a chunk at
\* most, less the place in the chunk - also when the rest ends before the chunk does.
\* (FilePieceFull is a bug to try: it does not look at where the rest ends.)
FilePieceFull(rest, at) == Base - at
FilePiece(rest, at) == (IF rest > Base THEN Base ELSE rest) - at

writeToFile(s) ==
    LET walk[p \in (0 .. Len(s.chunks)) \X Int \X Int] ==
            LET at == p[2] % Base
                rest == p[3]
                len == FilePiece(rest, at)
            IN  IF rest <= 0 THEN <<>>
                ELSE << [chunk |-> p[1], at |-> at, len |-> len] >>
                     \o IF p[1] = Null THEN <<>>
                         ELSE walk[<<After(s, p[1]), p[2] + len, rest - len>>]
        ps == walk[<<s.cur, s.position, getReadSize(s)>>]
    IN  IF HitsNull(ps) THEN Crash ELSE Gathered(s, ps)

\* readFromFile writes what it reads, Base bytes at a time, and nothing at the end of the file.
readFromFile(s, b) ==
    LET full == Len(b) \div Base
        part(i) == SubSeq(b, (i - 1) * Base + 1, Least(i * Base, Len(b)))
    IN  FoldLeft(write, s, [i \in 1 .. full + 1 |-> part(i)])

-----------------------------------------------------------------------------
(* The buffer as a state machine: any call in any order.  No action exceeds  *)
(* Limit, and a process that has followed a null pointer calls no more.      *)

Returned(call, v) == out' = [call |-> call, v |-> v]

\* A call that only looks, unless it follows a null pointer.
Outcome(s, v) == IF v = Crash THEN Died(s) ELSE s

Room(n) == ~ bt.dead /\ bt.position + n <= Limit

Write(b) ==
    /\ Room(Len(b))
    /\ bt' = write(bt, b)
    /\ Returned("write", Len(b))

Read(n) ==
    /\ ~ bt.dead
    /\ LET r == read(bt, n) IN bt' = r.s /\ Returned("read", r.v)

\* Beyond the capacity setPosition throws.
SetPosition(v) ==
    /\ ~ bt.dead
    /\ IF v > bt.capacity
       THEN UNCHANGED bt /\ Returned("setPosition", Throw)
       ELSE bt' = setPosition(bt, v) /\ Returned("setPosition", v)

Clear ==
    /\ ~ bt.dead
    /\ bt' = clear(bt)
    /\ Returned("clear", 0)

AsString ==
    /\ ~ bt.dead
    /\ bt' = Outcome(bt, toString(bt))
    /\ Returned("toString", toString(bt))

GetReadBuffers(n) ==
    /\ ~ bt.dead
    /\ bt' = Outcome(bt, getReadBuffers(bt, n))
    /\ Returned("getReadBuffers", getReadBuffers(bt, n))

GetReadBuffersAt(n, v) ==
    LET buffers == getReadBuffersAt(bt, n, v)
    IN  /\ ~ bt.dead
        /\ bt' = Outcome(bt, buffers)
        /\ out' = [call |-> "getReadBuffersAt", v |-> buffers, from |-> v, len |-> n]

\* The caller fills the buffers and then sets the position.
GetWriteBuffers(n) ==
    LET s == addCapacity(bt, n)
    IN  /\ Room(n)
        /\ bt' = Outcome(s, getWriteBuffers(s, n))
        /\ Returned("getWriteBuffers", getWriteBuffers(s, n))

WriteToFile ==
    /\ ~ bt.dead
    /\ bt' = Outcome(bt, writeToFile(bt))
    /\ Returned("writeToFile", writeToFile(bt))

ReadFromFile(b) ==
    /\ Room(Len(b))
    /\ bt' = readFromFile(bt, b)
    /\ Returned("readFromFile", Len(b))

Init ==
    /\ bt = New
    /\ out = [call |-> "none"]

Next ==
    \/ \E b \in Data : Write(b) \/ ReadFromFile(b)
    \/ \E n \in Lengths : Read(n) \/ GetReadBuffers(n) \/ GetWriteBuffers(n)
    \/ \E v \in 0 .. Limit : SetPosition(v) \/ \E n \in Lengths : GetReadBuffersAt(n, v)
    \/ Clear \/ AsString \/ WriteToFile

=============================================================================
