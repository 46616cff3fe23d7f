------------------------------- MODULE WireProofs ------------------------------
(***************************************************************************)
(* Proofs about ByteArray, for every size of chunk, every string that is   *)
(* written and every sequence of calls: the chunk pointer is that of the   *)
(* position, null pointers are followed only where WireProperties says,    *)
(* and the buffer is a flat one.                                           *)
(***************************************************************************)
EXTENDS WireProperties, SequenceTheorems, WellFoundedInduction, TLAPS

-----------------------------------------------------------------------------
(* Arithmetic, induction and the loops of the buffer.  A recursive function  *)
(* is chosen from the functions that satisfy its equation; each is shown to  *)
(* be one of them, as the provers know nothing of it otherwise.              *)

\* Products with the size of a chunk, which the solver takes for atoms.
LEMMA Times ==
    ASSUME NEW i \in Int, NEW j \in Int
    PROVE  /\ i * Base \in Int
           /\ (i + 1) * Base = i * Base + Base
           /\ (i - 1) * Base = i * Base - Base
           /\ i <= j => i * Base <= j * Base
           /\ i < j => i * Base + Base <= j * Base
<1>1. (i + 1) * Base = i * Base + Base /\ (i - 1) * Base = i * Base - Base /\ i * Base \in Int
  BY BufferAssumption
<1>2. ASSUME i <= j PROVE i * Base <= j * Base
  BY BufferAssumption, <1>2
<1>3. ASSUME i < j PROVE i * Base + Base <= j * Base
  BY BufferAssumption, <1>3
<1> QED
  BY <1>1, <1>2, <1>3

\* Quotient and remainder.
LEMMA DivMod ==
    ASSUME NEW x \in Int
    PROVE  /\ x \div Base \in Int
           /\ x % Base \in 0 .. Base - 1
           /\ x = (x \div Base) * Base + (x % Base)
BY BufferAssumption, Times

\* Quotient and remainder are the only ones.
LEMMA DivUnique ==
    ASSUME NEW q \in Int, NEW r \in 0 .. Base - 1
    PROVE  (q * Base + r) \div Base = q /\ (q * Base + r) % Base = r
<1> DEFINE x == q * Base + r
<1>1. x \in Int
  BY BufferAssumption, Times
<1>2. /\ x \div Base \in Int
      /\ x % Base \in 0 .. Base - 1
      /\ x = (x \div Base) * Base + (x % Base)
  BY <1>1, DivMod
<1> HIDE DEF x
<1>3. x \div Base = q
  <2>1. x = q * Base + r
    BY DEF x
  <2>2. ~ (x \div Base < q)
    BY <1>2, <2>1, Times, BufferAssumption
  <2>3. ~ (q < x \div Base)
    BY <1>2, <2>1, Times, BufferAssumption
  <2> QED
    BY <1>2, <2>2, <2>3
<1> QED
  BY <1>2, <1>3, Times, BufferAssumption DEF x

\* Induction: a set with 0 and with every successor of its numbers has all numbers.
LEMMA NatSets ==
    ASSUME NEW S, 0 \in S, \A n \in Nat : n \in S => n + 1 \in S
    PROVE  Nat \subseteq S
<1> SUFFICES ASSUME Nat \ S # {} PROVE FALSE
  OBVIOUS
<1>1. IsWellFoundedOn(OpToRel(<, Nat), Nat)
  BY NatLessThanWellFounded
<1>2. \A x, y \in Nat : y < x => <<y, x>> \in OpToRel(<, Nat)
  BY DEF OpToRel
<1>3. \E x \in Nat \ S : \A y \in Nat \ S : ~ (<<y, x>> \in OpToRel(<, Nat))
  BY <1>1, WFMin
<1>4. PICK x \in Nat \ S : \A y \in Nat \ S : ~ (y < x)
  BY <1>2, <1>3, Zenon
<1> QED
  <2>1. x # 0
    OBVIOUS
  <2>2. x - 1 \in Nat \ S /\ x - 1 < x
    BY <2>1
  <2> QED
    BY <1>4, <2>2

\* The loop of Pieces: its body, its places, and what it computes.
WalkBody(s, n, f, p) ==
    LET room == Base - p[2]
        left == p[3]
        piece(len) == [chunk |-> p[1], at |-> p[2], len |-> len, skip |-> n - left]
    IN  IF p[1] = Null \/ room >= left
        THEN << piece(left) >>
        ELSE << piece(room) >> \o f[<<After(s, p[1]), 0, left - room>>]

Places(D, n) == D \X (0 .. Base) \X (0 .. n)

IsWalk(s, n, D, f) == f = [p \in Places(D, n) |-> WalkBody(s, n, f, p)]

Walk(s, n) == CHOOSE f : IsWalk(s, n, 0 .. Len(s.chunks), f)

\* Pieces starts the loop at a place.
LEMMA PiecesWalk ==
    ASSUME NEW s, NEW c, NEW npos, NEW n
    PROVE  Pieces(s, c, npos, n) = Walk(s, n)[<<c, npos, n>>]
BY DEF Pieces, Walk, IsWalk, WalkBody, Places

\* There is such a function: chunks are followed in order, so each value rests on later ones.
LEMMA WalkExists ==
    ASSUME NEW s, NEW n \in Nat, Len(s.chunks) \in Nat
    PROVE  IsWalk(s, n, 0 .. Len(s.chunks), Walk(s, n))
<1> DEFINE L == Len(s.chunks)
           D(k) == {d \in 0 .. L : d = Null \/ d > L - k}
           S == {k \in Nat : \E f : IsWalk(s, n, D(k), f)}
<1>1. Base \in Nat \ {0}
  BY BufferAssumption
<1>2. 0 \in S
  <2> DEFINE g == [p \in Places(D(0), n) |-> WalkBody(s, n, <<>>, p)]
  <2>1. \A p \in Places(D(0), n) : p[1] = Null
    BY DEF Null, Places
  <2>2. \A p \in Places(D(0), n) : WalkBody(s, n, g, p) = WalkBody(s, n, <<>>, p)
    BY <2>1 DEF WalkBody
  <2>3. IsWalk(s, n, D(0), g)
    BY <2>2, Zenon DEF IsWalk
  <2> QED
    BY <2>3
<1>3. ASSUME NEW k \in Nat, k \in S
      PROVE  k + 1 \in S
  <2>1. PICK f : IsWalk(s, n, D(k), f)
    BY <1>3
  <2> DEFINE g == [p \in Places(D(k + 1), n) |-> WalkBody(s, n, f, p)]
  <2>2. \A p \in Places(D(k + 1), n) :
           p[1] # Null => After(s, p[1]) \in D(k)
    BY DEF After, Null, Places
  <2>3. Places(D(k), n) \subseteq Places(D(k + 1), n)
    BY DEF Places
  <2>4. \A p \in Places(D(k), n) : g[p] = f[p]
    BY <2>1, <2>3, Zenon DEF IsWalk
  <2>5. \A p \in Places(D(k + 1), n) : WalkBody(s, n, g, p) = WalkBody(s, n, f, p)
    <3> SUFFICES ASSUME NEW p \in Places(D(k + 1), n),
                        ~ (p[1] = Null \/ Base - p[2] >= p[3])
                 PROVE  g[<<After(s, p[1]), 0, p[3] - (Base - p[2])>>]
                        = f[<<After(s, p[1]), 0, p[3] - (Base - p[2])>>]
      <4> HIDE DEF g
      <4> QED
        BY Zenon DEF WalkBody
    <3>1. <<After(s, p[1]), 0, p[3] - (Base - p[2])>> \in Places(D(k), n)
      BY <1>1, <2>2 DEF Places
    <3> HIDE DEF g
    <3> QED
      BY <2>4, <3>1, Zenon
  <2>6. IsWalk(s, n, D(k + 1), g)
    BY <2>5, Zenon DEF IsWalk
  <2> HIDE DEF g, D
  <2> QED
    BY <2>6
<1>4. L \in S
  <2> HIDE DEF S
  <2> QED
    BY <1>2, <1>3, NatSets
<1>5. D(L) = 0 .. L
  BY DEF Null
<1> QED
  BY <1>4, <1>5, Zenon DEF Walk

\* The loop of setPosition.
SeekBody(s, f, p) ==
    IF p[2] > Base THEN f[<<After(s, p[1]), p[2] - Base>>]
    ELSE IF p[2] = Base THEN After(s, p[1]) ELSE p[1]

IsSeek(s, v, f) ==
    f = [p \in (0 .. Len(s.chunks)) \X (0 .. v) |-> SeekBody(s, f, p)]

SeekFrom(s, v) == CHOOSE f : IsSeek(s, v, f)

\* setPosition starts the loop at the root.
LEMMA SetPositionSeek ==
    ASSUME NEW s, NEW v
    PROVE  setPosition(s, v) = Seek(s, v, SeekFrom(s, v)[<<1, v>>])
BY DEF setPosition, SeekFrom, IsSeek, SeekBody

\* There is such a function.
LEMMA SeekExists ==
    ASSUME NEW s, NEW v \in Nat, Len(s.chunks) \in Nat
    PROVE  IsSeek(s, v, SeekFrom(s, v))
<1> DEFINE S == {k \in Nat : \E f : IsSeek(s, k, f)}
<1>1. Base \in Nat \ {0}
  BY BufferAssumption
<1>2. 0 \in S
  <2> DEFINE g == [p \in (0 .. Len(s.chunks)) \X (0 .. 0) |-> SeekBody(s, <<>>, p)]
  <2>1. \A p \in (0 .. Len(s.chunks)) \X (0 .. 0) : SeekBody(s, g, p) = SeekBody(s, <<>>, p)
    BY <1>1 DEF SeekBody
  <2>2. IsSeek(s, 0, g)
    BY <2>1, Zenon DEF IsSeek
  <2> HIDE DEF g
  <2> QED
    BY <2>2
<1>3. ASSUME NEW k \in Nat, k \in S
      PROVE  k + 1 \in S
  <2>1. PICK f : IsSeek(s, k, f)
    BY <1>3
  <2> DEFINE A == (0 .. Len(s.chunks)) \X (0 .. k)
             B == (0 .. Len(s.chunks)) \X (0 .. k + 1)
             g == [p \in B |-> SeekBody(s, f, p)]
  <2>2. A \subseteq B
    OBVIOUS
  <2>3. \A p \in A : g[p] = f[p]
    BY <2>1, <2>2, Zenon DEF IsSeek
  <2>4. \A p \in B : p[2] > Base => <<After(s, p[1]), p[2] - Base>> \in A
    BY <1>1 DEF After, Null
  <2>5. \A p \in B : SeekBody(s, g, p) = SeekBody(s, f, p)
    <3> HIDE DEF A, B, g
    <3> QED
      BY <2>3, <2>4, Zenon DEF SeekBody
  <2>6. IsSeek(s, k + 1, g)
    BY <2>5, Zenon DEF IsSeek
  <2> HIDE DEF g
  <2> QED
    BY <2>6
<1>4. v \in S
  <2> HIDE DEF S
  <2> QED
    BY <1>2, <1>3, NatSets
<1> QED
  BY <1>4, Zenon DEF SeekFrom

\* The loop of writeToFile.
FileBody(s, f, p) ==
    LET at == p[2] % Base
        rest == p[3]
        len == FilePiece(rest, at)
    IN  IF rest <= 0 THEN <<>>
        ELSE << [chunk |-> p[1], at |-> at, len |-> len] >>
             \o IF p[1] = Null THEN <<>>
                ELSE f[<<After(s, p[1]), p[2] + len, rest - len>>]

IsFile(s, D, f) == f = [p \in D \X Int \X Int |-> FileBody(s, f, p)]

FileWalk(s) == CHOOSE f : IsFile(s, 0 .. Len(s.chunks), f)

\* writeToFile starts the loop at the position.
LEMMA WriteToFileWalk ==
    ASSUME NEW s
    PROVE  LET ps == FileWalk(s)[<<s.cur, s.position, getReadSize(s)>>]
           IN  writeToFile(s) = IF HitsNull(ps) THEN Crash ELSE Gathered(s, ps)
BY DEF writeToFile, FileWalk, IsFile, FileBody

\* There is such a function.
LEMMA FileExists ==
    ASSUME NEW s, Len(s.chunks) \in Nat
    PROVE  IsFile(s, 0 .. Len(s.chunks), FileWalk(s))
<1> DEFINE L == Len(s.chunks)
           D(k) == {d \in 0 .. L : d = Null \/ d > L - k}
           S == {k \in Nat : \E f : IsFile(s, D(k), f)}
<1>1. Base \in Nat \ {0}
  BY BufferAssumption
<1>2. 0 \in S
  <2> DEFINE g == [p \in D(0) \X Int \X Int |-> FileBody(s, <<>>, p)]
  <2>1. \A p \in D(0) \X Int \X Int : p[1] = Null
    BY DEF Null
  <2>2. \A p \in D(0) \X Int \X Int : FileBody(s, g, p) = FileBody(s, <<>>, p)
    <3> HIDE DEF g, D
    <3> QED
      BY <2>1, Zenon DEF FileBody
  <2>3. IsFile(s, D(0), g)
    BY <2>2, Zenon DEF IsFile
  <2> HIDE DEF g, D
  <2> QED
    BY <2>3
<1>3. ASSUME NEW k \in Nat, k \in S
      PROVE  k + 1 \in S
  <2>1. PICK f : IsFile(s, D(k), f)
    BY <1>3
  <2> DEFINE g == [p \in D(k + 1) \X Int \X Int |-> FileBody(s, f, p)]
  <2>2. \A p \in D(k + 1) \X Int \X Int :
           p[1] # Null => <<After(s, p[1]), p[2] + FilePiece(p[3], p[2] % Base),
                            p[3] - FilePiece(p[3], p[2] % Base)>> \in D(k) \X Int \X Int
    <3> SUFFICES ASSUME NEW d \in D(k + 1), NEW x \in Int, NEW y \in Int, d # Null
                 PROVE  /\ After(s, d) \in D(k)
                        /\ x + FilePiece(y, x % Base) \in Int
                        /\ y - FilePiece(y, x % Base) \in Int
      BY Zenon
    <3>1. After(s, d) \in D(k)
      BY DEF After, Null
    <3>2. x % Base \in Int
      BY DivMod
    <3>3. FilePiece(y, x % Base) \in Int
      BY <1>1, <3>2 DEF FilePiece
    <3> QED
      BY <3>1, <3>3
  <2>3. D(k) \X Int \X Int \subseteq D(k + 1) \X Int \X Int
    OBVIOUS
  <2>4. \A p \in D(k) \X Int \X Int : g[p] = f[p]
    BY <2>1, <2>3, Zenon DEF IsFile
  <2>5. \A p \in D(k + 1) \X Int \X Int : FileBody(s, g, p) = FileBody(s, f, p)
    <3> HIDE DEF g, D
    <3> QED
      BY <2>2, <2>4, Zenon DEF FileBody
  <2>6. IsFile(s, D(k + 1), g)
    BY <2>5, Zenon DEF IsFile
  <2> HIDE DEF g, D
  <2> QED
    BY <2>6
<1>4. L \in S
  <2> HIDE DEF S
  <2> QED
    BY <1>2, <1>3, NatSets
<1>5. D(L) = 0 .. L
  BY DEF Null
<1> QED
  BY <1>4, <1>5, Zenon DEF FileWalk

\* The recursion of FlattenSeq.
FlatBody(ss, f, i) == IF i = 1 THEN ss[i] ELSE f[i - 1] \o ss[i]

IsFlat(ss, k, f) == f = [i \in 1 .. k |-> FlatBody(ss, f, i)]

FlatUpTo(ss) == CHOOSE f : IsFlat(ss, Len(ss), f)

\* FlattenSeq is the last value of it.
LEMMA FlattenSeqFlat ==
    ASSUME NEW ss, Len(ss) # 0
    PROVE  FlattenSeq(ss) = FlatUpTo(ss)[Len(ss)]
BY DEF FlattenSeq, FlatUpTo, IsFlat, FlatBody

\* There is such a function.
LEMMA FlatExists ==
    ASSUME NEW ss, Len(ss) \in Nat
    PROVE  IsFlat(ss, Len(ss), FlatUpTo(ss))
<1> DEFINE S == {k \in Nat : \E f : IsFlat(ss, k, f)}
<1>1. 0 \in S
  <2> DEFINE g == [i \in 1 .. 0 |-> FlatBody(ss, <<>>, i)]
  <2>1. \A i \in 1 .. 0 : FlatBody(ss, g, i) = FlatBody(ss, <<>>, i)
    OBVIOUS
  <2>2. IsFlat(ss, 0, g)
    BY <2>1, Zenon DEF IsFlat
  <2> HIDE DEF g
  <2> QED
    BY <2>2
<1>2. ASSUME NEW k \in Nat, k \in S
      PROVE  k + 1 \in S
  <2>1. PICK f : IsFlat(ss, k, f)
    BY <1>2
  <2> DEFINE g == [i \in 1 .. k + 1 |-> FlatBody(ss, f, i)]
  <2>2. \A i \in 1 .. k : g[i] = f[i]
    BY <2>1 DEF IsFlat
  <2>3. \A i \in 1 .. k + 1 : i # 1 => i - 1 \in 1 .. k
    OBVIOUS
  <2>4. \A i \in 1 .. k + 1 : FlatBody(ss, g, i) = FlatBody(ss, f, i)
    <3> HIDE DEF g
    <3> QED
      BY <2>2, <2>3, Zenon DEF FlatBody
  <2>5. IsFlat(ss, k + 1, g)
    BY <2>4, Zenon DEF IsFlat
  <2> HIDE DEF g
  <2> QED
    BY <2>5
<1>3. Len(ss) \in S
  <2> HIDE DEF S
  <2> QED
    BY <1>1, <1>2, NatSets
<1> QED
  BY <1>3, Zenon DEF FlatUpTo

\* The recursion of FoldLeft over sets of indices, as readFromFile uses it.
IterBody(s, q, f, T) == IF T = {} THEN s ELSE write(f[T \ {Max(T)}], q[Max(T)])

IsIter(s, q, D, f) == f = [T \in SUBSET D |-> IterBody(s, q, f, T)]

Iter(s, q) == CHOOSE f : IsIter(s, q, DOMAIN q, f)

Folded(s, q) == FoldLeft(write, s, q)

\* FoldLeft is its value for all indices.
LEMMA FoldIter ==
    ASSUME NEW s, NEW q
    PROVE  Folded(s, q) = Iter(s, q)[DOMAIN q]
BY Zenon DEF Folded, FoldLeft, MapThenFoldSet, Iter, IsIter, IterBody

\* A set of small numbers has a greatest one.
LEMMA MaxIsThere ==
    ASSUME NEW k \in Nat, NEW T \in SUBSET (1 .. k), T # {}
    PROVE  Max(T) \in T /\ \A y \in T : y <= Max(T)
<1> DEFINE S == {m \in Nat : \A U \in SUBSET (1 .. m) :
                    U # {} => \E x \in U : \A y \in U : x >= y}
<1>1. 0 \in S
  <2>1. \A U \in SUBSET (1 .. 0) : U = {}
    OBVIOUS
  <2> QED
    BY <2>1
<1>2. ASSUME NEW m \in Nat, m \in S
      PROVE  m + 1 \in S
  <2> SUFFICES ASSUME NEW U \in SUBSET (1 .. m + 1), U # {}
               PROVE  \E x \in U : \A y \in U : x >= y
    OBVIOUS
  <2>1. CASE m + 1 \in U
    BY <2>1
  <2>2. CASE m + 1 \notin U
    BY <1>2, <2>2
  <2> QED
    BY <2>1, <2>2
<1>3. k \in S
  <2> HIDE DEF S
  <2> QED
    BY <1>1, <1>2, NatSets
<1>4. \E x \in T : \A y \in T : x >= y
  BY <1>3
<1>5. Max(T) \in T /\ \A y \in T : Max(T) >= y
  BY <1>4, Zenon DEF Max
<1> QED
  BY <1>5

\* There is such a function.
LEMMA IterExists ==
    ASSUME NEW s, NEW q, NEW m \in Nat, DOMAIN q = 1 .. m
    PROVE  IsIter(s, q, 1 .. m, Iter(s, q))
<1> DEFINE S == {k \in Nat : \E f : IsIter(s, q, 1 .. k, f)}
<1>1. 0 \in S
  <2> DEFINE g == [T \in SUBSET (1 .. 0) |-> IterBody(s, q, <<>>, T)]
  <2>1. \A T \in SUBSET (1 .. 0) : T = {}
    OBVIOUS
  <2>2. \A T \in SUBSET (1 .. 0) : IterBody(s, q, g, T) = IterBody(s, q, <<>>, T)
    <3> HIDE DEF g
    <3> QED
      BY <2>1, Zenon DEF IterBody
  <2>3. IsIter(s, q, 1 .. 0, g)
    BY <2>2, Zenon DEF IsIter
  <2> HIDE DEF g
  <2> QED
    BY <2>3
<1>2. ASSUME NEW k \in Nat, k \in S
      PROVE  k + 1 \in S
  <2>1. PICK f : IsIter(s, q, 1 .. k, f)
    BY <1>2
  <2> DEFINE g == [T \in SUBSET (1 .. k + 1) |-> IterBody(s, q, f, T)]
  <2>2. SUBSET (1 .. k) \subseteq SUBSET (1 .. k + 1)
    OBVIOUS
  <2>3. \A T \in SUBSET (1 .. k) : g[T] = f[T]
    BY <2>1, <2>2, Zenon DEF IsIter
  <2>4. \A T \in SUBSET (1 .. k + 1) : T # {} => T \ {Max(T)} \in SUBSET (1 .. k)
    <3> SUFFICES ASSUME NEW T \in SUBSET (1 .. k + 1), T # {}, NEW x \in T, x # Max(T)
                 PROVE  x \in 1 .. k
      OBVIOUS
    <3>1. k + 1 \in Nat
      OBVIOUS
    <3>2. Max(T) \in T /\ \A y \in T : y <= Max(T)
      BY <3>1, MaxIsThere, Zenon
    <3>3. x \in 1 .. k + 1 /\ Max(T) \in 1 .. k + 1 /\ x <= Max(T)
      BY <3>2
    <3> QED
      BY <3>3
  <2>5. \A T \in SUBSET (1 .. k + 1) : IterBody(s, q, g, T) = IterBody(s, q, f, T)
    <3> HIDE DEF g
    <3> QED
      BY <2>3, <2>4, Zenon DEF IterBody
  <2>6. IsIter(s, q, 1 .. k + 1, g)
    BY <2>5, Zenon DEF IsIter
  <2> HIDE DEF g
  <2> QED
    BY <2>6
<1>3. m \in S
  <2> HIDE DEF S
  <2> QED
    BY <1>1, <1>2, NatSets
<1> QED
  BY <1>3, Zenon DEF Iter

\* Folding is writing one string after the other.
LEMMA FoldSteps ==
    ASSUME NEW s, NEW q, NEW m \in Nat, DOMAIN q = 1 .. m
    PROVE  /\ Folded(s, q) = Iter(s, q)[1 .. m]
           /\ Iter(s, q)[1 .. 0] = s
           /\ \A k \in 0 .. m - 1 : Iter(s, q)[1 .. k + 1] = write(Iter(s, q)[1 .. k], q[k + 1])
<1>1. IsIter(s, q, 1 .. m, Iter(s, q))
  BY IterExists
<1>2. \A T \in SUBSET (1 .. m) : Iter(s, q)[T] = IterBody(s, q, Iter(s, q), T)
  BY <1>1, Zenon DEF IsIter
<1>3. Iter(s, q)[1 .. 0] = s
  <2>1. (1 .. 0) \in SUBSET (1 .. m) /\ 1 .. 0 = {}
    OBVIOUS
  <2> QED
    BY <1>2, <2>1, Zenon DEF IterBody
<1>4. ASSUME NEW k \in 0 .. m - 1
      PROVE  Iter(s, q)[1 .. k + 1] = write(Iter(s, q)[1 .. k], q[k + 1])
  <2>1. 1 .. k + 1 \in SUBSET (1 .. m) /\ 1 .. k + 1 # {}
    <3>1. 1 \in 1 .. k + 1 /\ k + 1 <= m
      OBVIOUS
    <3>2. \A i \in 1 .. k + 1 : i \in 1 .. m
      BY <3>1
    <3> QED
      BY <3>1, <3>2
  <2>2. Max(1 .. k + 1) = k + 1
    <3>1. k + 1 \in Nat /\ 1 .. k + 1 \in SUBSET (1 .. k + 1)
      OBVIOUS
    <3>2. Max(1 .. k + 1) \in 1 .. k + 1 /\ \A y \in 1 .. k + 1 : y <= Max(1 .. k + 1)
      BY <2>1, <3>1, MaxIsThere, Zenon
    <3>3. k + 1 \in 1 .. k + 1
      OBVIOUS
    <3>4. Max(1 .. k + 1) \in Int /\ Max(1 .. k + 1) <= k + 1 /\ k + 1 <= Max(1 .. k + 1)
      BY <3>2, <3>3
    <3> QED
      BY <3>4
  <2>3. (1 .. k + 1) \ {k + 1} = 1 .. k
    OBVIOUS
  <2> QED
    BY <1>2, <2>1, <2>2, <2>3, Zenon DEF IterBody
<1> QED
  BY <1>3, <1>4, FoldIter

-----------------------------------------------------------------------------
(* Sequences put together from parts.                                        *)

\* Lengths of m parts, and where each part begins, that add up to n.
Joined(skip, len, m, n) ==
    /\ m \in Nat \ {0}
    /\ skip \in [1 .. m -> Nat] /\ len \in [1 .. m -> Nat]
    /\ skip[1] = 0
    /\ \A i \in 1 .. m - 1 : skip[i + 1] = skip[i] + len[i]
    /\ skip[m] + len[m] = n

\* Each part lies within the whole.
LEMMA JoinedWithin ==
    ASSUME NEW skip, NEW len, NEW m, NEW n, Joined(skip, len, m, n)
    PROVE  n \in Nat /\ \A i \in 1 .. m : skip[i] + len[i] <= n
<1> USE DEF Joined
<1> DEFINE S == {k \in Nat : \A i \in 1 .. m : i + k = m => skip[i] + len[i] <= n}
<1>1. n \in Nat
  OBVIOUS
<1>2. 0 \in S
  OBVIOUS
<1>3. ASSUME NEW k \in Nat, k \in S
      PROVE  k + 1 \in S
  <2> SUFFICES ASSUME NEW i \in 1 .. m, i + (k + 1) = m
               PROVE  skip[i] + len[i] <= n
    OBVIOUS
  <2>1. i + 1 \in 1 .. m /\ i \in 1 .. m - 1 /\ (i + 1) + k = m
    OBVIOUS
  <2>2. skip[i + 1] + len[i + 1] <= n
    BY <1>3, <2>1
  <2>3. skip[i + 1] = skip[i] + len[i]
    BY <2>1
  <2>4. skip[i + 1] \in Nat /\ len[i + 1] \in Nat
    BY <2>1
  <2> QED
    BY SMTT(60), <1>1, <2>2, <2>3, <2>4
<1>4. Nat \subseteq S
  <2> HIDE DEF S
  <2> QED
    BY <1>2, <1>3, NatSets
<1>5. ASSUME NEW i \in 1 .. m PROVE skip[i] + len[i] <= n
  <2>1. m - i \in Nat /\ i + (m - i) = m
    OBVIOUS
  <2>2. m - i \in S
    BY <1>4, <2>1
  <2> QED
    BY <2>1, <2>2
<1> QED
  BY <1>1, <1>5

\* Each place of the whole lies in a part.
LEMMA JoinedCover ==
    ASSUME NEW skip, NEW len, NEW m, NEW n, Joined(skip, len, m, n), NEW y \in 1 .. n
    PROVE  \E i \in 1 .. m : skip[i] < y /\ y <= skip[i] + len[i]
<1> USE DEF Joined
<1> DEFINE Found == \E i \in 1 .. m : skip[i] < y /\ y <= skip[i] + len[i]
           S == {k \in Nat : k + 1 <= m => Found \/ skip[k + 1] + len[k + 1] < y}
<1>1. 0 \in S
  <2>1. 1 \in 1 .. m /\ 0 + 1 = 1 /\ y \in Nat
    OBVIOUS
  <2>2. skip[1] + len[1] < y \/ (skip[1] < y /\ y <= skip[1] + len[1])
    BY <2>1
  <2> QED
    BY <2>1, <2>2
<1>2. ASSUME NEW k \in Nat, k \in S
      PROVE  k + 1 \in S
  <2> SUFFICES ASSUME (k + 1) + 1 <= m, ~ Found
               PROVE  skip[k + 1 + 1] + len[k + 1 + 1] < y
    OBVIOUS
  <2>1. k + 1 \in 1 .. m - 1 /\ k + 1 + 1 \in 1 .. m /\ k + 1 <= m
    OBVIOUS
  <2>2. skip[k + 1] + len[k + 1] < y
    BY <1>2, <2>1
  <2>3. skip[k + 1 + 1] = skip[k + 1] + len[k + 1]
    BY <2>1
  <2>4. skip[k + 1 + 1] \in Nat /\ len[k + 1 + 1] \in Nat
    BY <2>1
  <2>5. ~ (y <= skip[k + 1 + 1] + len[k + 1 + 1])
    BY <2>1, <2>2, <2>3
  <2>6. n \in Nat /\ y \in Nat
    OBVIOUS
  <2> QED
    BY <2>4, <2>5, <2>6
<1>3. m - 1 \in S
  <2>1. m - 1 \in Nat
    OBVIOUS
  <2> HIDE DEF S
  <2> QED
    BY <1>1, <1>2, <2>1, NatSets
<1>4. (m - 1) + 1 = m /\ m <= m
  OBVIOUS
<1>5. Found \/ skip[m] + len[m] < y
  BY <1>3, <1>4
<1> QED
  BY <1>5

\* FlattenSeq puts the parts where they begin.
LEMMA FlattenJoined ==
    ASSUME NEW T, NEW ss \in Seq(Seq(T)), NEW skip, NEW n,
           Joined(skip, [i \in 1 .. Len(ss) |-> Len(ss[i])], Len(ss), n)
    PROVE  /\ FlattenSeq(ss) \in Seq(T) /\ Len(FlattenSeq(ss)) = n
           /\ \A i \in 1 .. Len(ss) : \A k \in 1 .. Len(ss[i]) :
                FlattenSeq(ss)[skip[i] + k] = ss[i][k]
<1> DEFINE m == Len(ss)
           F == FlatUpTo(ss)
           Upto(k) == /\ F[k] \in Seq(T)
                      /\ Len(F[k]) = skip[k] + Len(ss[k])
                      /\ \A i \in 1 .. k : \A j \in 1 .. Len(ss[i]) :
                           /\ F[k][skip[i] + j] = ss[i][j]
                           /\ skip[i] + j \in 1 .. Len(F[k])
           S == {k \in Nat : k + 1 <= m => Upto(k + 1)}
<1>1. /\ m \in Nat \ {0} /\ skip \in [1 .. m -> Nat]
      /\ skip[1] = 0 /\ skip[m] + Len(ss[m]) = n
      /\ \A i \in 1 .. m - 1 : skip[i + 1] = skip[i] + Len(ss[i])
      /\ \A i \in 1 .. m : ss[i] \in Seq(T) /\ Len(ss[i]) \in Nat
  <2> DEFINE len == [i \in 1 .. m |-> Len(ss[i])]
  <2>1. m \in Nat /\ \A i \in 1 .. m : ss[i] \in Seq(T) /\ Len(ss[i]) \in Nat /\ len[i] = Len(ss[i])
    OBVIOUS
  <2>2. /\ m \in Nat \ {0} /\ skip \in [1 .. m -> Nat]
        /\ skip[1] = 0 /\ skip[m] + len[m] = n
        /\ \A i \in 1 .. m - 1 : skip[i + 1] = skip[i] + len[i]
    BY DEF Joined
  <2>3. m \in 1 .. m /\ \A i \in 1 .. m - 1 : i \in 1 .. m
    BY <2>2
  <2> HIDE DEF len
  <2> QED
    BY <2>1, <2>2, <2>3
<1>2. \A i \in 1 .. m : F[i] = FlatBody(ss, F, i)
  BY <1>1, FlatExists, Zenon DEF IsFlat
<1>3. FlattenSeq(ss) = F[m]
  BY <1>1, FlattenSeqFlat
<1> HIDE DEF F
<1>4. 0 \in S
  <2>1. F[1] = ss[1]
    BY <1>1, <1>2 DEF FlatBody
  <2>2. Upto(1)
    BY <1>1, <2>1
  <2> QED
    BY <2>2
<1>5. ASSUME NEW k \in Nat, k \in S
      PROVE  k + 1 \in S
  <2> SUFFICES ASSUME (k + 1) + 1 <= m
               PROVE  Upto((k + 1) + 1)
    OBVIOUS
  <2> DEFINE h == k + 1
  <2>0. h \in 1 .. m - 1 /\ h \in 1 .. m /\ h + 1 \in 1 .. m /\ h + 1 # 1 /\ (h + 1) - 1 = h
    OBVIOUS
  <2>1. Upto(h)
    BY SMTT(60), <1>5
  <2> HIDE DEF h
  <2>2. F[h + 1] = F[h] \o ss[h + 1]
    BY <1>2, <2>0 DEF FlatBody
  <2>3. /\ ss[h + 1] \in Seq(T) /\ Len(ss[h + 1]) \in Nat
        /\ skip[h + 1] = skip[h] + Len(ss[h]) /\ skip[h + 1] \in Nat
    BY <1>1, <2>0
  <2>4. /\ F[h + 1] \in Seq(T)
        /\ Len(F[h + 1]) = Len(F[h]) + Len(ss[h + 1])
        /\ \A i \in 1 .. Len(F[h]) + Len(ss[h + 1]) :
             F[h + 1][i] = IF i <= Len(F[h]) THEN F[h][i] ELSE ss[h + 1][i - Len(F[h])]
    <3>1. F[h] \in Seq(T) /\ ss[h + 1] \in Seq(T)
      BY <2>1, <2>3
    <3> DEFINE t == F[h]
               u == ss[h + 1]
    <3>2. /\ t \o u \in Seq(T)
          /\ Len(t \o u) = Len(t) + Len(u)
          /\ \A i \in 1 .. Len(t) + Len(u) :
               (t \o u)[i] = IF i <= Len(t) THEN t[i] ELSE u[i - Len(t)]
      <4> HIDE DEF t, u
      <4> QED
        BY <3>1, ConcatProperties DEF t, u
    <3> QED
      BY <2>2, <3>2
  <2>5. Len(F[h]) = skip[h + 1]
    BY <2>1, <2>3
  <2>6. ASSUME NEW i \in 1 .. h + 1, NEW j \in 1 .. Len(ss[i])
        PROVE  /\ F[h + 1][skip[i] + j] = ss[i][j]
               /\ skip[i] + j \in 1 .. Len(F[h + 1])
    <3>1. CASE i = h + 1
      <4>1. j \in 1 .. Len(ss[h + 1]) /\ skip[i] = Len(F[h])
        BY <2>5, <3>1
      <4>2. /\ skip[i] + j \in 1 .. Len(F[h]) + Len(ss[h + 1])
            /\ ~ (skip[i] + j <= Len(F[h])) /\ (skip[i] + j) - Len(F[h]) = j
        BY SMTT(60), <2>3, <2>5, <4>1
      <4> QED
        BY <2>4, <3>1, <4>2
    <3>2. CASE i # h + 1
      <4>1. i \in 1 .. h
        BY <2>0, <3>2
      <4>2. F[h][skip[i] + j] = ss[i][j] /\ skip[i] + j \in 1 .. Len(F[h])
        BY <2>1, <4>1
      <4>3. skip[i] + j \in 1 .. Len(F[h]) + Len(ss[h + 1]) /\ skip[i] + j <= Len(F[h])
        BY SMTT(60), <2>3, <2>5, <4>2
      <4> QED
        BY <2>4, <4>2, <4>3
    <3> QED
      BY <3>1, <3>2
  <2>7. Upto(h + 1)
    BY <2>3, <2>4, <2>5, <2>6
  <2> QED
    BY <2>7 DEF h
<1>6. m - 1 \in S
  <2>1. m - 1 \in Nat
    BY <1>1
  <2> HIDE DEF S
  <2> QED
    BY <1>4, <1>5, <2>1, NatSets
<1>7. Upto(m)
  <2>1. (m - 1) + 1 = m /\ m <= m
    BY <1>1
  <2> QED
    BY <1>6, <2>1
<1> QED
  BY <1>1, <1>3, <1>7

\* The same with the places of each part given.
LEMMA FlattenSegments ==
    ASSUME NEW T, NEW ss \in Seq(Seq(T)), NEW skip, NEW len, NEW n,
           Joined(skip, len, Len(ss), n), \A i \in 1 .. Len(ss) : len[i] = Len(ss[i])
    PROVE  /\ FlattenSeq(ss) \in Seq(T) /\ Len(FlattenSeq(ss)) = n
           /\ \A i \in 1 .. Len(ss) : \A k \in 1 .. Len(ss[i]) :
                FlattenSeq(ss)[skip[i] + k] = ss[i][k]
<1>1. len = [i \in 1 .. Len(ss) |-> len[i]]
  BY DEF Joined
<1>2. len = [i \in 1 .. Len(ss) |-> Len(ss[i])]
  BY <1>1
<1>3. Joined(skip, [i \in 1 .. Len(ss) |-> Len(ss[i])], Len(ss), n)
  BY <1>2
<1> QED
  BY <1>3, FlattenJoined

\* Parts at their places, and the places of their members in the whole; named
\* so that a proof can pass from one to the other without the quantifiers.
Segments(T, ss, skip, len, n) ==
    /\ ss \in Seq(Seq(T)) /\ Joined(skip, len, Len(ss), n)
    /\ \A i \in 1 .. Len(ss) : len[i] = Len(ss[i])

Segmented(T, ss, skip, n) ==
    /\ FlattenSeq(ss) \in Seq(T) /\ Len(FlattenSeq(ss)) = n
    /\ \A i \in 1 .. Len(ss) : \A k \in 1 .. Len(ss[i]) :
         FlattenSeq(ss)[skip[i] + k] = ss[i][k]

\* FlattenSegments under these names.
LEMMA SegmentsFlattened ==
    ASSUME NEW T, NEW ss, NEW skip, NEW len, NEW n, Segments(T, ss, skip, len, n)
    PROVE  Segmented(T, ss, skip, n)
<1>1. /\ ss \in Seq(Seq(T)) /\ Joined(skip, len, Len(ss), n)
      /\ \A i \in 1 .. Len(ss) : len[i] = Len(ss[i])
  BY DEF Segments
<1>2. /\ FlattenSeq(ss) \in Seq(T) /\ Len(FlattenSeq(ss)) = n
      /\ \A i \in 1 .. Len(ss) : \A k \in 1 .. Len(ss[i]) :
           FlattenSeq(ss)[skip[i] + k] = ss[i][k]
  BY <1>1, FlattenSegments
<1> QED
  BY <1>2 DEF Segmented

-----------------------------------------------------------------------------
(* Chunks and the bytes in them.                                             *)

\* Bytes, chunks, and the byte at a place of the buffer.
Byte == Nat \cup {Junk}
Chunk == [1 .. Base -> Byte]
ChunksOK(s) == s.chunks \in Seq(Chunk) /\ s.chunks # <<>>

ByteAt(s, x) == s.chunks[(x \div Base) + 1][(x % Base) + 1]

\* The type of chunks.
LEMMA ChunkFacts ==
    ASSUME NEW s, ChunksOK(s)
    PROVE  /\ Len(s.chunks) \in Nat \ {0}
           /\ \A d \in 1 .. Len(s.chunks) :
                /\ s.chunks[d] \in Chunk /\ s.chunks[d] \in Seq(Byte)
                /\ Len(s.chunks[d]) = Base
                /\ \A k \in 1 .. Base : s.chunks[d][k] \in Byte
<1>1. Base \in Nat \ {0}
  BY BufferAssumption
<1>2. Len(s.chunks) \in Nat \ {0} /\ \A d \in 1 .. Len(s.chunks) : s.chunks[d] \in Chunk
  BY DEF ChunksOK
<1>3. ASSUME NEW c \in Chunk
      PROVE  c \in Seq(Byte) /\ Len(c) = Base /\ \A k \in 1 .. Base : c[k] \in Byte
  BY <1>1 DEF Chunk
<1> QED
  BY <1>2, <1>3

\* The chunk of a byte and its place in the chunk.
LEMMA PlaceOfByte ==
    ASSUME NEW L \in Nat, NEW x \in 0 .. Base * L - 1
    PROVE  /\ (x \div Base) + 1 \in 1 .. L
           /\ (x % Base) + 1 \in 1 .. Base
           /\ x = (((x \div Base) + 1) - 1) * Base + ((x % Base) + 1) - 1
<1>1. Base \in Nat \ {0} /\ Base * L = L * Base /\ L * Base \in Int
  BY BufferAssumption
<1>2. /\ x \div Base \in Int /\ x % Base \in 0 .. Base - 1
      /\ x = (x \div Base) * Base + (x % Base)
  BY <1>1, DivMod
<1> DEFINE q == x \div Base
           r == x % Base
<1> HIDE DEF q, r
<1>3. q \in Int /\ r \in 0 .. Base - 1 /\ x = q * Base + r
  BY <1>2 DEF q, r
<1>4. q * Base \in Int /\ x \in Int /\ 0 <= x /\ x < L * Base
  BY <1>1, <1>3
<1>5. 0 <= q
  <2> SUFFICES ASSUME q < 0 PROVE FALSE
    BY <1>3
  <2>1. q * Base + Base <= 0 * Base
    BY <1>3, Times
  <2> QED
    BY <1>1, <1>3, <1>4, <2>1
<1>6. q < L
  <2> SUFFICES ASSUME L <= q PROVE FALSE
    BY <1>3
  <2>1. L * Base <= q * Base
    BY <1>3, Times
  <2> QED
    BY <1>1, <1>3, <1>4, <2>1
<1>7. (q + 1) - 1 = q
  BY <1>3
<1>8. q + 1 \in 1 .. L /\ r + 1 \in 1 .. Base /\ x = ((q + 1) - 1) * Base + (r + 1) - 1
  BY <1>1, <1>3, <1>4, <1>5, <1>6, <1>7
<1> QED
  BY <1>8 DEF q, r

\* The byte at a place of a chunk.
LEMMA ByteOfPlace ==
    ASSUME NEW s, NEW L \in Nat, NEW d \in 1 .. L, NEW k \in 1 .. Base
    PROVE  /\ (d - 1) * Base + k - 1 \in 0 .. Base * L - 1
           /\ ByteAt(s, (d - 1) * Base + k - 1) = s.chunks[d][k]
<1>1. Base \in Nat \ {0} /\ Base * L = L * Base /\ L * Base \in Int
  BY BufferAssumption
<1> DEFINE q == d - 1
           r == k - 1
<1>2. q \in Nat /\ r \in 0 .. Base - 1 /\ q < L /\ d = q + 1 /\ k = r + 1
  BY <1>1
<1> HIDE DEF q, r
<1>3. q * Base + Base <= L * Base /\ 0 * Base <= q * Base /\ q * Base \in Int
  <2>1. q \in Int /\ L \in Int /\ q < L /\ 0 <= q
    BY <1>2
  <2>2. q * Base + Base <= L * Base /\ q * Base \in Int
    BY <2>1, Times
  <2>3. 0 * Base <= q * Base
    BY <2>1, Times
  <2> QED
    BY <2>2, <2>3
<1>4. q * Base + r \in 0 .. Base * L - 1
  BY <1>1, <1>2, <1>3
<1>5. (q * Base + r) \div Base = q /\ (q * Base + r) % Base = r
  BY <1>2, DivUnique
<1>6. (d - 1) * Base + k - 1 = q * Base + r
  BY <1>1, <1>2, <1>3 DEF q
<1> QED
  BY <1>2, <1>4, <1>5, <1>6 DEF ByteAt

\* The bytes of all chunks in a row.
LEMMA BytesOf ==
    ASSUME NEW s, ChunksOK(s)
    PROVE  /\ Bytes(s) \in Seq(Byte)
           /\ Len(Bytes(s)) = Base * Len(s.chunks)
           /\ \A x \in 0 .. Base * Len(s.chunks) - 1 : Bytes(s)[x + 1] = ByteAt(s, x)
<1> DEFINE ss == s.chunks
           m == Len(ss)
           skip == [i \in 1 .. m |-> (i - 1) * Base]
           len == [i \in 1 .. m |-> Len(ss[i])]
<1>1. Base \in Nat \ {0} /\ m \in Nat \ {0} /\ Base * m = m * Base /\ m * Base \in Int
  BY BufferAssumption, ChunkFacts
<1>2. ss \in Seq(Seq(Byte)) /\ \A i \in 1 .. m : Len(ss[i]) = Base
  <2>1. Chunk \subseteq Seq(Byte)
    BY <1>1 DEF Chunk
  <2>2. ss \in Seq(Seq(Byte))
    BY <2>1, SeqMonotonic DEF ChunksOK
  <2> QED
    BY <2>2, ChunkFacts
<1>3. Joined(skip, len, m, Base * m)
  <2>1. \A i \in 1 .. m : skip[i] = (i - 1) * Base /\ len[i] = Base /\ (i - 1) * Base \in Nat
    <3> TAKE i \in 1 .. m
    <3>1. 0 * Base <= (i - 1) * Base /\ (i - 1) * Base \in Int
      BY <1>1, Times
    <3> QED
      BY <1>1, <1>2, <3>1
  <2>2. skip \in [1 .. m -> Nat] /\ len \in [1 .. m -> Nat]
    BY <1>1, <2>1
  <2>3. \A i \in 1 .. m - 1 : skip[i + 1] = skip[i] + len[i]
    <3> TAKE i \in 1 .. m - 1
    <3>1. i \in 1 .. m /\ i + 1 \in 1 .. m /\ (i + 1) - 1 = (i - 1) + 1
      OBVIOUS
    <3>2. ((i - 1) + 1) * Base = (i - 1) * Base + Base
      BY Times
    <3> HIDE DEF skip, len
    <3> QED
      BY <2>1, <3>1, <3>2
  <2>4. skip[1] = 0 /\ skip[m] + len[m] = Base * m
    <3>1. 1 \in 1 .. m /\ m \in 1 .. m
      BY <1>1
    <3>2. (m - 1) * Base = m * Base - Base /\ (1 - 1) * Base = 0
      BY <1>1, Times
    <3> HIDE DEF skip, len, m
    <3> QED
      BY <1>1, <2>1, <3>1, <3>2
  <2> HIDE DEF skip, len, m
  <2> QED
    BY <1>1, <2>2, <2>3, <2>4 DEF Joined
<1>4. /\ FlattenSeq(ss) \in Seq(Byte) /\ Len(FlattenSeq(ss)) = Base * m
      /\ \A i \in 1 .. m : \A k \in 1 .. Len(ss[i]) : FlattenSeq(ss)[skip[i] + k] = ss[i][k]
  <2> HIDE DEF skip
  <2> QED
    BY <1>2, <1>3, FlattenJoined
<1>5. ASSUME NEW x \in 0 .. Base * m - 1
      PROVE  FlattenSeq(ss)[x + 1] = ByteAt(s, x)
  <2> DEFINE i == (x \div Base) + 1
             k == (x % Base) + 1
  <2>1. i \in 1 .. m /\ k \in 1 .. Base /\ x = (i - 1) * Base + k - 1
    BY <1>1, PlaceOfByte
  <2>2. ByteAt(s, x) = ss[i][k]
    BY DEF ByteAt
  <2> HIDE DEF i, k
  <2>3. skip[i] = (i - 1) * Base /\ (i - 1) * Base \in Int
    BY <1>1, <2>1, Times
  <2>4. x + 1 = skip[i] + k
    BY <1>1, <2>1, <2>3
  <2> QED
    BY <1>2, <1>4, <2>1, <2>2, <2>4
<1> QED
  BY <1>4, <1>5 DEF Bytes

-----------------------------------------------------------------------------
(* Runs: pieces that follow one another without a gap.                       *)

\* Where a piece begins in the buffer; a piece within its chunk; pieces that follow one another.
Addr(p) == (p.chunk - 1) * Base + p.at

OnChunk(s, p) ==
    /\ p.chunk \in 1 .. Len(s.chunks) /\ p.at \in 0 .. Base /\ p.len \in 0 .. Base
    /\ p.at + p.len <= Base

IsRun(s, ps, from, to) ==
    /\ Len(ps) \in Nat \ {0} /\ DOMAIN ps = 1 .. Len(ps)
    /\ \A i \in 1 .. Len(ps) : OnChunk(s, ps[i]) /\ from <= Addr(ps[i])
    /\ Addr(ps[1]) = from
    /\ \A i \in 1 .. Len(ps) - 1 : Addr(ps[i + 1]) = Addr(ps[i]) + ps[i].len
    /\ Addr(ps[Len(ps)]) + ps[Len(ps)].len = to

\* Addresses are numbers.
LEMMA AddrInt ==
    ASSUME NEW s, NEW p, OnChunk(s, p)
    PROVE  Addr(p) \in Int /\ p.len \in Nat /\ p.at \in Nat /\ p.chunk \in Int
<1>1. Base \in Nat \ {0} /\ p.chunk \in Int /\ p.at \in Nat /\ p.len \in Nat
  BY BufferAssumption DEF OnChunk
<1>2. (p.chunk - 1) * Base \in Int
  BY <1>1, Times
<1> QED
  BY <1>1, <1>2 DEF Addr

\* One piece is a run.
LEMMA RunOne ==
    ASSUME NEW s, NEW p, OnChunk(s, p)
    PROVE  IsRun(s, <<p>>, Addr(p), Addr(p) + p.len)
BY AddrInt DEF IsRun

\* A piece before a run is a run.
LEMMA RunCons ==
    ASSUME NEW s, NEW R, NEW p \in R, NEW ps \in Seq(R), NEW to, OnChunk(s, p),
           IsRun(s, ps, Addr(p) + p.len, to)
    PROVE  IsRun(s, <<p>> \o ps, Addr(p), to)
<1> DEFINE qs == <<p>> \o ps
<1>1. /\ Len(qs) = Len(ps) + 1 /\ DOMAIN qs = 1 .. Len(qs) /\ qs[1] = p
      /\ \A i \in 1 .. Len(ps) : qs[i + 1] = ps[i]
  <2>1. <<p>> \in Seq(R) /\ Len(<<p>>) = 1 /\ <<p>>[1] = p
    OBVIOUS
  <2>2. /\ qs \in Seq(R) /\ Len(qs) = 1 + Len(ps)
        /\ \A i \in 1 .. 1 + Len(ps) : qs[i] = IF i <= 1 THEN <<p>>[i] ELSE ps[i - 1]
    <3> DEFINE one == <<p>>
    <3>1. one \in Seq(R) /\ Len(one) = 1
      BY <2>1
    <3> HIDE DEF one
    <3>2. /\ one \o ps \in Seq(R) /\ Len(one \o ps) = Len(one) + Len(ps)
          /\ \A i \in 1 .. Len(one) + Len(ps) :
               (one \o ps)[i] = IF i <= Len(one) THEN one[i] ELSE ps[i - Len(one)]
      BY <3>1, ConcatProperties
    <3> QED
      BY <3>1, <3>2 DEF one
  <2>3. DOMAIN qs = 1 .. Len(qs) /\ Len(ps) \in Nat
    BY <2>2
  <2> HIDE DEF qs
  <2> QED
    BY <2>1, <2>2, <2>3
<1> HIDE DEF qs
<1>2. Len(ps) \in Nat \ {0} /\ Addr(p) \in Int /\ p.len \in Nat
  BY AddrInt DEF IsRun
<1>3. \A i \in 1 .. Len(qs) : OnChunk(s, qs[i]) /\ Addr(p) <= Addr(qs[i])
  <2> TAKE i \in 1 .. Len(qs)
  <2>1. CASE i = 1
    BY <1>1, <1>2, <2>1
  <2>2. CASE i # 1
    <3>1. i - 1 \in 1 .. Len(ps) /\ (i - 1) + 1 = i
      BY <1>1, <1>2, <2>2
    <3>2. qs[i] = ps[i - 1] /\ OnChunk(s, ps[i - 1]) /\ Addr(p) + p.len <= Addr(ps[i - 1])
      BY <1>1, <3>1 DEF IsRun
    <3>3. Addr(ps[i - 1]) \in Int
      BY <3>2, AddrInt
    <3> QED
      BY <1>2, <3>2, <3>3
  <2> QED
    BY <2>1, <2>2
<1>4. \A i \in 1 .. Len(qs) - 1 : Addr(qs[i + 1]) = Addr(qs[i]) + qs[i].len
  <2> TAKE i \in 1 .. Len(qs) - 1
  <2>1. CASE i = 1
    BY <1>1, <1>2, <2>1 DEF IsRun
  <2>2. CASE i # 1
    <3>1. /\ i - 1 \in 1 .. Len(ps) - 1 /\ i - 1 \in 1 .. Len(ps) /\ i \in 1 .. Len(ps)
          /\ (i - 1) + 1 = i
      BY <1>1, <1>2, <2>2
    <3>2. qs[i] = ps[i - 1] /\ qs[i + 1] = ps[i]
      BY <1>1, <3>1
    <3>3. Addr(ps[i]) = Addr(ps[i - 1]) + ps[i - 1].len
      BY <3>1 DEF IsRun
    <3> QED
      BY <3>2, <3>3
  <2> QED
    BY <2>1, <2>2
<1>5. qs[Len(qs)] = ps[Len(ps)]
  BY <1>1, <1>2
<1> QED
  BY <1>1, <1>2, <1>3, <1>4, <1>5 DEF IsRun, qs

\* The pieces of a run are joined parts.
LEMMA RunJoined ==
    ASSUME NEW s, NEW ps, NEW from \in Int, NEW to, IsRun(s, ps, from, to)
    PROVE  /\ Joined([i \in 1 .. Len(ps) |-> Addr(ps[i]) - from],
                     [i \in 1 .. Len(ps) |-> ps[i].len], Len(ps), to - from)
           /\ to \in Int /\ from <= to /\ to - from \in Nat
<1> DEFINE m == Len(ps)
           skip == [i \in 1 .. m |-> Addr(ps[i]) - from]
           len == [i \in 1 .. m |-> ps[i].len]
<1>1. /\ m \in Nat \ {0} /\ m \in 1 .. m /\ 1 \in 1 .. m
      /\ \A i \in 1 .. m - 1 : i \in 1 .. m /\ i + 1 \in 1 .. m
  BY DEF IsRun
<1>2. \A i \in 1 .. m : /\ Addr(ps[i]) \in Int /\ from <= Addr(ps[i]) /\ ps[i].len \in Nat
                        /\ skip[i] = Addr(ps[i]) - from /\ len[i] = ps[i].len
  BY AddrInt DEF IsRun
<1>3. skip \in [1 .. m -> Nat] /\ len \in [1 .. m -> Nat]
  BY <1>2
<1>4. /\ Addr(ps[1]) = from /\ Addr(ps[m]) + ps[m].len = to
      /\ \A i \in 1 .. m - 1 : Addr(ps[i + 1]) = Addr(ps[i]) + ps[i].len
  BY DEF IsRun
<1> HIDE DEF skip, len, m
<1>5. \A i \in 1 .. m - 1 : skip[i + 1] = skip[i] + len[i]
  BY <1>1, <1>2, <1>4
<1>6. skip[1] = 0 /\ skip[m] + len[m] = to - from /\ to \in Int /\ from <= to
  BY <1>1, <1>2, <1>4
<1>7. Joined(skip, len, m, to - from)
  BY <1>1, <1>3, <1>5, <1>6 DEF Joined
<1> QED
  BY <1>6, <1>7 DEF skip, len, m

\* The pieces of a run lie in it and cover it.
LEMMA RunWithin ==
    ASSUME NEW s, NEW ps, NEW from \in Int, NEW to, IsRun(s, ps, from, to)
    PROVE  /\ \A i \in 1 .. Len(ps) : from <= Addr(ps[i]) /\ Addr(ps[i]) + ps[i].len <= to
           /\ \A x \in from .. to - 1 :
                \E i \in 1 .. Len(ps) : Addr(ps[i]) <= x /\ x < Addr(ps[i]) + ps[i].len
<1> DEFINE m == Len(ps)
           skip == [i \in 1 .. m |-> Addr(ps[i]) - from]
           len == [i \in 1 .. m |-> ps[i].len]
<1>1. Joined(skip, len, m, to - from) /\ to \in Int
  BY RunJoined
<1>2. \A i \in 1 .. m : /\ Addr(ps[i]) \in Int /\ from <= Addr(ps[i]) /\ ps[i].len \in Nat
                        /\ skip[i] = Addr(ps[i]) - from /\ len[i] = ps[i].len
  BY AddrInt DEF IsRun
<1> HIDE DEF skip, len
<1>3. \A i \in 1 .. m : skip[i] + len[i] <= to - from
  BY <1>1, JoinedWithin
<1>4. ASSUME NEW x \in from .. to - 1
      PROVE  \E i \in 1 .. m : Addr(ps[i]) <= x /\ x < Addr(ps[i]) + ps[i].len
  <2>1. x - from + 1 \in 1 .. to - from
    BY <1>1
  <2>2. PICK i \in 1 .. m : skip[i] < x - from + 1 /\ x - from + 1 <= skip[i] + len[i]
    BY <1>1, <2>1, JoinedCover
  <2> DEFINE a == Addr(ps[i])
             l == ps[i].len
  <2>3. a \in Int /\ l \in Nat /\ a - from < x - from + 1 /\ x - from + 1 <= a - from + l
    BY <1>2, <2>2
  <2> HIDE DEF a, l
  <2>4. a <= x /\ x < a + l
    BY <2>3
  <2> QED
    BY <2>4 DEF a, l
<1> QED
  BY <1>1, <1>2, <1>3, <1>4

\* The pieces that Pieces makes: a run that counts the bytes before each piece.
Piece == [chunk : Nat, at : Nat, len : Nat, skip : Int]

PiecesRun(s, ps, from, to, before) ==
    /\ ps \in Seq(Piece)
    /\ IsRun(s, ps, from, to)
    /\ \A i \in 1 .. Len(ps) : ps[i].skip = before + Addr(ps[i]) - from

\* From every place of chunk d the loop makes a run of all that is left.
WalkOK(s, n, d) ==
    \A at \in 0 .. Base, left \in 0 .. n :
        LET from == (d - 1) * Base + at
        IN  from + left <= Len(s.chunks) * Base
            => PiecesRun(s, Walk(s, n)[<<d, at, left>>], from, from + left, n - left)

\* If that is so for the next chunk, it is for this one.
LEMMA WalkStep ==
    ASSUME NEW s, ChunksOK(s), NEW n \in Nat, NEW d \in 1 .. Len(s.chunks),
           d < Len(s.chunks) => WalkOK(s, n, d + 1)
    PROVE  WalkOK(s, n, d)
<1> DEFINE L == Len(s.chunks)
<1>1. Base \in Nat \ {0} /\ L \in Nat \ {0} /\ d \in Nat /\ d # Null
  BY BufferAssumption, ChunkFacts DEF Null
<1> SUFFICES ASSUME NEW at \in 0 .. Base, NEW left \in 0 .. n,
                    (d - 1) * Base + at + left <= L * Base
             PROVE  LET from == (d - 1) * Base + at
                    IN  PiecesRun(s, Walk(s, n)[<<d, at, left>>], from, from + left, n - left)
  BY DEF WalkOK
<1> DEFINE from == (d - 1) * Base + at
           room == Base - at
           piece(len) == [chunk |-> d, at |-> at, len |-> len, skip |-> n - left]
           ps == Walk(s, n)[<<d, at, left>>]
<1>2. (d - 1) * Base \in Int /\ from \in Int /\ L * Base \in Int
  BY <1>1, Times
<1>3. ps = IF room >= left THEN <<piece(left)>>
           ELSE <<piece(room)>> \o Walk(s, n)[<<After(s, d), 0, left - room>>]
  <2>1. <<d, at, left>> \in Places(0 .. L, n)
    BY <1>1 DEF Places
  <2>2. Walk(s, n)[<<d, at, left>>] = WalkBody(s, n, Walk(s, n), <<d, at, left>>)
    <3>1. IsWalk(s, n, 0 .. L, Walk(s, n))
      BY <1>1, WalkExists
    <3> QED
      BY <2>1, <3>1, Zenon DEF IsWalk
  <2> QED
    BY <1>1, <2>2 DEF WalkBody
<1>4. CASE room >= left
  <2> DEFINE q == piece(left)
  <2>1. /\ q.chunk = d /\ q.at = at /\ q.len = left /\ q.skip = n - left /\ q \in Piece
        /\ ps = <<q>>
    BY <1>1, <1>3, <1>4 DEF Piece
  <2> HIDE DEF q, ps
  <2>2. OnChunk(s, q) /\ Addr(q) = from
    BY <1>1, <1>4, <2>1 DEF OnChunk, Addr
  <2>3. IsRun(s, ps, from, from + left)
    BY <2>1, <2>2, RunOne
  <2>4. ps \in Seq(Piece) /\ Len(ps) = 1 /\ ps[1] = q
    BY <2>1
  <2> HIDE DEF from
  <2>5. PiecesRun(s, ps, from, from + left, n - left)
    BY <1>2, <2>1, <2>2, <2>3, <2>4 DEF PiecesRun
  <2> QED
    BY <2>5 DEF ps, from
<1>5. CASE ~ (room >= left)
  <2> DEFINE q == piece(room)
             rest == Walk(s, n)[<<d + 1, 0, left - room>>]
  <2>1. d < L
    <3> SUFFICES ASSUME L <= d PROVE FALSE
      BY <1>1
    <3>1. (d - 1) * Base = d * Base - Base /\ L * Base <= d * Base /\ d * Base \in Int
      BY <1>1, Times
    <3> QED
      BY <1>1, <1>2, <1>5, <3>1
  <2>2. /\ After(s, d) = d + 1
        /\ ps = <<q>> \o rest
    BY <1>1, <1>3, <1>5, <2>1 DEF After
  <2>3. q.chunk = d /\ q.at = at /\ q.len = room /\ q.skip = n - left /\ q \in Piece
    BY <1>1, <1>5 DEF Piece
  <2> HIDE DEF q, ps
  <2>4. OnChunk(s, q) /\ Addr(q) = from
    BY <1>1, <1>5, <2>3 DEF OnChunk, Addr
  <2>5. (d + 1 - 1) * Base + 0 = from + room /\ from + room + (left - room) = from + left
    <3>1. (d - 1) * Base = d * Base - Base /\ d * Base \in Int /\ d + 1 - 1 = d
      BY <1>1, Times
    <3> QED
      BY <1>1, <1>2, <3>1
  <2>6. PiecesRun(s, rest, from + room, from + left, n - (left - room))
    <3>1. WalkOK(s, n, d + 1)
      BY <2>1
    <3>2. 0 \in 0 .. Base /\ left - room \in 0 .. n /\ from + left <= L * Base
      BY <1>1, <1>5
    <3> DEFINE e == d + 1
               away == left - room
    <3>3. (e - 1) * Base + 0 = from + room /\ from + room + away = from + left
      BY <2>5
    <3> HIDE DEF e, from, room, away, L
    <3>4. WalkOK(s, n, e) /\ away \in 0 .. n
      BY <3>1, <3>2 DEF e, away
    <3>5. (e - 1) * Base + 0 + away <= Len(s.chunks) * Base
      BY <3>2, <3>3 DEF L
    <3>6. PiecesRun(s, Walk(s, n)[<<e, 0, away>>], (e - 1) * Base + 0,
                    (e - 1) * Base + 0 + away, n - away)
      BY <3>2, <3>4, <3>5, Zenon DEF WalkOK
    <3>7. PiecesRun(s, Walk(s, n)[<<e, 0, away>>], from + room, from + left, n - away)
      BY <3>3, <3>6
    <3> QED
      BY <3>7 DEF e, away
  <2> HIDE DEF rest, from
  <2>7. IsRun(s, ps, from, from + left)
    BY <2>2, <2>3, <2>4, <2>6, RunCons DEF PiecesRun
  <2>8. /\ ps \in Seq(Piece) /\ Len(ps) = Len(rest) + 1 /\ ps[1] = q
        /\ \A i \in 2 .. Len(ps) : ps[i] = rest[i - 1] /\ i - 1 \in 1 .. Len(rest)
    <3>1. rest \in Seq(Piece)
      BY <2>6 DEF PiecesRun
    <3> QED
      BY <2>2, <2>3, <3>1
  <2>9. \A i \in 1 .. Len(ps) : ps[i].skip = (n - left) + Addr(ps[i]) - from
    <3> TAKE i \in 1 .. Len(ps)
    <3>1. CASE i = 1
      BY <1>2, <2>3, <2>4, <2>8, <3>1
    <3>2. CASE i # 1
      <4>1. i \in 2 .. Len(ps) /\ i - 1 \in 1 .. Len(rest) /\ ps[i] = rest[i - 1]
        BY <2>8, <3>2
      <4>2. rest[i - 1].skip = (n - (left - room)) + Addr(rest[i - 1]) - (from + room)
        BY <2>6, <4>1 DEF PiecesRun
      <4>3. Addr(rest[i - 1]) \in Int
        BY <2>6, <4>1, AddrInt DEF PiecesRun, IsRun
      <4> QED
        BY <1>1, <1>2, <4>1, <4>2, <4>3
    <3> QED
      BY <3>1, <3>2
  <2> QED
    BY <2>7, <2>8, <2>9 DEF PiecesRun, ps, from
<1> QED
  BY <1>4, <1>5

\* So it is for all chunks, by induction from the last one.
LEMMA WalkRuns ==
    ASSUME NEW s, ChunksOK(s), NEW n \in Nat, NEW d \in 1 .. Len(s.chunks)
    PROVE  WalkOK(s, n, d)
<1> DEFINE L == Len(s.chunks)
           S == {k \in Nat : \A e \in 1 .. L : L - e = k => WalkOK(s, n, e)}
<1>1. L \in Nat \ {0}
  BY ChunkFacts
<1>2. 0 \in S
  <2> SUFFICES ASSUME NEW e \in 1 .. L, L - e = 0 PROVE WalkOK(s, n, e)
    OBVIOUS
  <2>1. ~ (e < L)
    BY <1>1
  <2> QED
    BY <2>1, WalkStep
<1>3. ASSUME NEW k \in Nat, k \in S
      PROVE  k + 1 \in S
  <2> SUFFICES ASSUME NEW e \in 1 .. L, L - e = k + 1 PROVE WalkOK(s, n, e)
    OBVIOUS
  <2>1. e + 1 \in 1 .. L /\ L - (e + 1) = k
    BY <1>1
  <2>2. WalkOK(s, n, e + 1)
    BY <1>3, <2>1
  <2> QED
    BY <2>2, WalkStep
<1>4. L - d \in S
  <2>1. L - d \in Nat
    BY <1>1
  <2> HIDE DEF S
  <2> QED
    BY <1>2, <1>3, <2>1, NatSets
<1> QED
  BY <1>4

\* The pieces of n bytes from a place on that is in the buffer, up to its capacity at most.
LEMMA PiecesAre ==
    ASSUME NEW s, ChunksOK(s), NEW n \in Nat, NEW from \in Nat,
           from < Base * Len(s.chunks), from + n <= Base * Len(s.chunks)
    PROVE  PiecesRun(s, Pieces(s, (from \div Base) + 1, from % Base, n), from, from + n, 0)
<1> DEFINE L == Len(s.chunks)
           d == (from \div Base) + 1
           at == from % Base
<1>1. Base \in Nat \ {0} /\ L \in Nat \ {0} /\ Base * L = L * Base /\ L * Base \in Int
  BY BufferAssumption, ChunkFacts
<1>2. d \in 1 .. L /\ at + 1 \in 1 .. Base /\ from = (d - 1) * Base + (at + 1) - 1
  <2>1. from \in 0 .. Base * L - 1
    BY <1>1
  <2> QED
    BY <1>1, <2>1, PlaceOfByte
<1>3. at \in 0 .. Base
  <2>1. from \in Int
    OBVIOUS
  <2>2. from % Base \in 0 .. Base - 1
    BY <2>1, DivMod
  <2> QED
    BY <1>1, <2>2
<1>4. Pieces(s, d, at, n) = Walk(s, n)[<<d, at, n>>]
  BY PiecesWalk
<1> HIDE DEF d, at
<1>5. from = (d - 1) * Base + at
  <2>1. (d - 1) * Base \in Int
    BY <1>2, Times
  <2> QED
    BY <1>2, <1>3, <2>1
<1>6. WalkOK(s, n, d) /\ n \in 0 .. n /\ n - n = 0
  BY <1>2, WalkRuns
<1>7. from + n <= Len(s.chunks) * Base
  BY <1>1
<1> HIDE DEF L
<1>8. PiecesRun(s, Walk(s, n)[<<d, at, n>>], from, from + n, 0)
  BY <1>3, <1>5, <1>6, <1>7 DEF WalkOK
<1> QED
  BY <1>4, <1>8 DEF d, at

\* A run meets no null pointer, and the pointer after it is that of the place where it ends.
LEMMA RunLast ==
    ASSUME NEW s, ChunksOK(s), NEW R, NEW ps \in Seq(R), NEW from \in Nat, NEW to,
           IsRun(s, ps, from, to)
    PROVE  /\ ~ HitsNull(ps)
           /\ to \in Nat /\ to <= Base * Len(s.chunks)
           /\ CursorAfter(s, ps) = IF to = Base * Len(s.chunks) THEN Null ELSE (to \div Base) + 1
<1> DEFINE L == Len(s.chunks)
           q == Last(ps)
           d == q.chunk
           e == q.at + q.len
<1>1. Base \in Nat \ {0} /\ L \in Nat \ {0} /\ Base * L = L * Base /\ L * Base \in Int
  BY BufferAssumption, ChunkFacts
<1>2. q = ps[Len(ps)] /\ Len(ps) \in 1 .. Len(ps)
  BY DEF Last, IsRun
<1>3. OnChunk(s, q) /\ to = Addr(q) + q.len
  BY <1>2 DEF IsRun
<1>4. d \in 1 .. L /\ e \in 0 .. Base /\ to = (d - 1) * Base + e /\ (d - 1) * Base \in Int
  <2>1. q.chunk \in 1 .. L /\ q.at \in 0 .. Base /\ q.len \in 0 .. Base /\ q.at + q.len <= Base
    BY <1>3 DEF OnChunk
  <2>2. q.chunk - 1 \in Int
    BY <1>1, <2>1
  <2>3. (q.chunk - 1) * Base \in Int
    BY <2>2, Times
  <2> QED
    BY SMTT(60), <1>1, <1>3, <2>1, <2>3 DEF Addr
<1>5. ~ HitsNull(ps)
  BY DEF HitsNull, IsRun, OnChunk, Null
<1>6. CursorAfter(s, ps) = IF e = Base THEN After(s, d) ELSE d
  BY DEF CursorAfter
<1>7. from <= to /\ to \in Int
  <2>1. from \in Int
    OBVIOUS
  <2> QED
    BY <2>1, RunJoined
<1> HIDE DEF q, d, e, L
<1>8. (d - 1) * Base = d * Base - Base /\ d * Base \in Int /\ d * Base <= L * Base
  BY <1>1, <1>4, Times
<1>9. to <= Base * L
  BY <1>1, <1>4, <1>8
<1>10. CASE e = Base
  <2>1. to = d * Base
    BY <1>1, <1>4, <1>8, <1>10
  <2>2. CASE d = L
    <3>1. to = Base * L
      BY <1>1, <2>1, <2>2
    <3> QED
      BY <1>5, <1>6, <1>7, <1>9, <1>10, <2>2, <3>1 DEF After, L
  <2>3. CASE d # L
    <3>1. d \in Int /\ d < L /\ 0 \in 0 .. Base - 1 /\ to = d * Base + 0
      BY <1>1, <1>4, <1>8, <2>1, <2>3
    <3>2. to \div Base = d
      BY <3>1, DivUnique
    <3>3. to # Base * L
      <4>1. d * Base + Base <= L * Base
        BY <1>1, <3>1, Times
      <4> QED
        BY <1>1, <1>8, <2>1, <4>1
    <3>4. After(s, d) = d + 1
      BY <3>1 DEF After, L
    <3> QED
      BY <1>5, <1>6, <1>7, <1>9, <1>10, <3>2, <3>3, <3>4 DEF L
  <2> QED
    BY <2>2, <2>3
<1>11. CASE e # Base
  <2>1. e \in 0 .. Base - 1 /\ d - 1 \in Int
    BY <1>1, <1>4, <1>11
  <2>2. to \div Base = d - 1
    BY <1>4, <2>1, DivUnique
  <2>3. to # Base * L
    BY <1>1, <1>4, <1>8, <2>1
  <2>4. (d - 1) + 1 = d
    BY <1>4
  <2> QED
    BY <1>5, <1>6, <1>7, <1>9, <1>11, <2>2, <2>3, <2>4 DEF L
<1> QED
  BY <1>10, <1>11

\* The bytes of a run.
LEMMA GatheredRun ==
    ASSUME NEW s, ChunksOK(s), NEW ps, NEW from \in Nat, NEW to, IsRun(s, ps, from, to)
    PROVE  /\ Gathered(s, ps) \in Seq(Byte) /\ Len(Gathered(s, ps)) = to - from
           /\ \A y \in 1 .. to - from : Gathered(s, ps)[y] = ByteAt(s, from + y - 1)
<1> DEFINE m == Len(ps)
           part(p) == SubSeq(s.chunks[p.chunk], p.at + 1, p.at + p.len)
           ss == [i \in DOMAIN ps |-> part(ps[i])]
           skip == [i \in 1 .. m |-> Addr(ps[i]) - from]
           len == [i \in 1 .. m |-> ps[i].len]
<1>1. m \in Nat \ {0} /\ DOMAIN ps = 1 .. m /\ \A i \in 1 .. m : OnChunk(s, ps[i])
  BY DEF IsRun
<1>2. ASSUME NEW p, OnChunk(s, p)
      PROVE  /\ part(p) \in Seq(Byte) /\ Len(part(p)) = p.len
             /\ \A k \in 1 .. p.len : part(p)[k] = ByteAt(s, Addr(p) + k - 1)
  <2>1. /\ p.chunk \in 1 .. Len(s.chunks) /\ p.at \in Nat /\ p.len \in Nat /\ p.at + p.len <= Base
        /\ Base \in Nat \ {0} /\ Len(s.chunks) \in Nat
    BY <1>2, BufferAssumption, ChunkFacts DEF OnChunk
  <2> DEFINE c == s.chunks[p.chunk]
  <2>2. c \in Seq(Byte) /\ Len(c) = Base
    BY <2>1, ChunkFacts
  <2> HIDE DEF c
  <2>3. \A i \in p.at + 1 .. p.at + p.len : c[i] \in Byte
    BY <2>1, <2>2
  <2>4. p.at + 1 \in Int /\ p.at + p.len \in Int
    BY <2>1
  <2> DEFINE a == p.at + 1
             b == p.at + p.len
  <2>5. /\ SubSeq(c, a, b) \in Seq(Byte)
        /\ Len(SubSeq(c, a, b)) = (IF a <= b THEN b - a + 1 ELSE 0)
        /\ \A i \in 1 .. b - a + 1 : SubSeq(c, a, b)[i] = c[a + i - 1]
    <3>1. a \in Int /\ b \in Int /\ \A i \in a .. b : c[i] \in Byte
      BY <2>3, <2>4
    <3> HIDE DEF a, b
    <3> QED
      BY <3>1, SubSeqProperties
  <2>6. Len(SubSeq(c, a, b)) = p.len /\ b - a + 1 = p.len
    <3>1. (IF a <= b THEN b - a + 1 ELSE 0) = p.len /\ b - a + 1 = p.len
      BY <2>1
    <3> QED
      BY <2>5, <3>1
  <2>7. ASSUME NEW k \in 1 .. p.len
        PROVE  SubSeq(c, a, b)[k] = ByteAt(s, Addr(p) + k - 1)
    <3>1. SubSeq(c, a, b)[k] = c[a + k - 1]
      BY <2>5, <2>6
    <3>2. p.at + k \in 1 .. Base /\ a + k - 1 = p.at + k
      BY <2>1
    <3>3. ByteAt(s, (p.chunk - 1) * Base + (p.at + k) - 1) = s.chunks[p.chunk][p.at + k]
      <4> DEFINE d == p.chunk
                 j == p.at + k
                 L == Len(s.chunks)
      <4>1. L \in Nat /\ d \in 1 .. L /\ j \in 1 .. Base
        BY <2>1, <3>2
      <4> HIDE DEF d, j, L
      <4>2. ByteAt(s, (d - 1) * Base + j - 1) = s.chunks[d][j]
        BY <4>1, ByteOfPlace
      <4> QED
        BY <4>2 DEF d, j
    <3>4. (p.chunk - 1) * Base + (p.at + k) - 1 = Addr(p) + k - 1
      <4>1. (p.chunk - 1) * Base \in Int
        BY <2>1, Times
      <4> QED
        BY <2>1, <4>1 DEF Addr
    <3> QED
      BY <3>1, <3>2, <3>3, <3>4 DEF c
  <2> QED
    BY <2>5, <2>6, <2>7 DEF c
<1> HIDE DEF part
<1>3. /\ ss \in Seq(Seq(Byte)) /\ Len(ss) = m
      /\ \A i \in 1 .. m : ss[i] = part(ps[i]) /\ Len(ss[i]) = ps[i].len
  BY <1>1, <1>2
<1>4. Joined(skip, len, m, to - from) /\ to \in Int
  BY RunJoined
<1>5. \A i \in 1 .. m : len[i] = ps[i].len
  OBVIOUS
<1> HIDE DEF ss
<1>6. /\ FlattenSeq(ss) \in Seq(Byte) /\ Len(FlattenSeq(ss)) = to - from
      /\ \A i \in 1 .. m : \A k \in 1 .. Len(ss[i]) : FlattenSeq(ss)[skip[i] + k] = ss[i][k]
  <2> DEFINE n == to - from
  <2> HIDE DEF skip, len, m, n
  <2>1. Joined(skip, len, Len(ss), n) /\ \A i \in 1 .. Len(ss) : len[i] = Len(ss[i])
    BY <1>3, <1>4, <1>5 DEF n
  <2>2. ss \in Seq(Seq(Byte))
    BY <1>3
  <2>3. Segments(Byte, ss, skip, len, n)
    BY <2>1, <2>2 DEF Segments
  <2>4. Segmented(Byte, ss, skip, n)
    BY <2>3, SegmentsFlattened
  <2> QED
    BY <1>3, <2>4 DEF n, Segmented
<1>7. Gathered(s, ps) = FlattenSeq(ss)
  BY DEF Gathered, ss, part
<1>8. ASSUME NEW y \in 1 .. to - from
      PROVE  FlattenSeq(ss)[y] = ByteAt(s, from + y - 1)
  <2>1. from + y - 1 \in from .. to - 1
    BY <1>4
  <2>2. PICK i \in 1 .. m : Addr(ps[i]) <= from + y - 1 /\ from + y - 1 < Addr(ps[i]) + ps[i].len
    BY <2>1, RunWithin
  <2>3. Addr(ps[i]) \in Int /\ ps[i].len \in Nat /\ skip[i] = Addr(ps[i]) - from
    BY <1>1, AddrInt
  <2> DEFINE k == from + y - Addr(ps[i])
  <2>4. k \in 1 .. ps[i].len /\ skip[i] + k = y /\ Addr(ps[i]) + k - 1 = from + y - 1
    <3> DEFINE a == Addr(ps[i])
               l == ps[i].len
    <3>1. a \in Int /\ l \in Nat /\ a <= from + y - 1 /\ from + y - 1 < a + l /\ skip[i] = a - from
      BY <2>2, <2>3
    <3> HIDE DEF a, l
    <3>2. /\ from + y - a \in 1 .. l /\ (a - from) + (from + y - a) = y
          /\ a + (from + y - a) - 1 = from + y - 1
      BY <3>1
    <3> QED
      BY <3>1, <3>2 DEF a, l
  <2> HIDE DEF k, skip
  <2>5. FlattenSeq(ss)[skip[i] + k] = part(ps[i])[k]
    BY ZenonT(60), <1>3, <1>6, <2>4
  <2> QED
    BY <1>1, <1>2, <2>4, <2>5
<1> QED
  BY <1>6, <1>7, <1>8

\* The addresses of a run.
LEMMA CoveredRun ==
    ASSUME NEW s, ChunksOK(s), NEW R, NEW ps \in Seq(R), NEW from \in Nat, NEW to,
           IsRun(s, ps, from, to)
    PROVE  Covered(ps) = [k \in 1 .. to - from |-> from + k - 1]
<1> DEFINE m == Len(ps)
           part(p) == [k \in 1 .. p.len |-> (p.chunk - 1) * Base + p.at + k - 1]
           ss == [i \in DOMAIN ps |-> part(ps[i])]
           skip == [i \in 1 .. m |-> Addr(ps[i]) - from]
           len == [i \in 1 .. m |-> ps[i].len]
<1>1. m \in Nat \ {0} /\ DOMAIN ps = 1 .. m /\ \A i \in 1 .. m : OnChunk(s, ps[i])
  BY DEF IsRun
<1>2. ASSUME NEW p, OnChunk(s, p)
      PROVE  /\ part(p) \in Seq(Int) /\ Len(part(p)) = p.len
             /\ \A k \in 1 .. p.len : part(p)[k] = Addr(p) + k - 1
  <2>1. Addr(p) \in Int /\ p.len \in Nat
    BY <1>2, AddrInt
  <2>2. part(p) = [k \in 1 .. p.len |-> Addr(p) + k - 1]
    BY DEF Addr
  <2> HIDE DEF part
  <2> QED
    BY <2>1, <2>2
<1> HIDE DEF part
<1>3. /\ ss \in Seq(Seq(Int)) /\ Len(ss) = m
      /\ \A i \in 1 .. m : ss[i] = part(ps[i]) /\ Len(ss[i]) = ps[i].len
  BY <1>1, <1>2
<1>4. Joined(skip, len, m, to - from) /\ to \in Int /\ to - from \in Nat
  <2>1. from \in Int
    OBVIOUS
  <2> QED
    BY <2>1, RunJoined
<1>5. \A i \in 1 .. m : len[i] = ps[i].len
  OBVIOUS
<1> HIDE DEF ss
<1>6. /\ FlattenSeq(ss) \in Seq(Int) /\ Len(FlattenSeq(ss)) = to - from
      /\ \A i \in 1 .. m : \A k \in 1 .. Len(ss[i]) : FlattenSeq(ss)[skip[i] + k] = ss[i][k]
  <2> DEFINE n == to - from
             Number == Int
  <2> HIDE DEF skip, len, m, n, Number
  <2>0. ss \in Seq(Seq(Number))
    BY <1>3 DEF Number
  <2>1. Joined(skip, len, Len(ss), n) /\ \A i \in 1 .. Len(ss) : len[i] = Len(ss[i])
    BY <1>3, <1>4, <1>5 DEF n
  <2>2. Segments(Number, ss, skip, len, n)
    BY <2>0, <2>1 DEF Segments
  <2>3. Segmented(Number, ss, skip, n)
    BY <2>2, SegmentsFlattened
  <2> QED
    BY <1>3, <2>3 DEF n, Number, Segmented
<1>7. Covered(ps) = FlattenSeq(ss)
  BY RunLast DEF Covered, ss, part
<1>8. ASSUME NEW y \in 1 .. to - from
      PROVE  FlattenSeq(ss)[y] = from + y - 1
  <2>1. from + y - 1 \in from .. to - 1
    BY <1>4
  <2>2. PICK i \in 1 .. m : Addr(ps[i]) <= from + y - 1 /\ from + y - 1 < Addr(ps[i]) + ps[i].len
    BY <2>1, RunWithin
  <2>3. Addr(ps[i]) \in Int /\ ps[i].len \in Nat /\ skip[i] = Addr(ps[i]) - from
    BY <1>1, AddrInt
  <2> DEFINE k == from + y - Addr(ps[i])
  <2>4. k \in 1 .. ps[i].len /\ skip[i] + k = y /\ Addr(ps[i]) + k - 1 = from + y - 1
    <3> DEFINE a == Addr(ps[i])
               l == ps[i].len
    <3>1. a \in Int /\ l \in Nat /\ a <= from + y - 1 /\ from + y - 1 < a + l /\ skip[i] = a - from
      BY <2>2, <2>3
    <3> HIDE DEF a, l
    <3>2. /\ from + y - a \in 1 .. l /\ (a - from) + (from + y - a) = y
          /\ a + (from + y - a) - 1 = from + y - 1
      BY <3>1
    <3> QED
      BY <3>1, <3>2 DEF a, l
  <2> HIDE DEF k, skip
  <2>5. FlattenSeq(ss)[skip[i] + k] = part(ps[i])[k]
    BY ZenonT(60), <1>3, <1>6, <2>4
  <2> QED
    BY <1>1, <1>2, <2>4, <2>5
<1> DEFINE flat == FlattenSeq(ss)
<1>9. flat \in [1 .. to - from -> Int] /\ \A y \in 1 .. to - from : flat[y] = from + y - 1
  BY <1>6, <1>8
<1> HIDE DEF flat
<1>10. flat = [k \in 1 .. to - from |-> from + k - 1]
  BY <1>9
<1> QED
  BY <1>7, <1>10 DEF flat

\* The chunks after a string has been copied over a run.
LEMMA ScatteredRun ==
    ASSUME NEW s, ChunksOK(s), NEW ps, NEW from \in Nat, NEW to, PiecesRun(s, ps, from, to, 0),
           NEW b \in Seq(Byte), Len(b) = to - from
    PROVE  LET new == Scattered(s, ps, b)
           IN  /\ new \in Seq(Chunk) /\ Len(new) = Len(s.chunks)
               /\ \A x \in 0 .. Base * Len(s.chunks) - 1 :
                    new[(x \div Base) + 1][(x % Base) + 1]
                      = IF from <= x /\ x < to THEN b[x - from + 1] ELSE ByteAt(s, x)
<1> DEFINE L == Len(s.chunks)
           new == Scattered(s, ps, b)
           m == Len(ps)
           covers(p, d, k) == p.chunk = d /\ p.at < k /\ k <= p.at + p.len
           x(d, k) == (d - 1) * Base + k - 1
<1>1. /\ Base \in Nat \ {0} /\ L \in Nat \ {0} /\ DOMAIN s.chunks = 1 .. L
      /\ m \in Nat \ {0} /\ DOMAIN ps = 1 .. m
  BY BufferAssumption, ChunkFacts DEF ChunksOK, PiecesRun, IsRun
<1>2. from \in Int /\ to \in Int /\ from <= to /\ IsRun(s, ps, from, to)
  <2>1. from \in Int /\ IsRun(s, ps, from, to)
    BY DEF PiecesRun
  <2> QED
    BY <2>1, RunJoined
<1>3. ASSUME NEW d \in 1 .. L, NEW k \in 1 .. Base, NEW i \in 1 .. m
      PROVE  /\ x(d, k) \in Int
             /\ covers(ps[i], d, k) <=> Addr(ps[i]) <= x(d, k) /\ x(d, k) < Addr(ps[i]) + ps[i].len
             /\ covers(ps[i], d, k) => ps[i].skip + k - ps[i].at = x(d, k) - from + 1
  <2> DEFINE p == ps[i]
             c == p.chunk
             a == p.at
             l == p.len
  <2>1. OnChunk(s, p) /\ p.skip = Addr(p) - from
    <3>1. OnChunk(s, p) /\ p.skip = 0 + Addr(p) - from
      BY <1>2 DEF IsRun, PiecesRun
    <3>2. Addr(p) \in Int
      BY <3>1, AddrInt
    <3> QED
      BY <1>2, <3>1, <3>2
  <2>2. c \in 1 .. L /\ a \in 0 .. Base /\ l \in 0 .. Base /\ a + l <= Base
    BY <2>1 DEF OnChunk
  <2>3. Addr(p) = (c - 1) * Base + a /\ (c - 1) * Base \in Int /\ (d - 1) * Base \in Int
    <3>1. c - 1 \in Int /\ d - 1 \in Int
      BY <2>2
    <3> QED
      BY <3>1, Times DEF Addr
  <2> HIDE DEF p, c, a, l
  <2>4. ASSUME c = d /\ a < k /\ k <= a + l
        PROVE  Addr(p) <= x(d, k) /\ x(d, k) < Addr(p) + l /\ p.skip + k - a = x(d, k) - from + 1
    BY <1>1, <1>2, <2>1, <2>2, <2>3, <2>4
  <2>5. ASSUME Addr(p) <= x(d, k), x(d, k) < Addr(p) + l
        PROVE  c = d /\ a < k /\ k <= a + l
    <3>1. ~ (c < d)
      <4> SUFFICES ASSUME c < d PROVE FALSE
        OBVIOUS
      <4>1. c - 1 \in Int /\ d - 1 \in Int /\ c - 1 < d - 1
        BY <2>2
      <4>2. (c - 1) * Base + Base <= (d - 1) * Base
        BY <4>1, Times
      <4> QED
        BY <1>1, <2>2, <2>3, <2>5, <4>2
    <3>2. ~ (d < c)
      <4> SUFFICES ASSUME d < c PROVE FALSE
        OBVIOUS
      <4>1. c - 1 \in Int /\ d - 1 \in Int /\ d - 1 < c - 1
        BY <2>2
      <4>2. (d - 1) * Base + Base <= (c - 1) * Base
        BY <4>1, Times
      <4> QED
        BY SMTT(60), <1>1, <2>2, <2>3, <2>5, <4>2
    <3>3. c = d
      BY <2>2, <3>1, <3>2
    <3> QED
      BY SMTT(60), <1>1, <2>2, <2>3, <2>5, <3>3
  <2>6. x(d, k) \in Int
    BY <1>1, <2>3
  <2> QED
    BY <2>4, <2>5, <2>6 DEF p, c, a, l
<1> HIDE DEF x
<1>4. new = [d \in 1 .. L |-> [k \in 1 .. Base |->
               IF \E i \in 1 .. m : covers(ps[i], d, k)
               THEN LET i == CHOOSE i \in 1 .. m : covers(ps[i], d, k)
                    IN  b[ps[i].skip + k - ps[i].at]
               ELSE s.chunks[d][k]]]
  BY <1>1, Zenon DEF Scattered
<1>5. ASSUME NEW d \in 1 .. L, NEW k \in 1 .. Base
      PROVE  /\ new[d][k] = IF from <= x(d, k) /\ x(d, k) < to THEN b[x(d, k) - from + 1]
                            ELSE s.chunks[d][k]
             /\ new[d][k] \in Byte
  <2>1. s.chunks[d][k] \in Byte
    BY ChunkFacts
  <2>2. new[d][k] = IF \E i \in 1 .. m : covers(ps[i], d, k)
               THEN LET i == CHOOSE i \in 1 .. m : covers(ps[i], d, k)
                    IN  b[ps[i].skip + k - ps[i].at]
               ELSE s.chunks[d][k]
    <3> HIDE DEF covers, new
    <3> QED
      BY <1>4, Zenon
  <2>3. CASE \E i \in 1 .. m : covers(ps[i], d, k)
    <3> DEFINE i == CHOOSE i \in 1 .. m : covers(ps[i], d, k)
    <3>1. i \in 1 .. m /\ covers(ps[i], d, k)
      <4> HIDE DEF covers
      <4> QED
        BY <2>3, Zenon
    <3>2. new[d][k] = b[ps[i].skip + k - ps[i].at]
      <4> HIDE DEF covers, new
      <4> QED
        BY <2>2, <2>3, Zenon
    <3> HIDE DEF i, new, covers
    <3>3. /\ x(d, k) \in Int
          /\ Addr(ps[i]) <= x(d, k) /\ x(d, k) < Addr(ps[i]) + ps[i].len
          /\ ps[i].skip + k - ps[i].at = x(d, k) - from + 1
      BY <1>3, <3>1
    <3>4. /\ from <= Addr(ps[i]) /\ Addr(ps[i]) + ps[i].len <= to
          /\ Addr(ps[i]) \in Int /\ ps[i].len \in Nat
      BY <1>2, <3>1, RunWithin, AddrInt DEF IsRun
    <3>5. from <= x(d, k) /\ x(d, k) < to
      <4> DEFINE a == Addr(ps[i])
                 l == ps[i].len
                 y == x(d, k)
      <4>1. a \in Int /\ l \in Nat /\ y \in Int /\ a <= y /\ y < a + l /\ from <= a /\ a + l <= to
        BY <3>3, <3>4
      <4> HIDE DEF a, l, y
      <4>2. from <= y /\ y < to
        BY <1>2, <4>1
      <4> QED
        BY <4>2 DEF y
    <3>6. x(d, k) - from + 1 \in 1 .. Len(b)
      BY <1>2, <3>3, <3>5
    <3>7. b[x(d, k) - from + 1] \in Byte
      BY <3>6
    <3> QED
      BY <3>2, <3>3, <3>5, <3>7
  <2>4. CASE ~ \E i \in 1 .. m : covers(ps[i], d, k)
    <3> HIDE DEF new, covers
    <3>1. new[d][k] = s.chunks[d][k]
      BY <2>2, <2>4, Zenon
    <3>2. ~ (from <= x(d, k) /\ x(d, k) < to)
      <4> SUFFICES ASSUME from <= x(d, k), x(d, k) < to PROVE FALSE
        OBVIOUS
      <4>1. 1 \in 1 .. m
        BY <1>1
      <4>2. x(d, k) \in from .. to - 1
        BY <1>2, <1>3, <4>1
      <4>3. PICK i \in 1 .. m : Addr(ps[i]) <= x(d, k) /\ x(d, k) < Addr(ps[i]) + ps[i].len
        BY <1>2, <4>2, RunWithin
      <4> QED
        BY <1>3, <2>4, <4>3
    <3> QED
      BY <2>1, <3>1, <3>2
  <2> QED
    BY <2>3, <2>4
<1>6. new \in Seq(Chunk) /\ Len(new) = L
  <2>1. \A d \in 1 .. L : new[d] = [k \in 1 .. Base |-> new[d][k]]
    BY <1>4
  <2> HIDE DEF new, covers
  <2>2. \A d \in 1 .. L : new[d] \in Chunk
    BY <1>5, <2>1, Zenon DEF Chunk
  <2>3. new = [d \in 1 .. L |-> new[d]]
    BY <1>4 DEF new
  <2> HIDE DEF L
  <2> QED
    BY <1>1, <2>2, <2>3
<1>7. ASSUME NEW y \in 0 .. Base * L - 1
      PROVE  new[(y \div Base) + 1][(y % Base) + 1]
               = IF from <= y /\ y < to THEN b[y - from + 1] ELSE ByteAt(s, y)
  <2> DEFINE d == (y \div Base) + 1
             k == (y % Base) + 1
  <2>1. d \in 1 .. L /\ k \in 1 .. Base /\ y = x(d, k)
    BY <1>1, PlaceOfByte DEF x
  <2>2. ByteAt(s, y) = s.chunks[d][k]
    BY DEF ByteAt
  <2> HIDE DEF d, k, new
  <2>3. new[d][k] = IF from <= y /\ y < to THEN b[y - from + 1] ELSE ByteAt(s, y)
    BY <1>5, <2>1, <2>2
  <2> QED
    BY <2>3 DEF d, k
<1> QED
  BY <1>6, <1>7

-----------------------------------------------------------------------------
(* Whole buffers, and what each call does to one.                            *)

\* A whole buffer: typed, with position, size and capacity in order, and the pointer that of the
\* chunk of the position, null at the end of the capacity.
Buffer == [chunks : Seq(Chunk), cur : Nat, position : Nat, capacity : Nat, size : Nat,
           dead : BOOLEAN]

Whole(s) ==
    /\ s \in Buffer /\ s.chunks # <<>>
    /\ s.position <= s.size /\ s.size <= s.capacity
    /\ s.capacity = Base * Len(s.chunks)
    /\ s.cur = IF s.position = s.capacity THEN Null ELSE s.position \div Base + 1

\* The parts of it.
LEMMA WholeFacts ==
    ASSUME NEW s, Whole(s)
    PROVE  /\ ChunksOK(s) /\ Len(s.chunks) \in Nat \ {0} /\ Base \in Nat \ {0}
           /\ s.position \in Nat /\ s.size \in Nat /\ s.capacity \in Nat /\ s.cur \in Nat
           /\ s.dead \in BOOLEAN
           /\ s.position <= s.size /\ s.size <= s.capacity
           /\ s.capacity = Base * Len(s.chunks)
           /\ s.cur = IF s.position = s.capacity THEN Null ELSE (s.position \div Base) + 1
<1>1. ChunksOK(s)
  BY DEF Whole, Buffer, ChunksOK
<1>2. Len(s.chunks) \in Nat \ {0} /\ Base \in Nat \ {0}
  BY <1>1, ChunkFacts, BufferAssumption
<1> QED
  BY <1>1, <1>2 DEF Whole, Buffer

\* A chunk as it is made.
LEMMA NewNodes ==
    ASSUME NEW count \in Nat
    PROVE  /\ [i \in 1 .. count |-> NewNode] \in Seq(Chunk)
           /\ Len([i \in 1 .. count |-> NewNode]) = count
<1>1. NewNode \in Chunk
  BY DEF NewNode, Chunk, Byte
<1> QED
  BY <1>1

\* A new buffer is whole.
LEMMA NewWhole == Whole(New) /\ ~ New.dead
<1>1. Base \in Nat \ {0} /\ Base * 1 = Base
  BY BufferAssumption
<1>2. <<NewNode>> \in Seq(Chunk) /\ Len(<<NewNode>>) = 1 /\ <<NewNode>> # <<>>
  <2>1. NewNode \in Chunk
    BY DEF NewNode, Chunk, Byte
  <2> QED
    BY <2>1
<1>3. 0 \div Base = 0
  <2>1. 0 \in Int /\ 0 \in 0 .. Base - 1 /\ 0 * Base + 0 = 0
    BY <1>1
  <2>2. (0 * Base + 0) \div Base = 0
    BY <2>1, DivUnique
  <2> QED
    BY <2>1, <2>2
<1> QED
  BY <1>1, <1>2, <1>3 DEF New, Whole, Buffer

\* addCapacity makes room, keeps the bytes, and keeps the pointer that of the position.
LEMMA AddedCapacity ==
    ASSUME NEW s, Whole(s), NEW n \in Nat
    PROVE  LET t == addCapacity(s, n)
           IN  /\ Whole(t)
               /\ t.position = s.position /\ t.size = s.size /\ t.dead = s.dead
               /\ s.capacity <= t.capacity /\ s.position + n <= t.capacity
               /\ \A x \in 0 .. s.capacity - 1 : ByteAt(t, x) = ByteAt(s, x)
<1> DEFINE t == addCapacity(s, n)
           L == Len(s.chunks)
           more == n - getCapacity(s)
           count == (more + Base - 1) \div Base
           nodes == [i \in 1 .. count |-> NewNode]
<1>1. /\ ChunksOK(s) /\ L \in Nat \ {0} /\ Base \in Nat \ {0}
      /\ s.position \in Nat /\ s.size \in Nat /\ s.capacity \in Nat
      /\ s.position <= s.size /\ s.size <= s.capacity /\ s.capacity = Base * L
      /\ s.cur = (IF s.position = s.capacity THEN Null ELSE (s.position \div Base) + 1)
  BY WholeFacts
<1>2. CASE n <= getCapacity(s)
  <2>1. t = s
    BY <1>2 DEF addCapacity
  <2>2. s.position + n <= s.capacity
    BY <1>1, <1>2 DEF getCapacity
  <2> HIDE DEF t
  <2> QED
    BY <1>1, <2>1, <2>2 DEF t
<1>3. CASE ~ (n <= getCapacity(s))
  <2>1. more \in Nat \ {0} /\ getCapacity(s) = s.capacity - s.position
    BY <1>1, <1>3 DEF getCapacity
  <2>2. /\ count \in Nat \ {0} /\ count * Base \in Int /\ more <= count * Base
    <3> HIDE DEF more
    <3>1. more + Base - 1 \in Int
      BY <1>1, <2>1
    <3> DEFINE y == more + Base - 1
               q == y \div Base
               r == y % Base
    <3>2. q \in Int /\ r \in 0 .. Base - 1 /\ y = q * Base + r
      <4> HIDE DEF y
      <4> QED
        BY <3>1, DivMod DEF y
    <3> HIDE DEF q, r
    <3>3. q * Base \in Int /\ more <= q * Base
      <4>1. q * Base \in Int
        BY <3>2, Times
      <4> QED
        BY <1>1, <2>1, <3>2, <4>1
    <3>4. ~ (q <= 0)
      <4> SUFFICES ASSUME q <= 0 PROVE FALSE
        OBVIOUS
      <4>1. q * Base <= 0 * Base
        BY <3>2, Times
      <4> QED
        BY <1>1, <2>1, <3>3, <4>1
    <3> QED
      BY <3>2, <3>3, <3>4 DEF q
  <2> HIDE DEF count
  <2> DEFINE room == count * Base
  <2>3. t = [s EXCEPT !.chunks = @ \o nodes, !.capacity = @ + room,
                      !.cur = IF getCapacity(s) = 0 THEN L + 1 ELSE @]
    BY <1>3 DEF addCapacity, count, nodes
  <2>3a. room \in Nat /\ more <= room /\ more \in Nat \ {0} /\ count \in Nat \ {0}
    <3> HIDE DEF more, room
    <3>1. room \in Int /\ more <= room
      BY <2>2 DEF room
    <3> QED
      BY <2>1, <2>2, <3>1
  <2>3b. Base * (L + count) = Base * L + room
    <3> HIDE DEF L
    <3> QED
      BY <1>1, <2>2
  <2> HIDE DEF room, more
  <2>4. nodes \in Seq(Chunk) /\ Len(nodes) = count
    BY <2>2, NewNodes
  <2> HIDE DEF nodes
  <2> DEFINE cs == s.chunks \o nodes
  <2>5. cs \in Seq(Chunk) /\ Len(cs) = L + count /\ \A i \in 1 .. L : cs[i] = s.chunks[i]
    <3> DEFINE old == s.chunks
    <3>1. old \in Seq(Chunk) /\ Len(old) = L
      BY <1>1 DEF ChunksOK
    <3> HIDE DEF old
    <3>2. /\ old \o nodes \in Seq(Chunk) /\ Len(old \o nodes) = L + count
          /\ \A i \in 1 .. L + count : (old \o nodes)[i] = IF i <= L THEN old[i] ELSE nodes[i - L]
      <4>1. /\ old \o nodes \in Seq(Chunk) /\ Len(old \o nodes) = Len(old) + Len(nodes)
            /\ \A i \in 1 .. Len(old) + Len(nodes) :
                  (old \o nodes)[i] = IF i <= Len(old) THEN old[i] ELSE nodes[i - Len(old)]
        BY <2>4, <3>1, ConcatProperties
      <4> HIDE DEF L
      <4> QED
        BY <2>4, <3>1, <4>1
    <3>3. \A i \in 1 .. L : i \in 1 .. L + count /\ i <= L
      BY <1>1, <2>2
    <3> QED
      BY <3>2, <3>3 DEF old
  <2> HIDE DEF cs
  <2>6. /\ t.chunks = cs /\ t.capacity = s.capacity + room
        /\ t.cur = (IF getCapacity(s) = 0 THEN L + 1 ELSE s.cur)
        /\ t.position = s.position /\ t.size = s.size /\ t.dead = s.dead
        /\ t \in Buffer
    <3>1. s.capacity + room \in Nat
      BY <1>1, <2>3a
    <3>2. s \in Buffer /\ (IF getCapacity(s) = 0 THEN L + 1 ELSE s.cur) \in Nat
      BY <1>1, WholeFacts DEF Whole
    <3>3. t = [s EXCEPT !.chunks = cs, !.capacity = s.capacity + room,
                      !.cur = IF getCapacity(s) = 0 THEN L + 1 ELSE s.cur]
      BY <2>3, <3>2 DEF Buffer, cs
    <3> DEFINE cap == s.capacity + room
               cur == IF getCapacity(s) = 0 THEN L + 1 ELSE s.cur
    <3> HIDE DEF cap, cur, t
    <3>4. t = [s EXCEPT !.chunks = cs, !.capacity = cap, !.cur = cur] /\ cap \in Nat /\ cur \in Nat
      BY <3>1, <3>2, <3>3 DEF cap, cur
    <3>5. /\ t.chunks = cs /\ t.capacity = cap /\ t.cur = cur
          /\ t.position = s.position /\ t.size = s.size /\ t.dead = s.dead
          /\ t \in Buffer
      BY <2>5, <3>2, <3>4 DEF Buffer
    <3> QED
      BY <3>5 DEF cap, cur
  <2> HIDE DEF t
  <2>7. t.capacity = Base * Len(t.chunks)
    <3> HIDE DEF L
    <3> QED
      BY <1>1, <2>3b, <2>5, <2>6
  <2>8. s.capacity <= t.capacity /\ s.position + n <= t.capacity /\ s.position < t.capacity
    <3>1. more = n - (s.capacity - s.position)
      BY <2>1 DEF more
    <3>2. /\ s.capacity \in Nat /\ s.position \in Nat /\ t.capacity = s.capacity + room
          /\ s.position <= s.capacity
      BY <1>1, <2>6
    <3> DEFINE cap == s.capacity
               pos == s.position
    <3> HIDE DEF cap, pos
    <3>3. /\ cap \in Nat /\ pos \in Nat /\ pos <= cap /\ more = n - (cap - pos)
          /\ t.capacity = cap + room
      BY <3>1, <3>2 DEF cap, pos
    <3>4. cap <= t.capacity /\ pos + n <= t.capacity /\ pos < t.capacity
      BY <2>3a, <3>3
    <3> QED
      BY <3>4 DEF cap, pos
  <2>9. t.cur = (s.position \div Base) + 1
    <3>1. CASE getCapacity(s) = 0
      <4>1. s.position = L * Base + 0 /\ L \in Int /\ 0 \in 0 .. Base - 1
        BY <1>1, <2>1, <3>1
      <4>2. s.position \div Base = L
        BY <4>1, DivUnique
      <4> QED
        BY <2>6, <3>1, <4>2
    <3>2. CASE getCapacity(s) # 0
      BY <1>1, <2>1, <2>6, <3>2
    <3> QED
      BY <3>1, <3>2
  <2>10. t.chunks # <<>>
    BY <1>1, <2>2, <2>5, <2>6
  <2>11. Whole(t)
    BY <1>1, <2>6, <2>7, <2>8, <2>9, <2>10 DEF Whole
  <2>12. ASSUME NEW x \in 0 .. s.capacity - 1 PROVE ByteAt(t, x) = ByteAt(s, x)
    <3>1. (x \div Base) + 1 \in 1 .. L
      BY <1>1, PlaceOfByte
    <3> QED
      BY <2>5, <2>6, <3>1 DEF ByteAt
  <2> QED
    BY <2>6, <2>8, <2>11, <2>12 DEF t
<1> QED
  BY <1>2, <1>3

\* t is s after b has been written.
Overwritten(s, t, b) ==
    /\ Whole(t) /\ t.dead = s.dead /\ s.capacity <= t.capacity
    /\ t.position = s.position + Len(b)
    /\ t.size = IF t.position > s.size THEN t.position ELSE s.size
    /\ \A x \in 0 .. t.size - 1 :
         ByteAt(t, x) = IF s.position <= x /\ x < t.position THEN b[x - s.position + 1]
                        ELSE ByteAt(s, x)

\* A buffer's pieces from its own position on.
LEMMA OwnPieces ==
    ASSUME NEW s, Whole(s), NEW n \in Nat, s.position < s.capacity, s.position + n <= s.capacity
    PROVE  LET ps == Pieces(s, s.cur, s.position % Base, n)
           IN  /\ PiecesRun(s, ps, s.position, s.position + n, 0)
               /\ ~ HitsNull(ps)
               /\ CursorAfter(s, ps) = IF s.position + n = s.capacity THEN Null
                                       ELSE ((s.position + n) \div Base) + 1
<1> DEFINE ps == Pieces(s, s.cur, s.position % Base, n)
           from == s.position
           to == s.position + n
<1>1. /\ ChunksOK(s) /\ from \in Nat /\ from < Base * Len(s.chunks)
      /\ from + n <= Base * Len(s.chunks)
      /\ s.capacity = Base * Len(s.chunks) /\ s.cur = (from \div Base) + 1
  BY WholeFacts
<1>2. PiecesRun(s, ps, from, to, 0)
  <2> HIDE DEF from
  <2>1. PiecesRun(s, Pieces(s, (from \div Base) + 1, from % Base, n), from, from + n, 0)
    BY <1>1, PiecesAre
  <2> QED
    BY <1>1, <2>1 DEF from
<1>3. ps \in Seq(Piece) /\ IsRun(s, ps, from, to)
  BY <1>2 DEF PiecesRun
<1> HIDE DEF ps, from, to
<1>4. /\ ~ HitsNull(ps)
      /\ CursorAfter(s, ps) = IF to = Base * Len(s.chunks) THEN Null ELSE (to \div Base) + 1
  BY <1>1, <1>3, RunLast
<1> QED
  BY <1>1, <1>2, <1>4 DEF ps, from, to

\* Where there is room, copying b over the pieces writes it.
LEMMA WrittenOver ==
    ASSUME NEW s, Whole(s), NEW b \in Seq(Byte), b # <<>>, s.position + Len(b) <= s.capacity
    PROVE  Overwritten(s, WriteInRoom(s, b), b)
<1> DEFINE n == Len(b)
           pos == s.position
           end == pos + n
           ps == Pieces(s, s.cur, s.position % Base, n)
           new == Scattered(s, ps, b)
           cur == CursorAfter(s, ps)
           size == IF end > s.size THEN end ELSE s.size
           t == WriteInRoom(s, b)
<1>1. n \in Nat \ {0}
  OBVIOUS
<1>2. /\ ChunksOK(s) /\ Len(s.chunks) \in Nat \ {0} /\ Base \in Nat \ {0}
      /\ pos \in Nat /\ s.size \in Nat /\ s.capacity \in Nat
      /\ pos <= s.size /\ s.size <= s.capacity /\ s.capacity = Base * Len(s.chunks)
      /\ end \in Nat /\ pos < end /\ end <= s.capacity /\ end - pos = n
  BY <1>1, WholeFacts
<1>3. /\ PiecesRun(s, ps, pos, end, 0) /\ ~ HitsNull(ps)
      /\ cur = IF end = s.capacity THEN Null ELSE (end \div Base) + 1
  <2>1. s.position < s.capacity /\ s.position + n <= s.capacity /\ n \in Nat
    BY <1>1, <1>2
  <2> QED
    BY <2>1, OwnPieces
<1>4. t = [s EXCEPT !.chunks = new, !.cur = cur, !.position = end, !.size = size]
  BY <1>3, WholeFacts DEF WriteInRoom, WriteOver, Whole, Buffer
<1> HIDE DEF ps
<1>5. /\ new \in Seq(Chunk) /\ Len(new) = Len(s.chunks)
      /\ \A x \in 0 .. s.capacity - 1 :
           new[(x \div Base) + 1][(x % Base) + 1]
             = IF pos <= x /\ x < end THEN b[x - pos + 1] ELSE ByteAt(s, x)
  <2> DEFINE to == end
  <2>1. ChunksOK(s) /\ pos \in Nat /\ PiecesRun(s, ps, pos, to, 0) /\ Len(b) = to - pos
    BY <1>2, <1>3
  <2> HIDE DEF to, pos
  <2>2. /\ new \in Seq(Chunk) /\ Len(new) = Len(s.chunks)
        /\ \A x \in 0 .. Base * Len(s.chunks) - 1 :
             new[(x \div Base) + 1][(x % Base) + 1]
               = IF pos <= x /\ x < to THEN b[x - pos + 1] ELSE ByteAt(s, x)
    BY <2>1, ScatteredRun
  <2> QED
    BY <1>2, <2>2 DEF to, pos
<1> HIDE DEF new, cur, t, n
<1>6. cur \in Nat
  <2>1. end \div Base >= 0
    <3> DEFINE e == end
               q == e \div Base
               r == e % Base
    <3>1. e \in Int /\ 0 <= e
      BY <1>2
    <3> HIDE DEF e
    <3>2. q \in Int /\ r \in 0 .. Base - 1 /\ e = q * Base + r
      BY <3>1, DivMod
    <3> HIDE DEF q, r
    <3> SUFFICES ASSUME q < 0 PROVE FALSE
      BY <3>2 DEF q, e
    <3>3. q * Base + Base <= 0 * Base /\ q * Base \in Int
      BY <3>2, Times
    <3> QED
      BY <1>2, <3>1, <3>2, <3>3
  <2>2. end \div Base \in Int
    <3> DEFINE e == end
    <3>1. e \in Int
      BY <1>2
    <3> HIDE DEF e
    <3>2. e \div Base \in Int
      BY <3>1, DivMod
    <3> QED
      BY <3>2 DEF e
  <2> QED
    BY <1>3, <2>1, <2>2 DEF Null
<1>7. size \in Nat /\ end <= size /\ size <= s.capacity
  BY <1>2
<1> HIDE DEF end, size
<1>8. /\ t.chunks = new /\ t.cur = cur /\ t.position = end /\ t.size = size
      /\ t.capacity = s.capacity /\ t.dead = s.dead /\ t \in Buffer
  <2>1. s \in Buffer
    BY DEF Whole
  <2> QED
    BY <1>2, <1>4, <1>5, <1>6, <1>7, <2>1 DEF Buffer
<1>9. Whole(t)
  <2>1. t.chunks # <<>>
    BY <1>2, <1>5, <1>8
  <2> QED
    BY <1>2, <1>3, <1>5, <1>7, <1>8, <2>1 DEF Whole
<1>10. ASSUME NEW x \in 0 .. t.size - 1
       PROVE  ByteAt(t, x) = IF pos <= x /\ x < end THEN b[x - pos + 1] ELSE ByteAt(s, x)
  <2>1. x \in 0 .. s.capacity - 1
    BY <1>2, <1>7, <1>8
  <2> QED
    BY <1>5, <1>8, <2>1 DEF ByteAt
<1> QED
  BY <1>2, <1>8, <1>9, <1>10 DEF Overwritten, end, size, n, t

\* write writes b, across chunks and behind the end.
LEMMA Written ==
    ASSUME NEW s, Whole(s), NEW b \in Seq(Byte)
    PROVE  Overwritten(s, write(s, b), b)
<1>1. /\ s.position \in Nat /\ s.size \in Nat /\ s.capacity \in Nat
      /\ s.position <= s.size /\ s.size <= s.capacity /\ Len(b) \in Nat
  BY WholeFacts
<1>2. CASE b = <<>>
  <2>1. write(s, b) = s /\ Len(b) = 0
    BY <1>2 DEF write
  <2>2. ~ (s.position > s.size) /\ s.position + 0 = s.position
    BY <1>1
  <2>3. \A x \in 0 .. s.size - 1 : ~ (s.position <= x /\ x < s.position)
    BY <1>1
  <2> QED
    BY <1>1, <2>1, <2>2, <2>3 DEF Overwritten
<1>3. CASE b # <<>>
  <2> DEFINE u == addCapacity(s, Len(b))
             t == WriteInRoom(u, b)
  <2>1. /\ Whole(u)
        /\ u.position = s.position /\ u.size = s.size /\ u.dead = s.dead
        /\ s.capacity <= u.capacity /\ s.position + Len(b) <= u.capacity
        /\ \A x \in 0 .. s.capacity - 1 : ByteAt(u, x) = ByteAt(s, x)
    BY <1>1, AddedCapacity
  <2>2. write(s, b) = t
    BY <1>3 DEF write
  <2> HIDE DEF u, t
  <2>3. Overwritten(u, t, b)
    BY <1>3, <2>1, WrittenOver DEF t
  <2>4. /\ Whole(t) /\ t.dead = s.dead /\ u.capacity <= t.capacity
        /\ t.position = s.position + Len(b)
        /\ t.size = IF t.position > s.size THEN t.position ELSE s.size
    BY <2>1, <2>3 DEF Overwritten
  <2>5. s.capacity <= t.capacity
    <3>1. u.capacity \in Nat /\ t.capacity \in Nat
      BY <2>1, <2>4, WholeFacts
    <3> QED
      BY <1>1, <2>1, <2>4, <3>1
  <2>6. ASSUME NEW x \in 0 .. t.size - 1
        PROVE  ByteAt(t, x) = IF s.position <= x /\ x < t.position THEN b[x - s.position + 1]
                              ELSE ByteAt(s, x)
    <3>1. ByteAt(t, x) = IF s.position <= x /\ x < t.position THEN b[x - s.position + 1]
                         ELSE ByteAt(u, x)
      BY <2>1, <2>3 DEF Overwritten
    <3>2. CASE s.position <= x /\ x < t.position
      BY <3>1, <3>2
    <3>3. CASE ~ (s.position <= x /\ x < t.position)
      <4>1. x \in 0 .. s.capacity - 1
        BY <1>1, <2>4, <3>3
      <4> QED
        BY <2>1, <3>1, <3>3, <4>1
    <3> QED
      BY <3>2, <3>3
  <2> QED
    BY <2>2, <2>4, <2>5, <2>6 DEF Overwritten
<1> QED
  BY <1>2, <1>3

\* Quotients of numbers are numbers.
LEMMA QuotientNat ==
    ASSUME NEW v \in Nat
    PROVE  v \div Base \in Nat
<1> DEFINE q == v \div Base
           r == v % Base
<1>1. q \in Int /\ r \in 0 .. Base - 1 /\ v = q * Base + r
  <2>1. v \in Int
    OBVIOUS
  <2> QED
    BY <2>1, DivMod
<1> HIDE DEF q, r
<1>2. 0 <= q
  <2> SUFFICES ASSUME q < 0 PROVE FALSE
    BY <1>1
  <2>1. q * Base + Base <= 0 * Base /\ q * Base \in Int
    BY <1>1, Times
  <2> QED
    BY BufferAssumption, <1>1, <2>1
<1> QED
  BY <1>1, <1>2 DEF q

\* A buffer of the same chunks with another position.
SameChunks(s, t) ==
    t \in Buffer /\ t.chunks = s.chunks /\ t.capacity = s.capacity /\ t.dead = s.dead

\* It is whole if its pointer is that of the position.
LEMMA Moved ==
    ASSUME NEW s, Whole(s), NEW v \in Nat, v <= s.capacity, NEW t, SameChunks(s, t),
           t.cur = IF v = s.capacity THEN Null ELSE (v \div Base) + 1,
           t.position = v, t.size = IF v > s.size THEN v ELSE s.size
    PROVE  Whole(t)
<1>1. /\ s.chunks # <<>> /\ s.capacity = Base * Len(s.chunks)
      /\ s.size \in Nat /\ s.capacity \in Nat /\ s.size <= s.capacity
  BY WholeFacts DEF Whole
<1>2. v <= t.size /\ t.size <= s.capacity
  BY <1>1
<1> QED
  BY <1>1, <1>2 DEF Whole, SameChunks

\* What read does when it may read.
LEMMA HasRead ==
    ASSUME NEW s, Whole(s), NEW n \in Nat, n <= getReadSize(s), s.position < s.capacity
    PROVE  LET r == read(s, n)
           IN  /\ Whole(r.s) /\ r.s.position = s.position + n /\ r.s.size = s.size
               /\ r.s.chunks = s.chunks /\ r.s.capacity = s.capacity /\ r.s.dead = s.dead
               /\ r.v \in Seq(Byte) /\ Len(r.v) = n
               /\ \A y \in 1 .. n : r.v[y] = ByteAt(s, s.position + y - 1)
<1> DEFINE ps == Pieces(s, s.cur, s.position % Base, n)
           to == s.position + n
           c == CursorAfter(s, ps)
           t == [s EXCEPT !.cur = c, !.position = @ + n]
           v == Gathered(s, ps)
<1>1. /\ ChunksOK(s) /\ s \in Buffer
      /\ s.position \in Nat /\ s.size \in Nat /\ s.capacity \in Nat
      /\ s.position <= s.size /\ s.size <= s.capacity
  BY WholeFacts DEF Whole
<1>2. to \in Nat /\ to <= s.size /\ to <= s.capacity /\ to - s.position = n
  BY <1>1 DEF getReadSize
<1>3. /\ PiecesRun(s, ps, s.position, to, 0) /\ ~ HitsNull(ps)
      /\ c = IF to = s.capacity THEN Null ELSE (to \div Base) + 1
  BY <1>2, OwnPieces
<1>4. read(s, n) = [s |-> t, v |-> v]
  BY <1>3, <1>1 DEF read, ReadOver, getReadSize
<1>5. IsRun(s, ps, s.position, to)
  BY <1>3 DEF PiecesRun
<1> HIDE DEF ps, c
<1>6. v \in Seq(Byte) /\ Len(v) = n /\ \A y \in 1 .. n : v[y] = ByteAt(s, s.position + y - 1)
  <2> DEFINE from == s.position
             e == to
  <2>1. from \in Nat /\ IsRun(s, ps, from, e) /\ e - from = n
    BY <1>1, <1>2, <1>5
  <2> HIDE DEF from, e
  <2>2. /\ v \in Seq(Byte) /\ Len(v) = e - from
        /\ \A y \in 1 .. e - from : v[y] = ByteAt(s, from + y - 1)
    BY <1>1, <2>1, GatheredRun
  <2> QED
    BY <2>1, <2>2 DEF from
<1>7. SameChunks(s, t) /\ t.position = to /\ t.size = s.size /\ t.cur = c
  <2>1. c \in Nat
    <3> HIDE DEF to
    <3> QED
      BY <1>2, <1>3, QuotientNat DEF Null
  <2>2. t = [s EXCEPT !.cur = c, !.position = to]
    BY <1>1 DEF Buffer
  <2> HIDE DEF t, to
  <2> QED
    BY <1>1, <1>2, <2>1, <2>2 DEF Buffer, SameChunks
<1> HIDE DEF t, v
<1>8. Whole(t)
  <2>1. t.size = IF to > s.size THEN to ELSE s.size
    BY <1>1, <1>2, <1>7
  <2> HIDE DEF to
  <2> QED
    BY <1>2, <1>3, <1>7, <2>1, Moved
<1> QED
  BY <1>4, <1>6, <1>7, <1>8 DEF SameChunks

\* At the end of the capacity there is nothing to read, and reading nothing ends there.
LEMMA ReadAtEnd ==
    ASSUME NEW s, Whole(s), NEW n \in Nat, n <= getReadSize(s), ~ (s.position < s.capacity)
    PROVE  n = 0 /\ s.position = s.capacity /\ read(s, n) = [s |-> Died(s), v |-> Crash]
<1>1. /\ ChunksOK(s) /\ Len(s.chunks) \in Nat /\ Base \in Nat \ {0}
      /\ s.position \in Nat /\ s.size \in Nat /\ s.capacity \in Nat
      /\ s.position <= s.size /\ s.size <= s.capacity
      /\ s.cur = (IF s.position = s.capacity THEN Null ELSE (s.position \div Base) + 1)
  BY WholeFacts
<1>2. n = 0 /\ s.position = s.capacity /\ s.cur = Null
  BY <1>1 DEF getReadSize
<1> DEFINE at == s.position % Base
           ps == Pieces(s, s.cur, at, 0)
<1>3. at \in 0 .. Base
  <2>1. s.position \in Int
    BY <1>1
  <2>2. at \in 0 .. Base - 1
    BY <2>1, DivMod
  <2> QED
    BY <1>1, <2>2
<1> HIDE DEF at
<1>4. ps = << [chunk |-> Null, at |-> at, len |-> 0, skip |-> 0] >>
  <2>1. ps = Walk(s, 0)[<<Null, at, 0>>]
    BY <1>2, PiecesWalk
  <2>2. IsWalk(s, 0, 0 .. Len(s.chunks), Walk(s, 0))
    BY <1>1, WalkExists
  <2>3. <<Null, at, 0>> \in Places(0 .. Len(s.chunks), 0)
    BY <1>1, <1>3 DEF Places, Null
  <2>4. ps = WalkBody(s, 0, Walk(s, 0), <<Null, at, 0>>)
    BY <2>1, <2>2, <2>3, Zenon DEF IsWalk
  <2> HIDE DEF ps
  <2> QED
    BY <2>4 DEF WalkBody
<1> HIDE DEF ps
<1>5. HitsNull(ps)
  BY <1>4 DEF HitsNull
<1>6. ~ (n > getReadSize(s))
  BY <1>1, <1>2 DEF getReadSize
<1> QED
  BY <1>2, <1>5, <1>6 DEF read, ReadOver, ps, at

\* From chunk d on the loop of setPosition finds the chunk of the place left bytes further on.
SeekOK(s, v, d) ==
    \A left \in 0 .. v :
        LET to == (d - 1) * Base + left
        IN  to <= Len(s.chunks) * Base
            => SeekFrom(s, v)[<<d, left>>] = IF to = Len(s.chunks) * Base THEN Null
                                             ELSE (to \div Base) + 1

\* If that is so for the next chunk, it is for this one.
LEMMA SeekStep ==
    ASSUME NEW s, ChunksOK(s), NEW v \in Nat, NEW d \in 1 .. Len(s.chunks),
           d < Len(s.chunks) => SeekOK(s, v, d + 1)
    PROVE  SeekOK(s, v, d)
<1> DEFINE L == Len(s.chunks)
<1>1. Base \in Nat \ {0} /\ L \in Nat \ {0} /\ d \in Nat /\ d # Null
  BY BufferAssumption, ChunkFacts DEF Null
<1> SUFFICES ASSUME NEW left \in 0 .. v, (d - 1) * Base + left <= L * Base
             PROVE  LET to == (d - 1) * Base + left
                    IN  SeekFrom(s, v)[<<d, left>>] = IF to = L * Base THEN Null
                                                      ELSE (to \div Base) + 1
  BY DEF SeekOK
<1> DEFINE to == (d - 1) * Base + left
           f == SeekFrom(s, v)
<1>2. /\ (d - 1) * Base \in Int /\ to \in Int /\ L * Base \in Int /\ d * Base \in Int
      /\ (d - 1) * Base = d * Base - Base
  BY <1>1, Times
<1>3. f[<<d, left>>] = IF left > Base THEN f[<<After(s, d), left - Base>>]
                       ELSE IF left = Base THEN After(s, d) ELSE d
  <2>1. IsSeek(s, v, f)
    BY <1>1, SeekExists
  <2>2. <<d, left>> \in (0 .. L) \X (0 .. v)
    BY <1>1
  <2>3. f[<<d, left>>] = SeekBody(s, f, <<d, left>>)
    BY <2>1, <2>2, Zenon DEF IsSeek
  <2> HIDE DEF f
  <2> QED
    BY <2>3 DEF SeekBody
<1> HIDE DEF f
<1>4. CASE left > Base
  <2>1. d < L
    <3> SUFFICES ASSUME L <= d PROVE FALSE
      BY <1>1
    <3>1. L * Base <= d * Base
      BY <1>1, Times
    <3> QED
      BY <1>1, <1>2, <1>4, <3>1
  <2> DEFINE e == d + 1
             away == left - Base
  <2>2. After(s, d) = e /\ away \in 0 .. v /\ e - 1 = d /\ SeekOK(s, v, e)
    BY <1>1, <1>4, <2>1 DEF After
  <2>3. (e - 1) * Base + away = to
    BY <1>1, <1>2, <2>2
  <2> HIDE DEF e, away, to
  <2>4. f[<<e, away>>] = IF to = L * Base THEN Null ELSE (to \div Base) + 1
    <3>1. (e - 1) * Base + away <= Len(s.chunks) * Base
      BY <2>3 DEF to
    <3> QED
      BY <2>2, <2>3, <3>1 DEF SeekOK, f
  <2> QED
    BY <1>3, <1>4, <2>2, <2>4 DEF to, f, away
<1>5. CASE left = Base
  <2>1. to = d * Base
    BY <1>1, <1>2, <1>5
  <2>2. CASE d = L
    BY <1>1, <1>3, <1>5, <2>1, <2>2 DEF After, f
  <2>3. CASE d # L
    <3>1. d \in Int /\ d < L /\ 0 \in 0 .. Base - 1 /\ to = d * Base + 0
      BY <1>1, <1>2, <2>1, <2>3
    <3> HIDE DEF to
    <3>2. to \div Base = d
      BY <3>1, DivUnique
    <3>3. d * Base + Base <= L * Base
      BY <1>1, <3>1, Times
    <3>4. to # L * Base /\ After(s, d) = d + 1
      BY <1>1, <1>2, <2>1, <3>1, <3>3 DEF After
    <3> QED
      BY <1>1, <1>3, <1>5, <3>2, <3>4 DEF f, to
  <2> QED
    BY <2>2, <2>3
<1>6. CASE left < Base
  <2>1. left \in 0 .. Base - 1 /\ d - 1 \in Int /\ d \in Int /\ d <= L
    BY <1>1, <1>6
  <2>2. to \div Base = d - 1
    BY <2>1, DivUnique
  <2>3. d * Base <= L * Base
    BY <1>1, <2>1, Times
  <2>4. to # L * Base /\ (d - 1) + 1 = d
    BY <1>1, <1>2, <1>6, <2>3
  <2> HIDE DEF to
  <2> QED
    BY <1>1, <1>3, <1>6, <2>2, <2>4 DEF f, to
<1> QED
  BY <1>1, <1>4, <1>5, <1>6

\* So it is for all chunks.
LEMMA SeekRuns ==
    ASSUME NEW s, ChunksOK(s), NEW v \in Nat, NEW d \in 1 .. Len(s.chunks)
    PROVE  SeekOK(s, v, d)
<1> DEFINE L == Len(s.chunks)
           S == {k \in Nat : \A e \in 1 .. L : L - e = k => SeekOK(s, v, e)}
<1>1. L \in Nat \ {0}
  BY ChunkFacts
<1>2. 0 \in S
  <2> SUFFICES ASSUME NEW e \in 1 .. L, L - e = 0 PROVE SeekOK(s, v, e)
    OBVIOUS
  <2>1. ~ (e < L)
    BY <1>1
  <2> QED
    BY <2>1, SeekStep
<1>3. ASSUME NEW k \in Nat, k \in S
      PROVE  k + 1 \in S
  <2> SUFFICES ASSUME NEW e \in 1 .. L, L - e = k + 1 PROVE SeekOK(s, v, e)
    OBVIOUS
  <2>1. e + 1 \in 1 .. L /\ L - (e + 1) = k
    BY <1>1
  <2>2. SeekOK(s, v, e + 1)
    BY <1>3, <2>1
  <2> QED
    BY <2>2, SeekStep
<1>4. L - d \in S
  <2>1. L - d \in Nat
    BY <1>1
  <2> HIDE DEF S
  <2> QED
    BY <1>2, <1>3, <2>1, NatSets
<1> QED
  BY <1>4

\* setPosition finds the pointer of any position up to the capacity.
LEMMA HasSetPosition ==
    ASSUME NEW s, Whole(s), NEW v \in Nat, v <= s.capacity
    PROVE  LET t == setPosition(s, v)
           IN  /\ Whole(t) /\ t.position = v /\ t.size = (IF v > s.size THEN v ELSE s.size)
               /\ t.chunks = s.chunks /\ t.capacity = s.capacity /\ t.dead = s.dead
<1> DEFINE t == setPosition(s, v)
           c == SeekFrom(s, v)[<<1, v>>]
           L == Len(s.chunks)
<1>1. /\ ChunksOK(s) /\ L \in Nat \ {0} /\ Base \in Nat \ {0}
      /\ s.capacity = Base * L /\ Base * L = L * Base
  BY WholeFacts
<1>2. SeekOK(s, v, 1) /\ v \in 0 .. v
  BY <1>1, SeekRuns
<1>3. (1 - 1) * Base + v = v
  BY <1>1
<1>4. v <= L * Base
  BY <1>1
<1> HIDE DEF L
<1>5. c = IF v = L * Base THEN Null ELSE (v \div Base) + 1
  BY <1>2, <1>3, <1>4 DEF SeekOK, L
<1> DEFINE size == IF v > s.size THEN v ELSE s.size
<1>6. SameChunks(s, t) /\ t.position = v /\ t.size = size /\ t.cur = c
  <2>1. c \in Nat /\ size \in Nat /\ s \in Buffer
    <3>1. c \in Nat
      <4> HIDE DEF c
      <4> QED
        BY <1>5, QuotientNat DEF Null
    <3>2. size \in Nat /\ s \in Buffer
      BY WholeFacts DEF Whole
    <3> QED
      BY <3>1, <3>2
  <2>2. t = [s EXCEPT !.position = v, !.size = IF v > @ THEN v ELSE @, !.cur = c]
    BY SetPositionSeek DEF Seek
  <2> HIDE DEF c, t
  <2>3. t = [s EXCEPT !.position = v, !.size = size, !.cur = c]
    BY <2>1, <2>2 DEF Buffer
  <2> HIDE DEF size
  <2> QED
    BY <2>1, <2>3 DEF Buffer, SameChunks
<1> HIDE DEF c, t
<1>7. c = IF v = s.capacity THEN Null ELSE (v \div Base) + 1
  BY <1>1, <1>5
<1>8. Whole(t)
  BY <1>6, <1>7, Moved
<1> QED
  BY <1>6, <1>8 DEF t, SameChunks

\* A place in a file's walk that goes to the end of a chunk, or is at the start of one.
FileOK(s, d) ==
    \A v \in Nat, rest \in Nat :
        (/\ rest # 0 /\ v + rest <= Len(s.chunks) * Base
         /\ d = (v \div Base) + 1
         /\ v % Base = 0 \/ rest > Base)
        => IsRun(s, FileWalk(s)[<<d, v, rest>>], v, v + rest)
           /\ FileWalk(s)[<<d, v, rest>>] \in Seq([chunk : Int, at : Int, len : Int])

\* If the walk from the next chunk is a run, the one from this chunk is.
LEMMA FileStep ==
    ASSUME NEW s, ChunksOK(s), NEW d \in 1 .. Len(s.chunks),
           d < Len(s.chunks) => FileOK(s, d + 1)
    PROVE  FileOK(s, d)
<1> DEFINE L == Len(s.chunks)
           R == [chunk : Int, at : Int, len : Int]
           W == FileWalk(s)
<1>1. Base \in Nat \ {0} /\ L \in Nat \ {0} /\ d \in Nat /\ d # Null
  BY BufferAssumption, ChunkFacts DEF Null
<1> SUFFICES ASSUME NEW v \in Nat, NEW rest \in Nat, rest # 0, v + rest <= L * Base,
                    d = (v \div Base) + 1, v % Base = 0 \/ rest > Base
             PROVE  IsRun(s, W[<<d, v, rest>>], v, v + rest) /\ W[<<d, v, rest>>] \in Seq(R)
  BY DEF FileOK
<1> DEFINE at == v % Base
           len == FilePiece(rest, at)
           q == [chunk |-> d, at |-> at, len |-> len]
           ps == W[<<d, v, rest>>]
           more == W[<<After(s, d), v + len, rest - len>>]
<1>2. at \in 0 .. Base - 1 /\ v = (d - 1) * Base + at /\ (d - 1) * Base \in Int
  <2>1. v \in Int
    OBVIOUS
  <2>2. v \div Base \in Int /\ at \in 0 .. Base - 1 /\ v = (v \div Base) * Base + at
    BY <2>1, DivMod
  <2>3. v \div Base = d - 1
    BY <1>1, <2>2
  <2>4. (d - 1) * Base \in Int
    BY <1>1, Times
  <2> QED
    BY <2>2, <2>3, <2>4
<1>3. IsFile(s, 0 .. L, W)
  BY <1>1, FileExists
<1>4. ps = <<q>> \o more
  <2>1. <<d, v, rest>> \in (0 .. L) \X Int \X Int
    BY <1>1
  <2>2. ps = FileBody(s, W, <<d, v, rest>>)
    BY <1>3, <2>1, Zenon DEF IsFile
  <2>3. ~ (rest <= 0)
    OBVIOUS
  <2> HIDE DEF W, ps
  <2> QED
    BY <1>1, <2>2, <2>3, Zenon DEF FileBody
<1>5. len = (IF rest > Base THEN Base ELSE rest) - at
  BY DEF FilePiece
<1> HIDE DEF at, len, W
<1>6. len \in 0 .. Base /\ at + len <= Base /\ len <= rest /\ at \in 0 .. Base
  BY <1>1, <1>2, <1>5 DEF at
<1>7. q \in R /\ OnChunk(s, q) /\ Addr(q) = v /\ q.len = len
  BY <1>1, <1>2, <1>6 DEF OnChunk, Addr
<1> HIDE DEF q, ps, more
<1>8. CASE rest > Base
  <2>1. len = Base - at
    BY <1>5, <1>8
  <2> DEFINE w == v + len
             r == rest - len
  <2>2. w \in Nat /\ r \in Nat /\ r # 0 /\ w + r = v + rest /\ w = v + q.len
    <3>1. Base \in Nat /\ at \in 0 .. Base - 1 /\ len = Base - at /\ q.len = len
      BY <1>1, <1>2, <1>7, <2>1
    <3>2. len \in Nat /\ len < rest
      BY <1>8, <3>1
    <3>3. w \in Nat /\ r \in Nat /\ r # 0 /\ w + r = v + rest
      BY <3>2
    <3> QED
      BY <3>1, <3>3
  <2>3. w = d * Base + 0 /\ d * Base \in Int
    <3>1. (d - 1) * Base = d * Base - Base /\ d * Base \in Int
      BY <1>1, Times
    <3> QED
      BY <1>1, <1>2, <2>1, <3>1
  <2>4. d < L
    <3> SUFFICES ASSUME L <= d PROVE FALSE
      BY <1>1
    <3>1. L * Base <= d * Base /\ L * Base \in Int
      BY <1>1, Times
    <3>2. w + r <= L * Base
      BY <2>2
    <3> HIDE DEF w, r
    <3> QED
      BY <2>2, <2>3, <3>1, <3>2
  <2>5. After(s, d) = d + 1 /\ FileOK(s, d + 1)
    BY <2>4 DEF After
  <2> HIDE DEF w, r
  <2>6. w \div Base = d /\ w % Base = 0
    <3>1. d \in Int /\ 0 \in 0 .. Base - 1
      BY <1>1
    <3> QED
      BY <2>3, <3>1, DivUnique
  <2>7. w + r <= L * Base
    BY <2>2
  <2>8. more = W[<<d + 1, w, r>>]
    BY <2>5 DEF more, w, r
  <2>9. IsRun(s, more, w, w + r) /\ more \in Seq(R)
    BY <2>2, <2>5, <2>6, <2>7, <2>8 DEF FileOK, W
  <2>10. IsRun(s, ps, v, v + rest)
    BY <1>4, <1>7, <2>2, <2>9, RunCons
  <2> QED
    BY <1>4, <1>7, <2>9, <2>10 DEF ps
<1>9. CASE ~ (rest > Base)
  <2>1. at = 0 /\ len = rest
    BY <1>1, <1>5, <1>9 DEF at
  <2>2. more = <<>>
    <3>1. <<After(s, d), v + len, rest - len>> \in (0 .. L) \X Int \X Int
      BY <1>1, <2>1 DEF After, Null
    <3>2. more = FileBody(s, W, <<After(s, d), v + len, rest - len>>)
      BY <1>3, <3>1, Zenon DEF IsFile, more
    <3>3. rest - len <= 0
      BY <2>1
    <3> QED
      BY <3>2, <3>3, Zenon DEF FileBody
  <2>3. ps = <<q>>
    BY <1>4, <2>2
  <2>4. IsRun(s, <<q>>, v, v + rest)
    BY <1>7, <2>1, RunOne
  <2> QED
    BY <1>7, <2>3, <2>4 DEF ps
<1> QED
  BY <1>8, <1>9 DEF ps

\* So it is for all chunks.
LEMMA FileRuns ==
    ASSUME NEW s, ChunksOK(s), NEW d \in 1 .. Len(s.chunks)
    PROVE  FileOK(s, d)
<1> DEFINE L == Len(s.chunks)
           S == {k \in Nat : \A e \in 1 .. L : L - e = k => FileOK(s, e)}
<1>1. L \in Nat \ {0}
  BY ChunkFacts
<1>2. 0 \in S
  <2> SUFFICES ASSUME NEW e \in 1 .. L, L - e = 0 PROVE FileOK(s, e)
    OBVIOUS
  <2>1. ~ (e < L)
    BY <1>1
  <2> QED
    BY <2>1, FileStep
<1>3. ASSUME NEW k \in Nat, k \in S
      PROVE  k + 1 \in S
  <2> SUFFICES ASSUME NEW e \in 1 .. L, L - e = k + 1 PROVE FileOK(s, e)
    OBVIOUS
  <2>1. e + 1 \in 1 .. L /\ L - (e + 1) = k
    BY <1>1
  <2>2. FileOK(s, e + 1)
    BY <1>3, <2>1
  <2> QED
    BY <2>2, FileStep
<1>4. L - d \in S
  <2>1. L - d \in Nat
    BY <1>1
  <2> HIDE DEF S
  <2> QED
    BY <1>2, <1>3, <2>1, NatSets
<1> QED
  BY <1>4

\* The bytes of the rest.
LEMMA RestFacts ==
    ASSUME NEW s, Whole(s)
    PROVE  /\ RestOf(s) \in Seq(Byte) /\ Len(RestOf(s)) = s.size - s.position
           /\ \A y \in 1 .. s.size - s.position : RestOf(s)[y] = ByteAt(s, s.position + y - 1)
<1> DEFINE pos == s.position
           size == s.size
           bs == Bytes(s)
<1>1. /\ ChunksOK(s) /\ pos \in Nat /\ size \in Nat /\ pos <= size
      /\ size <= Base * Len(s.chunks) /\ s.capacity = Base * Len(s.chunks) /\ s.capacity \in Nat
  BY WholeFacts
<1>2. /\ bs \in Seq(Byte) /\ Len(bs) = s.capacity
      /\ \A x \in 0 .. s.capacity - 1 : bs[x + 1] = ByteAt(s, x)
  BY <1>1, BytesOf
<1> HIDE DEF pos, size, bs
<1>3. \A i \in pos + 1 .. size : bs[i] \in Byte
  BY <1>1, <1>2
<1> DEFINE a == pos + 1
<1>4. a \in Int /\ size \in Int /\ \A i \in a .. size : bs[i] \in Byte
  BY <1>1, <1>3
<1> HIDE DEF a
<1>5. /\ SubSeq(bs, a, size) \in Seq(Byte)
      /\ Len(SubSeq(bs, a, size)) = (IF a <= size THEN size - a + 1 ELSE 0)
      /\ \A i \in 1 .. size - a + 1 : SubSeq(bs, a, size)[i] = bs[a + i - 1]
  BY <1>4, SubSeqProperties
<1>6. Len(SubSeq(bs, a, size)) = size - pos /\ size - a + 1 = size - pos
  BY <1>1, <1>5 DEF a
<1>7. ASSUME NEW y \in 1 .. size - pos
      PROVE  SubSeq(bs, a, size)[y] = ByteAt(s, pos + y - 1)
  <2>1. SubSeq(bs, a, size)[y] = bs[a + y - 1]
    BY <1>5, <1>6
  <2>2. pos + y - 1 \in 0 .. s.capacity - 1 /\ (pos + y - 1) + 1 = a + y - 1
    BY <1>1 DEF a
  <2> QED
    BY <1>2, <2>1, <2>2
<1> QED
  BY <1>5, <1>6, <1>7 DEF RestOf, pos, size, bs, a

\* What is written to a file is the rest, if it begins with a chunk or goes on for more than one.
LEMMA FileWritten ==
    ASSUME NEW s, Whole(s), s.position % Base = 0 \/ getReadSize(s) > Base
    PROVE  writeToFile(s) = RestOf(s) /\ writeToFile(s) # Crash
<1> DEFINE L == Len(s.chunks)
           v == s.position
           rest == getReadSize(s)
           ps == FileWalk(s)[<<s.cur, v, rest>>]
<1>1. /\ ChunksOK(s) /\ L \in Nat \ {0} /\ Base \in Nat \ {0} /\ v \in Nat /\ rest \in Nat
      /\ v + rest <= s.capacity /\ s.capacity = L * Base /\ s.capacity \in Nat
      /\ s.cur = (IF v = s.capacity THEN Null ELSE (v \div Base) + 1)
      /\ rest = s.size - v
  <2>1. Base * L = L * Base
    BY WholeFacts
  <2> QED
    BY <2>1, WholeFacts DEF getReadSize
<1>1a. v # s.capacity => v \in 0 .. Base * L - 1 /\ v < s.capacity /\ L \in Nat
  <2> DEFINE cap == s.capacity
  <2>1. Base * L = cap /\ cap \in Nat /\ v \in Nat /\ rest \in Nat /\ v + rest <= cap
    BY <1>1
  <2>2. v # cap => v \in 0 .. cap - 1 /\ v < cap
    <3> HIDE DEF v, rest, cap
    <3> QED
      BY <2>1
  <2> QED
    BY <1>1, <2>1, <2>2
<1>2. /\ RestOf(s) \in Seq(Byte) /\ Len(RestOf(s)) = rest
      /\ \A y \in 1 .. rest : RestOf(s)[y] = ByteAt(s, v + y - 1)
  BY <1>1, RestFacts
<1>3. RestOf(s) # Crash
  BY <1>2, BufferAssumption DEF Byte
<1>4. writeToFile(s) = IF HitsNull(ps) THEN Crash ELSE Gathered(s, ps)
  BY WriteToFileWalk
<1>5. CASE rest = 0
  <2>1. ps = <<>>
    <3>1. IsFile(s, 0 .. L, FileWalk(s))
      BY <1>1, FileExists
    <3>2. s.cur \in 0 .. L
      <4>1. CASE v = s.capacity
        BY <1>1, <4>1 DEF Null
      <4>2. CASE v # s.capacity
        <5>1. v \in 0 .. Base * L - 1 /\ L \in Nat
          BY <1>1a, <4>2
        <5> HIDE DEF L, v
        <5>2. (v \div Base) + 1 \in 1 .. L
          BY <5>1, PlaceOfByte
        <5> QED
          BY <1>1, <4>2, <5>2
      <4> QED
        BY <4>1, <4>2
    <3>3. <<s.cur, v, rest>> \in (0 .. L) \X Int \X Int
      BY <1>1, <3>2
    <3>4. ps = FileBody(s, FileWalk(s), <<s.cur, v, rest>>)
      BY <3>1, <3>3, Zenon DEF IsFile
    <3>5. rest <= 0
      BY <1>5
    <3> HIDE DEF ps, rest
    <3> QED
      BY <3>4, <3>5, Zenon DEF FileBody
  <2>2. RestOf(s) = <<>>
    BY <1>2, <1>5
  <2> HIDE DEF ps
  <2>3. ~ HitsNull(ps)
    BY <2>1 DEF HitsNull
  <2>4. Gathered(s, ps) = <<>>
    <3> DEFINE ss == [i \in DOMAIN ps |->
                        SubSeq(s.chunks[ps[i].chunk], ps[i].at + 1, ps[i].at + ps[i].len)]
    <3>1. ss = <<>> /\ Len(ss) = 0
      BY <2>1
    <3>2. Gathered(s, ps) = FlattenSeq(ss)
      BY DEF Gathered
    <3> HIDE DEF ss
    <3> QED
      BY <3>1, <3>2 DEF FlattenSeq
  <2> QED
    BY <1>3, <1>4, <2>2, <2>3, <2>4
<1>6. CASE rest # 0
  <2> DEFINE d == (v \div Base) + 1
             to == v + rest
  <2>1. v # s.capacity /\ s.cur = d
    BY <1>1, <1>6
  <2>2. d \in 1 .. L
    <3>1. v \in 0 .. Base * L - 1 /\ L \in Nat
      BY <1>1a, <2>1
    <3> HIDE DEF L, v
    <3> QED
      BY <3>1, PlaceOfByte
  <2>3. FileOK(s, d)
    BY <1>1, <2>2, FileRuns
  <2>4. v % Base = 0 \/ rest > Base
    OBVIOUS
  <2>5. IsRun(s, ps, v, to) /\ ps \in Seq([chunk : Int, at : Int, len : Int])
    <3>1. v + rest <= Len(s.chunks) * Base
      BY <1>1
    <3> HIDE DEF v, rest, d
    <3> QED
      BY <1>1, <1>6, <2>1, <2>3, <2>4, <3>1 DEF FileOK, d
  <2> DEFINE R == [chunk : Int, at : Int, len : Int]
             g == Gathered(s, ps)
  <2> HIDE DEF R, ps, v, to, g
  <2>6. ~ HitsNull(ps)
    BY <1>1, <2>5, RunLast DEF R
  <2>7. g \in Seq(Byte) /\ Len(g) = to - v /\ \A y \in 1 .. to - v : g[y] = ByteAt(s, v + y - 1)
    <3>1. ChunksOK(s) /\ v \in Nat
      BY <1>1
    <3> QED
      BY <2>5, <3>1, GatheredRun DEF g
  <2>8. to - v = rest
    BY <1>1 DEF to
  <2> DEFINE h == RestOf(s)
  <2>9. /\ h \in Seq(Byte) /\ Len(h) = Len(g)
        /\ \A y \in 1 .. Len(g) : g[y] = h[y]
    BY <1>2, <2>7, <2>8
  <2> HIDE DEF h
  <2>10. g = h
    BY <2>7, <2>9, SeqEqual
  <2> QED
    BY <1>3, <1>4, <2>6, <2>10 DEF g, h
<1> QED
  BY <1>5, <1>6

\* The first l bytes of b have been written over s.
FirstWritten(s, t, b, l) ==
    /\ Whole(t) /\ t.dead = s.dead /\ s.capacity <= t.capacity
    /\ t.position = s.position + l
    /\ t.size = IF t.position > s.size THEN t.position ELSE s.size
    /\ \A x \in 0 .. t.size - 1 :
         ByteAt(t, x) = IF s.position <= x /\ x < t.position THEN b[x - s.position + 1]
                        ELSE ByteAt(s, x)

\* Before the first part.
LEMMA NothingWritten ==
    ASSUME NEW s, Whole(s), NEW b
    PROVE  FirstWritten(s, s, b, 0)
<1>1. s.position \in Nat /\ s.size \in Nat /\ s.capacity \in Nat /\ s.position <= s.size
  BY WholeFacts
<1>2. ~ (s.position > s.size) /\ s.position + 0 = s.position /\ s.capacity <= s.capacity
  BY <1>1
<1>3. \A x \in 0 .. s.size - 1 : ~ (s.position <= x /\ x < s.position)
  BY <1>1
<1> QED
  BY <1>2, <1>3 DEF FirstWritten

\* One more part.
LEMMA WrittenNext ==
    ASSUME NEW s, Whole(s), NEW b, NEW l \in Nat, NEW u, FirstWritten(s, u, b, l),
           NEW p \in Seq(Byte), \A i \in 1 .. Len(p) : p[i] = b[l + i],
           NEW t, Overwritten(u, t, p)
    PROVE  FirstWritten(s, t, b, l + Len(p))
<1> DEFINE n == Len(p)
           pos == s.position
<1>1. /\ pos \in Nat /\ s.size \in Nat /\ s.capacity \in Nat /\ pos <= s.size /\ n \in Nat
  BY WholeFacts
<1>2. /\ Whole(u) /\ u.position = pos + l /\ u.dead = s.dead /\ s.capacity <= u.capacity
      /\ u.size = (IF pos + l > s.size THEN pos + l ELSE s.size)
  BY DEF FirstWritten
<1>3. /\ Whole(t) /\ t.position = u.position + n /\ t.dead = u.dead /\ u.capacity <= t.capacity
      /\ t.size = (IF t.position > u.size THEN t.position ELSE u.size)
  BY DEF Overwritten
<1>4. u.capacity \in Nat /\ t.capacity \in Nat
  BY <1>2, <1>3, WholeFacts
<1>5. s.capacity <= t.capacity
  BY <1>1, <1>2, <1>3, <1>4
<1>6. /\ t.position = pos + (l + n)
      /\ t.size = (IF t.position > s.size THEN t.position ELSE s.size)
  BY <1>1, <1>2, <1>3
<1>7. ASSUME NEW x \in 0 .. t.size - 1
      PROVE  ByteAt(t, x) = IF pos <= x /\ x < t.position THEN b[x - pos + 1] ELSE ByteAt(s, x)
  <2>1. ByteAt(t, x) = IF u.position <= x /\ x < t.position THEN p[x - u.position + 1]
                       ELSE ByteAt(u, x)
    BY DEF Overwritten
  <2>2. CASE u.position <= x /\ x < t.position
    <3> DEFINE i == x - u.position + 1
    <3>1. i \in 1 .. n /\ l + i = x - pos + 1 /\ pos <= x
      BY SMTT(60), <1>1, <1>2, <1>3, <2>2
    <3>2. p[i] = b[l + i]
      BY <3>1
    <3> QED
      BY <2>1, <2>2, <3>1, <3>2
  <2>3. CASE ~ (u.position <= x /\ x < t.position)
    <3>1. x \in 0 .. u.size - 1
      BY <1>1, <1>2, <1>3, <2>3
    <3>2. ByteAt(u, x) = IF pos <= x /\ x < u.position THEN b[x - pos + 1] ELSE ByteAt(s, x)
      BY <3>1 DEF FirstWritten
    <3>3. x < t.position <=> x < u.position
      BY <1>1, <1>2, <1>3, <2>3
    <3> QED
      BY <2>1, <2>3, <3>2, <3>3
  <2> QED
    BY <2>2, <2>3
<1> QED
  BY <1>2, <1>3, <1>5, <1>6, <1>7 DEF FirstWritten

\* What is read from a file is written as one string, though it is written in parts.
LEMMA FileRead ==
    ASSUME NEW s, Whole(s), NEW b \in Seq(Byte)
    PROVE  Overwritten(s, readFromFile(s, b), b)
<1> DEFINE n == Len(b)
           full == n \div Base
           part(i) == SubSeq(b, (i - 1) * Base + 1, Least(i * Base, n))
           q == [i \in 1 .. full + 1 |-> part(i)]
           m == full + 1
<1>1. n \in Nat /\ full \in Nat /\ m \in Nat /\ Base \in Nat \ {0}
  BY BufferAssumption, QuotientNat
<1>2. full * Base \in Int /\ full * Base <= n /\ n < full * Base + Base
  <2>1. n \in Int
    BY <1>1
  <2> HIDE DEF n
  <2>2. full \in Int /\ n % Base \in 0 .. Base - 1 /\ n = full * Base + (n % Base)
    BY <2>1, DivMod
  <2>3. full * Base \in Int
    BY <2>2, Times
  <2> QED
    BY <1>1, <2>1, <2>2, <2>3
<1>3. /\ readFromFile(s, b) = Iter(s, q)[1 .. m]
      /\ Iter(s, q)[1 .. 0] = s
      /\ \A k \in 0 .. m - 1 : Iter(s, q)[1 .. k + 1] = write(Iter(s, q)[1 .. k], q[k + 1])
  <2>1. readFromFile(s, b) = Folded(s, q)
    BY DEF readFromFile, Folded
  <2>2. DOMAIN q = 1 .. m
    OBVIOUS
  <2>3. m \in Nat
    BY <1>1
  <2> HIDE DEF q, m
  <2> QED
    <3>1. /\ Folded(s, q) = Iter(s, q)[1 .. m]
          /\ Iter(s, q)[1 .. 0] = s
          /\ \A k \in 0 .. m - 1 : Iter(s, q)[1 .. k + 1] = write(Iter(s, q)[1 .. k], q[k + 1])
      BY <2>2, <2>3, FoldSteps
    <3> QED
      BY <2>1, <3>1, Zenon
<1> DEFINE it(k) == Iter(s, q)[1 .. k]
           S == {k \in Nat : k <= m => FirstWritten(s, it(k), b, Least(k * Base, n))}
<1>4. 0 \in S
  <2>1. 0 * Base = 0 /\ Least(0, n) = 0
    BY <1>1 DEF Least
  <2> HIDE DEF q
  <2> QED
    BY <1>3, <2>1, NothingWritten
<1>5. ASSUME NEW k \in Nat, k \in S
      PROVE  k + 1 \in S
  <2> SUFFICES ASSUME k + 1 <= m PROVE FirstWritten(s, it(k + 1), b, Least((k + 1) * Base, n))
    OBVIOUS
  <2> DEFINE lo == k * Base
             hi == Least((k + 1) * Base, n)
             p == SubSeq(b, lo + 1, hi)
  <2>1. k \in 0 .. m - 1 /\ k <= full /\ k + 1 \in 1 .. full + 1
    BY <1>1
  <2>2. lo \in Nat /\ (k + 1) * Base = lo + Base
    <3>1. lo \in Int /\ (k + 1) * Base = lo + Base
      BY <1>1, Times
    <3>2. 0 * Base <= k * Base /\ 0 * Base = 0
      BY <1>1, Times
    <3> QED
      BY <3>1, <3>2
  <2>3. lo <= full * Base
    BY <1>1, <2>1, Times
  <2>4. hi \in Nat /\ lo <= hi /\ hi <= n /\ Least(k * Base, n) = lo
    <3> DEFINE w == full * Base
    <3>1. w \in Int /\ w <= n /\ lo <= w
      BY <1>2, <2>3
    <3> HIDE DEF w, lo, n
    <3> QED
      BY <1>1, <2>2, <3>1 DEF Least, lo
  <2>5. it(k + 1) = write(it(k), p)
    <3>1. q[k + 1] = part(k + 1)
      BY <2>1
    <3>2. part(k + 1) = p
      <4>1. (k + 1) - 1 = k
        OBVIOUS
      <4> QED
        BY <4>1
    <3> HIDE DEF q, part, p, m
    <3> QED
      BY <1>3, <2>1, <3>1, <3>2
  <2>5a. FirstWritten(s, it(k), b, Least(k * Base, n))
    <3>1. k <= m
      BY <1>1, <2>1
    <3> HIDE DEF it, m
    <3> QED
      BY <1>5, <3>1
  <2> HIDE DEF q, lo, hi, m, full
  <2>6. p \in Seq(Byte) /\ Len(p) = hi - lo /\ \A i \in 1 .. Len(p) : p[i] = b[lo + i]
    <3> DEFINE a == lo + 1
    <3>1. a \in Int /\ hi \in Int /\ \A i \in a .. hi : b[i] \in Byte
      BY <1>1, <2>2, <2>4
    <3> HIDE DEF a
    <3>2. /\ SubSeq(b, a, hi) \in Seq(Byte)
          /\ Len(SubSeq(b, a, hi)) = (IF a <= hi THEN hi - a + 1 ELSE 0)
          /\ \A i \in 1 .. hi - a + 1 : SubSeq(b, a, hi)[i] = b[a + i - 1]
      BY <3>1, SubSeqProperties
    <3>3. Len(SubSeq(b, a, hi)) = hi - lo /\ hi - a + 1 = hi - lo
      BY <2>2, <2>4, <3>2 DEF a
    <3>4. \A i \in 1 .. hi - lo : a + i - 1 = lo + i
      BY <2>2 DEF a
    <3>5. p = SubSeq(b, a, hi)
      BY DEF a
    <3> HIDE DEF p
    <3> QED
      BY <3>2, <3>3, <3>4, <3>5
  <2> DEFINE u == it(k)
  <2>7. FirstWritten(s, u, b, lo)
    BY <2>4, <2>5a
  <2> HIDE DEF u, p
  <2>8. Overwritten(u, write(u, p), p)
    BY <2>6, <2>7, Written DEF FirstWritten
  <2>9. FirstWritten(s, write(u, p), b, lo + Len(p))
    BY <2>2, <2>6, <2>7, <2>8, WrittenNext
  <2>10. lo + Len(p) = hi
    BY <2>2, <2>4, <2>6
  <2> QED
    BY <2>5, <2>9, <2>10 DEF u, hi
<1>6. FirstWritten(s, it(m), b, Least(m * Base, n))
  <2>1. m \in S
    <3> HIDE DEF S, m
    <3> QED
      BY <1>1, <1>4, <1>5, NatSets
  <2>2. m <= m
    BY <1>1
  <2> HIDE DEF it, m
  <2> QED
    BY <2>1, <2>2
<1>7. Least(m * Base, n) = n
  <2>1. m * Base = full * Base + Base
    BY <1>1, Times
  <2> HIDE DEF full, m, n
  <2> QED
    BY <1>1, <1>2, <2>1 DEF Least
<1> HIDE DEF q, m
<1> QED
  BY <1>3, <1>6, <1>7 DEF FirstWritten, Overwritten

-----------------------------------------------------------------------------
(* The invariant.                                                            *)

\* A cleared buffer is whole.
LEMMA ClearedWhole ==
    ASSUME NEW s, Whole(s)
    PROVE  /\ Whole(clear(s)) /\ clear(s).dead = s.dead
           /\ clear(s).position = 0 /\ clear(s).size = 0
<1> DEFINE c == <<Head(s.chunks)>>
           t == clear(s)
<1>1. Base \in Nat \ {0} /\ Base * 1 = Base
  BY BufferAssumption
<1>2. c \in Seq(Chunk) /\ Len(c) = 1 /\ c # <<>>
  <2>1. Head(s.chunks) \in Chunk
    BY WholeFacts DEF ChunksOK
  <2> QED
    BY <2>1
<1>3. (0 \div Base) + 1 = 1
  <2>1. 0 \in Int /\ 0 \in 0 .. Base - 1 /\ 0 * Base + 0 = 0
    BY <1>1
  <2>2. (0 * Base + 0) \div Base = 0
    BY <2>1, DivUnique
  <2> QED
    BY <2>1, <2>2
<1>4. t = [s EXCEPT !.chunks = c, !.cur = 1, !.position = 0, !.capacity = Base, !.size = 0]
  BY DEF clear, Whole, Buffer
<1> HIDE DEF c, t
<1>5. /\ t \in Buffer /\ t.chunks = c /\ t.cur = 1 /\ t.position = 0 /\ t.capacity = Base
      /\ t.size = 0 /\ t.dead = s.dead
  <2>1. s \in Buffer
    BY DEF Whole
  <2> QED
    BY <1>1, <1>2, <1>4, <2>1 DEF Buffer
<1>6. Whole(t)
  <2>1. t.chunks # <<>> /\ t.capacity = Base * Len(t.chunks)
    BY <1>1, <1>2, <1>5
  <2>2. t.position <= t.size /\ t.size <= t.capacity /\ t.position # t.capacity
    BY <1>1, <1>5
  <2>3. t.cur = (t.position \div Base) + 1
    BY <1>3, <1>5
  <2> QED
    BY <1>5, <2>1, <2>2, <2>3 DEF Whole
<1> QED
  BY <1>5, <1>6 DEF t

\* Dying changes nothing else.
LEMMA DiedWhole ==
    ASSUME NEW s, Whole(s)
    PROVE  /\ Whole(Died(s)) /\ Died(s).chunks = s.chunks /\ Died(s).position = s.position
           /\ Died(s).size = s.size /\ Died(s).capacity = s.capacity
<1> DEFINE t == Died(s)
<1>1. t = [s EXCEPT !.dead = TRUE]
  BY DEF Died
<1>2. s \in Buffer
  BY DEF Whole
<1> HIDE DEF t
<1>3. /\ t \in Buffer /\ t.chunks = s.chunks /\ t.cur = s.cur /\ t.position = s.position
      /\ t.capacity = s.capacity /\ t.size = s.size
  BY <1>1, <1>2 DEF Buffer
<1>4. Whole(t)
  BY <1>3 DEF Whole
<1> QED
  BY <1>3, <1>4 DEF t

\* Strings of data are strings of bytes.
LEMMA DataBytes ==
    ASSUME NEW b \in Data
    PROVE  b \in Seq(Byte) /\ Len(b) \in Nat
<1>1. b \in Seq(Nat)
  BY BufferAssumption
<1> QED
  BY <1>1 DEF Byte

-----------------------------------------------------------------------------
(* The flat buffer.                                                          *)

\* The bytes that were written, or skipped by setPosition.
Content(s) == SubSeq(Bytes(s), 1, s.size)

\* Their type and number.
LEMMA ContentFacts ==
    ASSUME NEW s, Whole(s)
    PROVE  /\ Content(s) \in Seq(Byte) /\ Len(Content(s)) = s.size
           /\ \A y \in 1 .. s.size : Content(s)[y] = ByteAt(s, y - 1)
<1> DEFINE size == s.size
           bs == Bytes(s)
<1>1. /\ ChunksOK(s) /\ size \in Nat /\ s.capacity \in Nat /\ size <= s.capacity
      /\ s.capacity = Base * Len(s.chunks)
  BY WholeFacts
<1>2. /\ bs \in Seq(Byte) /\ Len(bs) = s.capacity
      /\ \A x \in 0 .. s.capacity - 1 : bs[x + 1] = ByteAt(s, x)
  BY <1>1, BytesOf
<1> HIDE DEF size, bs
<1>3. 1 \in Int /\ size \in Int /\ \A i \in 1 .. size : bs[i] \in Byte
  BY <1>1, <1>2
<1>4. /\ SubSeq(bs, 1, size) \in Seq(Byte)
      /\ Len(SubSeq(bs, 1, size)) = (IF 1 <= size THEN size - 1 + 1 ELSE 0)
      /\ \A i \in 1 .. size - 1 + 1 : SubSeq(bs, 1, size)[i] = bs[1 + i - 1]
  BY <1>3, SubSeqProperties
<1>5. Len(SubSeq(bs, 1, size)) = size
  BY <1>1, <1>4
<1>6. ASSUME NEW y \in 1 .. size
      PROVE  SubSeq(bs, 1, size)[y] = ByteAt(s, y - 1)
  <2>1. y \in 1 .. size - 1 + 1 /\ 1 + y - 1 = y /\ y - 1 \in 0 .. s.capacity - 1 /\ (y - 1) + 1 = y
    BY <1>1
  <2> QED
    BY <1>2, <1>4, <2>1
<1> QED
  BY <1>4, <1>5, <1>6 DEF Content, size, bs

\* Buffers with the same bytes have the same contents, however many chunks.
LEMMA SameContent ==
    ASSUME NEW s, Whole(s), NEW t, Whole(t), t.size = s.size,
           \A x \in 0 .. s.size - 1 : ByteAt(t, x) = ByteAt(s, x)
    PROVE  Content(t) = Content(s)
<1> DEFINE f == Content(s)
           g == Content(t)
<1>1. s.size \in Nat
  BY WholeFacts
<1>2. /\ f \in Seq(Byte) /\ Len(f) = s.size /\ \A y \in 1 .. s.size : f[y] = ByteAt(s, y - 1)
  BY ContentFacts
<1>3. /\ g \in Seq(Byte) /\ Len(g) = s.size /\ \A y \in 1 .. s.size : g[y] = ByteAt(t, y - 1)
  BY ContentFacts
<1>4. \A y \in 1 .. s.size : y - 1 \in 0 .. s.size - 1
  BY <1>1
<1> HIDE DEF f, g
<1>5. \A y \in 1 .. Len(f) : f[y] = g[y]
  BY <1>2, <1>3, <1>4
<1>6. f = g
  BY <1>2, <1>3, <1>5, SeqEqual
<1> QED
  BY <1>6 DEF f, g

\* A part of the contents, byte by byte.
LEMMA PartOfContent ==
    ASSUME NEW s, Whole(s), NEW from \in Nat, NEW to \in Nat, from <= to, to <= s.size,
           NEW v \in Seq(Byte), Len(v) = to - from,
           \A y \in 1 .. to - from : v[y] = ByteAt(s, from + y - 1)
    PROVE  v = SubSeq(Content(s), from + 1, to)
<1> DEFINE c == Content(s)
           a == from + 1
           w == SubSeq(c, a, to)
<1>1. /\ c \in Seq(Byte) /\ Len(c) = s.size /\ \A y \in 1 .. s.size : c[y] = ByteAt(s, y - 1)
      /\ s.size \in Nat
  BY ContentFacts, WholeFacts
<1> HIDE DEF c
<1>2. a \in Int /\ to \in Int /\ \A i \in a .. to : c[i] \in Byte
  BY <1>1
<1> HIDE DEF a
<1>3. /\ w \in Seq(Byte)
      /\ Len(w) = (IF a <= to THEN to - a + 1 ELSE 0)
      /\ \A i \in 1 .. to - a + 1 : w[i] = c[a + i - 1]
  BY <1>2, SubSeqProperties
<1>4. Len(w) = to - from /\ to - a + 1 = to - from
  BY <1>3 DEF a
<1> HIDE DEF w
<1>5. ASSUME NEW y \in 1 .. to - from
      PROVE  v[y] = w[y]
  <2>1. a + y - 1 \in 1 .. s.size /\ (a + y - 1) - 1 = from + y - 1
    BY <1>1 DEF a
  <2>2. w[y] = c[a + y - 1]
    BY <1>3, <1>4
  <2>3. c[a + y - 1] = ByteAt(s, from + y - 1)
    BY <1>1, <2>1
  <2> QED
    BY <2>2, <2>3
<1>6. \A y \in 1 .. Len(v) : v[y] = w[y]
  BY <1>5
<1>7. v = w
  BY <1>3, <1>4, <1>6, SeqEqual
<1> QED
  BY <1>7 DEF w, c, a

\* The contents after b has been written.
LEMMA OverwrittenContent ==
    ASSUME NEW s, Whole(s), NEW b \in Seq(Byte), NEW t, Overwritten(s, t, b)
    PROVE  LET c == Content(s)
               end == s.position + Len(b)
           IN  Content(t) = [k \in 1 .. (IF end > Len(c) THEN end ELSE Len(c)) |->
                                IF k \in s.position + 1 .. end THEN b[k - s.position] ELSE c[k]]
<1> DEFINE c == Content(s)
           e == Content(t)
           pos == s.position
           n == Len(b)
           end == pos + n
           new == [k \in 1 .. (IF end > Len(c) THEN end ELSE Len(c)) |->
                     IF k \in pos + 1 .. end THEN b[k - pos] ELSE c[k]]
<1>1. /\ pos \in Nat /\ s.size \in Nat /\ pos <= s.size /\ n \in Nat
      /\ Len(c) = s.size /\ \A y \in 1 .. s.size : c[y] = ByteAt(s, y - 1)
  BY WholeFacts, ContentFacts
<1>2. /\ Whole(t) /\ t.position = end /\ t.size = (IF end > s.size THEN end ELSE s.size)
      /\ \A x \in 0 .. t.size - 1 :
           ByteAt(t, x) = IF pos <= x /\ x < end THEN b[x - pos + 1] ELSE ByteAt(s, x)
  BY DEF Overwritten
<1>3. /\ e \in Seq(Byte) /\ Len(e) = t.size /\ \A y \in 1 .. t.size : e[y] = ByteAt(t, y - 1)
      /\ t.size \in Nat
  BY <1>2, ContentFacts, WholeFacts
<1> HIDE DEF c, e, pos, n
<1>4. ASSUME NEW y \in 1 .. t.size
      PROVE  e[y] = IF y \in pos + 1 .. end THEN b[y - pos] ELSE c[y]
  <2> DEFINE x == y - 1
  <2>1. /\ x \in 0 .. t.size - 1 /\ x - pos + 1 = y - pos
        /\ pos <= x /\ x < end <=> y \in pos + 1 .. end
    BY <1>1, <1>3
  <2>2. e[y] = ByteAt(t, x)
    BY <1>3
  <2>3. e[y] = IF pos <= x /\ x < end THEN b[x - pos + 1] ELSE ByteAt(s, x)
    BY <1>2, <2>1, <2>2
  <2>4. CASE y \in pos + 1 .. end
    BY <2>1, <2>3, <2>4
  <2>5. CASE y \notin pos + 1 .. end
    <3>1. y \in 1 .. s.size
      BY <1>1, <1>2, <1>3, <2>5
    <3>2. c[y] = ByteAt(s, x)
      BY <1>1, <3>1
    <3> QED
      BY <2>1, <2>3, <2>5, <3>2
  <2> QED
    BY <2>4, <2>5
<1>5. e = [k \in 1 .. t.size |-> e[k]]
  BY <1>3
<1>6. t.size = IF end > Len(c) THEN end ELSE Len(c)
  BY <1>1, <1>2
<1>7. e = new
  BY <1>4, <1>5, <1>6
<1> QED
  BY <1>7 DEF c, e, pos, n

\* The addresses that a flat buffer promises.
Behind(v, n) == [k \in 1 .. n |-> v + k - 1]

\* The addresses of n bytes from v on.
LEMMA CoveredPieces ==
    ASSUME NEW s, Whole(s), NEW v \in Nat, NEW n \in Nat, v < s.capacity, v + n <= s.capacity
    PROVE  Covered(Pieces(s, (v \div Base) + 1, v % Base, n)) = Behind(v, n)
<1> DEFINE ps == Pieces(s, (v \div Base) + 1, v % Base, n)
           to == v + n
<1>1. ChunksOK(s) /\ s.capacity = Base * Len(s.chunks)
  BY WholeFacts
<1>2. PiecesRun(s, ps, v, to, 0)
  BY <1>1, PiecesAre
<1>3. ps \in Seq(Piece) /\ IsRun(s, ps, v, to)
  BY <1>2 DEF PiecesRun
<1>4. to - v = n
  OBVIOUS
<1> HIDE DEF ps, to
<1>5. Covered(ps) = [k \in 1 .. to - v |-> v + k - 1]
  BY <1>1, <1>3, CoveredRun
<1> QED
  BY <1>4, <1>5 DEF ps, Behind

\* Of no bytes there are none.
LEMMA NothingBehind ==
    ASSUME NEW v
    PROVE  Behind(v, 0) = <<>>
BY DEF Behind

\* Addresses are no null pointer that was followed.
LEMMA BehindAlive ==
    ASSUME NEW v \in Nat, NEW n \in Nat
    PROVE  Behind(v, n) # Crash
<1>1. Behind(v, n) \in Seq(Nat \cup {Junk})
  <2>1. \A k \in 1 .. n : v + k - 1 \in Nat \cup {Junk}
    OBVIOUS
  <2> QED
    BY <2>1 DEF Behind
<1> QED
  BY <1>1, BufferAssumption

\* n bytes, or as many as there are.
Upto(s, n) == IF n < s.size - s.position THEN n ELSE s.size - s.position

\* The buffer functions return the addresses that are asked for, within the capacity.
LEMMA ReadBuffersAt ==
    ASSUME NEW s, Whole(s), NEW n \in Nat, NEW v \in Nat, v + Upto(s, n) <= s.capacity
    PROVE  getReadBuffersAt(s, n, v) = Behind(v, Upto(s, n))
<1> DEFINE l == Upto(s, n)
<1>1. /\ s.position \in Nat /\ s.size \in Nat /\ s.capacity \in Nat /\ s.position <= s.size
      /\ s.capacity = Base * Len(s.chunks) /\ Len(s.chunks) \in Nat
  BY WholeFacts, ChunkFacts
<1>2. l \in Nat /\ v + l <= s.capacity
  BY <1>1 DEF Upto
<1>3. getReadBuffersAt(s, n, v)
        = IF l = 0 THEN <<>> ELSE Covered(Pieces(s, ChunkOf(s, v), v % Base, l))
  BY DEF getReadBuffersAt, Least, getReadSize, Upto
<1> HIDE DEF l
<1>4. CASE l = 0
  BY <1>3, <1>4, NothingBehind DEF l
<1>5. CASE l # 0
  <2>1. v < s.capacity /\ v \in 0 .. Base * Len(s.chunks) - 1
    BY <1>1, <1>2, <1>5
  <2>2. ChunkOf(s, v) = (v \div Base) + 1
    <3> DEFINE q == v \div Base
               L == Len(s.chunks)
    <3>0. q + 1 \in 1 .. L
      BY <1>1, <2>1, PlaceOfByte
    <3>1. q \in Int
      BY BufferAssumption, DivMod
    <3> HIDE DEF q, L
    <3>2. q < L
      BY <1>1, <3>0, <3>1 DEF L
    <3> QED
      BY <3>2 DEF ChunkOf, q, L
  <2>3. Covered(Pieces(s, (v \div Base) + 1, v % Base, l)) = Behind(v, l)
    BY <1>2, <2>1, CoveredPieces
  <2> QED
    BY <1>3, <1>5, <2>2, <2>3 DEF l
<1> QED
  BY <1>4, <1>5

\* From the position on.
LEMMA ReadBuffers ==
    ASSUME NEW s, Whole(s), NEW n \in Nat
    PROVE  getReadBuffers(s, n) = Behind(s.position, Upto(s, n))
<1> DEFINE l == Upto(s, n)
           pos == s.position
<1>1. /\ pos \in Nat /\ s.size \in Nat /\ s.capacity \in Nat
      /\ pos <= s.size /\ s.size <= s.capacity
      /\ s.cur = (IF pos = s.capacity THEN Null ELSE (pos \div Base) + 1)
  BY WholeFacts
<1>2. l \in Nat /\ l <= s.size - pos
  BY <1>1 DEF Upto
<1>3. getReadBuffers(s, n)
        = IF l = 0 THEN <<>> ELSE Covered(Pieces(s, s.cur, pos % Base, l))
  BY DEF getReadBuffers, Least, getReadSize, Upto
<1> HIDE DEF l
<1>4. CASE l = 0
  BY <1>3, <1>4, NothingBehind DEF l
<1>5. CASE l # 0
  <2>1. pos < s.capacity /\ pos + l <= s.capacity
    BY <1>1, <1>2, <1>5
  <2>2. s.cur = (pos \div Base) + 1
    BY <1>1, <2>1
  <2> HIDE DEF pos
  <2>3. Covered(Pieces(s, (pos \div Base) + 1, pos % Base, l)) = Behind(pos, l)
    BY <1>1, <1>2, <2>1, CoveredPieces
  <2> QED
    BY <1>3, <1>5, <2>2, <2>3 DEF l, pos
<1> QED
  BY <1>4, <1>5

\* To be written.
LEMMA WriteBuffers ==
    ASSUME NEW s, Whole(s), NEW n \in Nat, s.position + n <= s.capacity
    PROVE  getWriteBuffers(s, n) = Behind(s.position, n)
<1> DEFINE pos == s.position
<1>1. /\ pos \in Nat /\ s.capacity \in Nat
      /\ s.cur = (IF pos = s.capacity THEN Null ELSE (pos \div Base) + 1)
  BY WholeFacts
<1>2. CASE n = 0
  BY <1>2, NothingBehind DEF getWriteBuffers
<1>3. CASE n # 0
  <2>1. pos < s.capacity /\ pos + n <= s.capacity
    BY <1>1, <1>3
  <2>2. s.cur = (pos \div Base) + 1
    BY <1>1, <2>1
  <2>3. getWriteBuffers(s, n) = Covered(Pieces(s, s.cur, pos % Base, n))
    BY <1>3 DEF getWriteBuffers
  <2> HIDE DEF pos
  <2>4. Covered(Pieces(s, (pos \div Base) + 1, pos % Base, n)) = Behind(pos, n)
    BY <1>1, <2>1, CoveredPieces
  <2> QED
    BY <2>2, <2>3, <2>4 DEF pos
<1> QED
  BY <1>2, <1>3

\* What read returns is a part of the contents.
LEMMA ReadValue ==
    ASSUME NEW s, Whole(s), NEW n \in Nat, n <= getReadSize(s), s.position < s.capacity
    PROVE  read(s, n).v = SubSeq(Content(s), s.position + 1, s.position + n)
<1> DEFINE v == read(s, n).v
           from == s.position
           to == from + n
<1>1. from \in Nat /\ s.size \in Nat /\ from <= s.size
  BY WholeFacts
<1>2. to \in Nat /\ from <= to /\ to <= s.size /\ to - from = n
  BY <1>1 DEF getReadSize
<1>3. v \in Seq(Byte) /\ Len(v) = n /\ \A y \in 1 .. n : v[y] = ByteAt(s, from + y - 1)
  BY HasRead
<1> HIDE DEF v, to, from
<1>4. v = SubSeq(Content(s), from + 1, to)
  BY <1>1, <1>2, <1>3, PartOfContent
<1> QED
  BY <1>4 DEF v, to, from

\* toString returns the rest of the contents.
LEMMA StringValue ==
    ASSUME NEW s, Whole(s)
    PROVE  toString(s) = SubSeq(Content(s), s.position + 1, Len(Content(s)))
<1>1. /\ s.position \in Nat /\ s.size \in Nat /\ s.capacity \in Nat
      /\ s.position <= s.size /\ s.size <= s.capacity /\ Len(Content(s)) = s.size
      /\ getReadSize(s) = s.size - s.position
  BY WholeFacts, ContentFacts DEF getReadSize
<1>2. CASE getReadSize(s) = 0
  <2> DEFINE from == s.position
  <2>1. toString(s) = <<>>
    BY <1>2 DEF toString
  <2>2. from = s.size
    BY <1>1, <1>2
  <2> DEFINE e == <<>>
  <2>3. /\ e \in Seq(Byte) /\ Len(e) = s.size - from
        /\ \A y \in 1 .. s.size - from : e[y] = ByteAt(s, from + y - 1)
    BY <1>1, <2>2
  <2> HIDE DEF from, e
  <2>4. e = SubSeq(Content(s), from + 1, s.size)
    BY <1>1, <2>2, <2>3, PartOfContent
  <2> QED
    BY <1>1, <2>1, <2>4 DEF from, e
<1>3. CASE getReadSize(s) # 0
  <2> DEFINE n == getReadSize(s)
  <2>1. n \in Nat /\ n <= getReadSize(s) /\ s.position < s.capacity /\ s.position + n = s.size
    BY <1>1, <1>3
  <2>2. toString(s) = read(s, n).v
    BY <1>3 DEF toString
  <2>3. read(s, n).v = SubSeq(Content(s), s.position + 1, s.position + n)
    BY <2>1, ReadValue
  <2> QED
    BY <1>1, <2>1, <2>2, <2>3
<1> QED
  BY <1>2, <1>3

\* What only looks follows no null pointer.
LEMMA ReadBuffersAlive ==
    ASSUME NEW s, Whole(s), NEW n \in Nat
    PROVE  getReadBuffers(s, n) # Crash
<1>1. s.position \in Nat /\ Upto(s, n) \in Nat
  BY WholeFacts DEF Upto
<1> QED
  BY <1>1, ReadBuffers, BehindAlive

\* Except from a position from which the bytes do not fit into the capacity.
LEMMA ReadBuffersAtAlive ==
    ASSUME NEW s, Whole(s), NEW n \in Nat, NEW v \in Nat, getReadBuffersAt(s, n, v) = Crash
    PROVE  v + Upto(s, n) > s.capacity
<1>1. Upto(s, n) \in Nat /\ s.capacity \in Nat
  BY WholeFacts DEF Upto
<1>2. v + Upto(s, n) <= s.capacity => FALSE
  BY <1>1, ReadBuffersAt, BehindAlive
<1> QED
  BY <1>1, <1>2

\* addCapacity makes the room for the bytes to come.
LEMMA WriteBuffersAlive ==
    ASSUME NEW s, Whole(s), NEW n \in Nat
    PROVE  getWriteBuffers(addCapacity(s, n), n) # Crash
<1> DEFINE r == addCapacity(s, n)
<1>1. Whole(r) /\ r.position = s.position /\ s.position + n <= r.capacity /\ s.position \in Nat
  BY AddedCapacity, WholeFacts
<1> HIDE DEF r
<1>2. getWriteBuffers(r, n) = Behind(r.position, n)
  BY <1>1, WriteBuffers
<1> QED
  BY <1>1, <1>2, BehindAlive DEF r

\* The rest of the contents is a string.
LEMMA StringAlive ==
    ASSUME NEW s, Whole(s)
    PROVE  toString(s) # Crash
<1> DEFINE c == Content(s)
<1>1. c \in Seq(Byte) /\ Len(c) = s.size /\ s.position \in Nat /\ s.size \in Nat
  BY ContentFacts, WholeFacts
<1>2. toString(s) = SubSeq(c, s.position + 1, s.size)
  BY <1>1, StringValue
<1> HIDE DEF c
<1>3. SubSeq(c, s.position + 1, s.size) \in Seq(Byte)
  BY <1>1
<1> QED
  BY <1>2, <1>3, BufferAssumption DEF Byte

-----------------------------------------------------------------------------
(* The invariant of the calls.                                             *)

\* The inductive invariant: the pointer alone is not, as what a call does to the bytes rests on the
\* types and on the order of position, size and capacity.
WireInv == Whole(bt) /\ DiesOnlyAtEnd /\ FileKept

\* A new buffer satisfies it.
LEMMA WireInit == Init => WireInv
BY NewWhole DEF Init, WireInv, DiesOnlyAtEnd, FileKept

\* A call that is no write to a file and leaves a whole buffer alive.
LEMMA Called ==
    ASSUME Whole(bt'), ~ bt'.dead, out'.call # "writeToFile"
    PROVE  WireInv'
BY DEF WireInv, DiesOnlyAtEnd, FileKept

\* Every call keeps it.
LEMMA WireStep == WireInv /\ [WireNext]_vars => WireInv'
<1> SUFFICES ASSUME WireInv, [WireNext]_vars PROVE WireInv'
  OBVIOUS
<1>0. Whole(bt) /\ bt.position \in Nat /\ bt.capacity \in Nat /\ bt.position <= bt.capacity
  <2>1. Whole(bt)
    BY DEF WireInv
  <2> QED
    BY <2>1, WholeFacts
<1>1. ASSUME NEW b \in Data, Write(b)
      PROVE  WireInv'
  <2>1. ~ bt.dead /\ bt' = write(bt, b) /\ out'.call = "write"
    BY <1>1 DEF Write, Room, Returned
  <2>2. Overwritten(bt, write(bt, b), b)
    BY <1>0, DataBytes, Written
  <2>3. Whole(bt') /\ ~ bt'.dead
    BY <2>1, <2>2 DEF Overwritten
  <2> QED
    BY <2>1, <2>3, Called
<1>2. ASSUME NEW b \in Data, ReadFromFile(b)
      PROVE  WireInv'
  <2>1. ~ bt.dead /\ bt' = readFromFile(bt, b) /\ out'.call = "readFromFile"
    BY <1>2 DEF ReadFromFile, Room, Returned
  <2>2. Overwritten(bt, readFromFile(bt, b), b)
    BY <1>0, DataBytes, FileRead
  <2>3. Whole(bt') /\ ~ bt'.dead
    BY <2>1, <2>2 DEF Overwritten
  <2> QED
    BY <2>1, <2>3, Called
<1>3. ASSUME NEW n \in Lengths, Read(n)
      PROVE  WireInv'
  <2>1. ~ bt.dead /\ bt' = read(bt, n).s /\ out'.call = "read" /\ n \in Nat
    BY <1>3, BufferAssumption DEF Read, Returned
  <2>2. CASE n > getReadSize(bt)
    <3>1. bt' = bt
      BY <2>1, <2>2 DEF read
    <3> QED
      BY <1>0, <2>1, <3>1, Called
  <2>3. CASE ~ (n > getReadSize(bt)) /\ bt.position < bt.capacity
    <3>1. n <= getReadSize(bt)
      BY <1>0, <2>1, <2>3, WholeFacts DEF getReadSize
    <3>2. Whole(bt') /\ bt'.dead = bt.dead
      BY <1>0, <2>1, <2>3, <3>1, HasRead
    <3> QED
      BY <2>1, <3>2, Called
  <2>4. CASE ~ (n > getReadSize(bt)) /\ ~ (bt.position < bt.capacity)
    <3>1. n <= getReadSize(bt)
      BY <1>0, <2>1, <2>4, WholeFacts DEF getReadSize
    <3>2. bt.position = bt.capacity /\ bt' = Died(bt)
      BY <1>0, <2>1, <2>4, <3>1, ReadAtEnd
    <3>3. Whole(bt') /\ bt'.position = bt'.capacity
      BY <1>0, <3>2, DiedWhole
    <3> QED
      BY <2>1, <3>3 DEF WireInv, DiesOnlyAtEnd, FileKept
  <2> QED
    BY <2>2, <2>3, <2>4
<1>4. ASSUME NEW n \in Lengths, GetReadBuffers(n)
      PROVE  WireInv'
  <2>1. /\ ~ bt.dead /\ out'.call = "getReadBuffers" /\ n \in Nat
        /\ bt' = Outcome(bt, getReadBuffers(bt, n))
    BY <1>4, BufferAssumption DEF GetReadBuffers, Returned
  <2>2. bt' = bt
    BY <1>0, <2>1, ReadBuffersAlive DEF Outcome
  <2> QED
    BY <1>0, <2>1, <2>2, Called
<1>5. ASSUME NEW n \in Lengths, GetWriteBuffers(n)
      PROVE  WireInv'
  <2> DEFINE s == addCapacity(bt, n)
  <2>1. /\ ~ bt.dead /\ out'.call = "getWriteBuffers" /\ n \in Nat
        /\ bt' = Outcome(s, getWriteBuffers(s, n))
    BY <1>5, BufferAssumption DEF GetWriteBuffers, Room, Returned
  <2>2. Whole(bt') /\ bt'.dead = bt.dead
    BY <1>0, <2>1, AddedCapacity, WriteBuffersAlive DEF Outcome
  <2> QED
    BY <2>1, <2>2, Called
<1>6. ASSUME NEW v \in 0 .. Limit, SetPosition(v)
      PROVE  WireInv'
  <2>1. ~ bt.dead /\ out'.call = "setPosition" /\ v \in Nat
    BY <1>6 DEF SetPosition, Returned
  <2>2. CASE v > bt.capacity
    BY <1>0, <1>6, <2>1, <2>2, Called DEF SetPosition
  <2>3. CASE ~ (v > bt.capacity)
    <3>1. v <= bt.capacity
      BY <1>0, <2>1, <2>3
    <3>2. bt' = setPosition(bt, v)
      BY <1>6, <2>3 DEF SetPosition
    <3>3. Whole(bt') /\ bt'.dead = bt.dead
      BY <1>0, <2>1, <3>1, <3>2, HasSetPosition
    <3> QED
      BY <2>1, <3>3, Called
  <2> QED
    BY <2>2, <2>3
<1>7. ASSUME NEW v \in 0 .. Limit, NEW n \in Lengths, GetReadBuffersAt(n, v)
      PROVE  WireInv'
  <2> DEFINE w == getReadBuffersAt(bt, n, v)
  <2>1. /\ ~ bt.dead /\ bt' = Outcome(bt, w) /\ n \in Nat /\ v \in Nat
        /\ out' = [call |-> "getReadBuffersAt", v |-> w, from |-> v, len |-> n]
    BY <1>7, BufferAssumption DEF GetReadBuffersAt
  <2>2. w = Crash => v + Upto(bt, n) > bt.capacity
    BY <1>0, <2>1, ReadBuffersAtAlive
  <2> HIDE DEF w
  <2>3. CASE w # Crash
    <3>1. bt' = bt
      BY <2>1, <2>3 DEF Outcome
    <3> QED
      BY <1>0, <2>1, <3>1, Called
  <2>4. CASE w = Crash
    <3>1. bt' = Died(bt)
      BY <2>1, <2>4 DEF Outcome
    <3>2. /\ Whole(bt') /\ bt'.position = bt.position /\ bt'.size = bt.size
          /\ bt'.capacity = bt.capacity
      BY <1>0, <3>1, DiedWhole
    <3>3. EndAsked' = v + Upto(bt, n)
      BY <2>1, <3>2 DEF EndAsked, Least, getReadSize, Upto
    <3> QED
      BY <2>1, <2>2, <2>4, <3>2, <3>3 DEF WireInv, DiesOnlyAtEnd, FileKept
  <2> QED
    BY <2>3, <2>4
<1>8. CASE Clear
  <2>1. ~ bt.dead /\ bt' = clear(bt) /\ out'.call = "clear"
    BY <1>8 DEF Clear, Returned
  <2>2. Whole(bt') /\ bt'.dead = bt.dead
    BY <1>0, <2>1, ClearedWhole
  <2> QED
    BY <2>1, <2>2, Called
<1>9. CASE AsString
  <2>1. ~ bt.dead /\ out'.call = "toString" /\ bt' = Outcome(bt, toString(bt))
    BY <1>9 DEF AsString, Returned
  <2>2. bt' = bt
    BY <1>0, <2>1, StringAlive DEF Outcome
  <2> QED
    BY <1>0, <2>1, <2>2, Called
<1>10. CASE WriteToFile
  <2> DEFINE v == writeToFile(bt)
  <2>1. /\ ~ bt.dead /\ bt' = (IF v = Crash THEN Died(bt) ELSE bt)
        /\ out'.call = "writeToFile" /\ out'.v = v
    BY <1>10 DEF WriteToFile, Returned, Outcome
  <2>2. /\ Whole(bt') /\ bt'.position = bt.position /\ getReadSize(bt') = getReadSize(bt)
        /\ RestOf(bt') = RestOf(bt)
    BY <1>0, <2>1, DiedWhole DEF getReadSize, RestOf, Bytes
  <2>3. bt.position % Base = 0 \/ getReadSize(bt) > Base => v = RestOf(bt) /\ v # Crash
    BY <1>0, FileWritten
  <2> HIDE DEF v
  <2>4. FileKept'
    BY <2>1, <2>2, <2>3 DEF FileKept
  <2>5. DiesOnlyAtEnd'
    <3>1. bt'.dead => ~ (bt.position % Base = 0 \/ getReadSize(bt) > Base)
      BY <2>1, <2>3
    <3>2. getReadSize(bt) \in Int /\ Base \in Nat
      BY <1>0, WholeFacts, BufferAssumption DEF getReadSize
    <3>3. bt'.dead => bt'.position % Base # 0 /\ getReadSize(bt') <= Base
      BY <2>2, <3>1, <3>2
    <3> QED
      BY <2>1, <3>3 DEF DiesOnlyAtEnd
  <2> QED
    BY <2>2, <2>4, <2>5 DEF WireInv
<1>11. ASSUME NEW m \in Message, Send(m)
       PROVE  WireInv'
  BY <1>0, <1>11, NewWhole, Called DEF Send
<1>12. CASE UNCHANGED vars
  BY <1>12 DEF WireInv, DiesOnlyAtEnd, EndAsked, FileKept, vars
<1> QED
  BY <1>1, <1>2, <1>3, <1>4, <1>5, <1>6, <1>7, <1>8, <1>9, <1>10, <1>11, <1>12
  DEF WireNext, Next

\* So it holds always.
LEMMA WireInvariant == WireSpec => []WireInv
<1>1. Init => WireInv
  BY WireInit
<1>2. WireInv /\ [WireNext]_vars => WireInv'
  BY WireStep
<1> QED
  BY <1>1, <1>2, PTL DEF WireSpec

\* The chunk pointer is that of the position after any sequence of calls, whatever the size of
\* chunks and strings, though write, read, setPosition, addCapacity and clear each keep it up to
\* date in another way.
THEOREM CoherentCorrect == WireSpec => []Coherent
<1>1. WireInv => Coherent
  BY DEF WireInv, Whole, Coherent
<1> QED
  BY <1>1, WireInvariant, PTL

\* A null pointer is followed only in reading nothing at the end of the capacity, in writing a short
\* rest to a file from inside a chunk, or in getting buffers that reach beyond the capacity from a
\* position behind the buffer's own; no other call ever does.
THEOREM DiesOnlyAtEndCorrect == WireSpec => []DiesOnlyAtEnd
<1>1. WireInv => DiesOnlyAtEnd
  BY DEF WireInv
<1> QED
  BY <1>1, WireInvariant, PTL

\* writeToFile writes the rest, if that begins with a chunk or goes on for more than one.
THEOREM FileKeptCorrect == WireSpec => []FileKept
<1>1. WireInv => FileKept
  BY DEF WireInv
<1> QED
  BY <1>1, WireInvariant, PTL

-----------------------------------------------------------------------------
(* The refinement.                                                           *)

\* What the flat buffer is seen to return.
FlatOut == IF Unseen THEN [call |-> "unpromised"] ELSE out

\* A new buffer is an empty flat one.
LEMMA FlatInit == Init => Flat!Init
<1> SUFFICES ASSUME Init PROVE Flat!Init
  OBVIOUS
<1>1. bt = New /\ out = [call |-> "none"]
  BY DEF Init
<1>2. Whole(bt) /\ ~ bt.dead /\ bt.position = 0 /\ bt.size = 0
  <2>1. Whole(bt) /\ ~ bt.dead
    BY <1>1, NewWhole
  <2>2. New.position = 0 /\ New.size = 0
    BY DEF New
  <2> QED
    BY <1>1, <2>1, <2>2
<1>3. Content(bt) = <<>>
  <2>1. Content(bt) \in Seq(Byte) /\ Len(Content(bt)) = 0
    BY <1>2, ContentFacts
  <2> QED
    BY <2>1
<1>4. ~ Unseen
  BY <1>1, <1>2 DEF Unseen
<1> QED
  BY <1>1, <1>2, <1>3, <1>4 DEF Flat!Init, Content

\* A call that returns what the flat buffer may return.
LEMMA Seen ==
    ASSUME ~ bt'.dead, out'.call \notin {"writeToFile", "send", "getReadBuffersAt"}
    PROVE  FlatOut' = out'
BY DEF FlatOut, Unseen

\* Writing a string, or what is read from a file.
LEMMA WriteFlat ==
    ASSUME Whole(bt), NEW b \in Data, NEW call, call \in {"write", "readFromFile"},
           ~ bt.dead, Overwritten(bt, bt', b), out' = [call |-> call, v |-> Len(b)]
    PROVE  Flat!Write(call, b)
<1>1. b \in Seq(Byte)
  BY DataBytes
<1>2. ~ bt'.dead /\ bt'.position = bt.position + Len(b)
  BY DEF Overwritten
<1>3. Content(bt')
        = [k \in 1 .. (IF bt.position + Len(b) > Len(Content(bt)) THEN bt.position + Len(b)
                       ELSE Len(Content(bt))) |->
             IF k \in bt.position + 1 .. bt.position + Len(b) THEN b[k - bt.position]
             ELSE Content(bt)[k]]
  BY <1>1, OverwrittenContent
<1>4. FlatOut' = [call |-> call, v |-> Len(b)]
  BY <1>2, Seen
<1> QED
  BY <1>2, <1>3, <1>4 DEF Flat!Write, Flat!Returns, Content, FlatOut

\* Reading, asking for too much, or dying at the end of the capacity.
LEMMA ReadFlat ==
    ASSUME Whole(bt), NEW n \in Lengths, Read(n)
    PROVE  Flat!Read(n) \/ Flat!Unpromised
<1>1. /\ ~ bt.dead /\ bt' = read(bt, n).s /\ out' = [call |-> "read", v |-> read(bt, n).v]
      /\ n \in Nat
  BY BufferAssumption DEF Read, Returned
<1>2. /\ bt.position \in Nat /\ bt.size \in Nat /\ Len(Content(bt)) = bt.size
      /\ getReadSize(bt) = bt.size - bt.position
  BY WholeFacts, ContentFacts DEF getReadSize
<1>3. Flat!Rest = bt.size - bt.position
  BY <1>2 DEF Flat!Rest, Content
<1>4. CASE n > getReadSize(bt)
  <2>1. read(bt, n) = [s |-> bt, v |-> Throw]
    BY <1>4 DEF read
  <2>2. bt' = bt /\ FlatOut' = [call |-> "read", v |-> Throw]
    BY <1>1, <2>1, Seen
  <2>3. Content(bt') = Content(bt) /\ bt'.position = bt.position
    BY <2>2
  <2> QED
    BY <1>2, <1>3, <1>4, <2>2, <2>3 DEF Flat!Read, Flat!Returns, Content, FlatOut
<1>5. CASE ~ (n > getReadSize(bt)) /\ bt.position < bt.capacity
  <2>1. n <= getReadSize(bt)
    BY <1>1, <1>2, <1>5
  <2>2. /\ bt'.position = bt.position + n /\ bt'.size = bt.size /\ bt'.chunks = bt.chunks
        /\ bt'.dead = bt.dead
    BY <1>1, <1>5, <2>1, HasRead
  <2>3. read(bt, n).v = SubSeq(Content(bt), bt.position + 1, bt.position + n)
    BY <1>1, <1>5, <2>1, ReadValue
  <2>4. FlatOut' = [call |-> "read", v |-> SubSeq(Content(bt), bt.position + 1, bt.position + n)]
    BY <1>1, <2>2, <2>3, Seen
  <2>5. Content(bt') = Content(bt)
    BY <2>2 DEF Content, Bytes
  <2> QED
    BY <1>2, <1>3, <1>5, <2>2, <2>4, <2>5 DEF Flat!Read, Flat!Returns, Content, FlatOut
<1>6. CASE ~ (n > getReadSize(bt)) /\ ~ (bt.position < bt.capacity)
  <2>1. n <= getReadSize(bt)
    BY <1>1, <1>2, <1>6
  <2>2. bt' = Died(bt)
    BY <1>1, <1>6, <2>1, ReadAtEnd
  <2>3. bt'.chunks = bt.chunks /\ bt'.size = bt.size /\ bt'.position = bt.position
    BY <2>2, DiedWhole
  <2>4. bt'.dead
    <3>1. bt \in Buffer
      BY DEF Whole
    <3> QED
      BY <2>2, <3>1 DEF Died, Buffer
  <2>5. FlatOut' = [call |-> "unpromised"]
    BY <2>4 DEF FlatOut, Unseen
  <2>6. Content(bt') = Content(bt)
    BY <2>3 DEF Content, Bytes
  <2> QED
    BY <2>3, <2>5, <2>6 DEF Flat!Unpromised, Content, FlatOut
<1> QED
  BY <1>4, <1>5, <1>6

\* Setting the position, also behind what was written.
LEMMA SetPositionFlat ==
    ASSUME Whole(bt), NEW v \in 0 .. Limit, SetPosition(v)
    PROVE  Flat!SetPosition(v)
<1>1. ~ bt.dead /\ v \in Nat
  BY DEF SetPosition
<1>2. /\ bt.size \in Nat /\ bt.capacity \in Nat /\ bt.size <= bt.capacity
      /\ Len(Content(bt)) = bt.size
  BY WholeFacts, ContentFacts
<1>3. CASE v > bt.capacity
  <2>1. bt' = bt /\ out' = [call |-> "setPosition", v |-> Throw]
    BY <1>3 DEF SetPosition, Returned
  <2>2. FlatOut' = [call |-> "setPosition", v |-> Throw]
    BY <1>1, <2>1, Seen
  <2>3. Content(bt') = Content(bt) /\ bt'.position = bt.position
    BY <2>1
  <2>4. v > Len(Content(bt))
    BY <1>1, <1>2, <1>3
  <2> QED
    BY <2>2, <2>3, <2>4 DEF Flat!SetPosition, Flat!Returns, Content, FlatOut
<1>4. CASE ~ (v > bt.capacity)
  <2>1. bt' = setPosition(bt, v) /\ out' = [call |-> "setPosition", v |-> v]
    BY <1>4 DEF SetPosition, Returned
  <2>2. v <= bt.capacity
    BY <1>1, <1>2, <1>4
  <2>3. /\ Whole(bt') /\ bt'.position = v /\ bt'.size = (IF v > bt.size THEN v ELSE bt.size)
        /\ bt'.chunks = bt.chunks /\ bt'.dead = bt.dead
    BY <1>1, <2>1, <2>2, HasSetPosition
  <2>4. FlatOut' = [call |-> "setPosition", v |-> v]
    BY <1>1, <2>1, <2>3, Seen
  <2> DEFINE c == Content(bt)
             d == Content(bt')
  <2>5. Len(d) = (IF v > Len(c) THEN v ELSE Len(c))
    <3>1. Len(d) = bt'.size
      BY <2>3, ContentFacts
    <3> QED
      BY <1>2, <2>3, <3>1
  <2>6. SubSeq(d, 1, Len(c)) = c
    <3> DEFINE from == 0
               to == Len(c)
               t == bt'
    <3>1. c \in Seq(Byte) /\ to = bt.size /\ \A y \in 1 .. to : c[y] = ByteAt(bt, y - 1)
      BY ContentFacts
    <3>2. from \in Nat /\ to \in Nat /\ from <= to /\ to <= t.size /\ Len(c) = to - from
      BY <1>1, <1>2, <2>3, <3>1
    <3>3. Whole(t) /\ \A y \in 1 .. to - from : c[y] = ByteAt(t, from + y - 1)
      BY <1>2, <2>3, <3>1 DEF ByteAt
    <3> HIDE DEF c, from, to, t
    <3>4. c = SubSeq(Content(t), from + 1, to)
      BY <3>1, <3>2, <3>3, PartOfContent
    <3> QED
      BY <3>4 DEF from, to, t
  <2> QED
    BY <2>3, <2>4, <2>5, <2>6 DEF Flat!SetPosition, Flat!Returns, Content, FlatOut
<1> QED
  BY <1>3, <1>4

\* Clearing.
LEMMA ClearFlat ==
    ASSUME Whole(bt), Clear
    PROVE  Flat!Clear
<1>1. ~ bt.dead /\ bt' = clear(bt) /\ out' = [call |-> "clear", v |-> 0]
  BY DEF Clear, Returned
<1>2. Whole(bt') /\ bt'.dead = bt.dead /\ bt'.position = 0 /\ bt'.size = 0
  BY <1>1, ClearedWhole
<1>3. Content(bt') = <<>>
  <2>1. Content(bt') \in Seq(Byte) /\ Len(Content(bt')) = 0
    BY <1>2, ContentFacts
  <2> QED
    BY <2>1
<1>4. FlatOut' = [call |-> "clear", v |-> 0]
  BY <1>1, <1>2, Seen
<1> QED
  BY <1>2, <1>3, <1>4 DEF Flat!Clear, Flat!Returns, Content, FlatOut

\* Calls that leave contents and position alone; addCapacity is not seen.
LEMMA LookFlat ==
    ASSUME Whole(bt),
           \/ AsString
           \/ \E n \in Lengths : GetReadBuffers(n) \/ GetWriteBuffers(n)
    PROVE  Flat!Look
<1>1. /\ bt.position \in Nat /\ bt.size \in Nat /\ bt.position <= bt.size
      /\ Len(Content(bt)) = bt.size
  BY WholeFacts, ContentFacts
<1>2. \A n : Flat!Upto(n) = Upto(bt, n)
  BY <1>1 DEF Flat!Upto, Flat!Rest, Upto, Content
<1>3. CASE AsString
  <2>1. bt' = bt /\ ~ bt.dead /\ out' = [call |-> "toString", v |-> toString(bt)]
    BY <1>3, StringAlive DEF AsString, Returned, Outcome
  <2>2. FlatOut' = [call |-> "toString",
                    v |-> SubSeq(Content(bt), bt.position + 1, Len(Content(bt)))]
    BY <2>1, StringValue, Seen
  <2>3. Content(bt') = Content(bt) /\ bt'.position = bt.position
    BY <2>1
  <2> QED
    BY <2>2, <2>3 DEF Flat!Look, Flat!Returns, Content, FlatOut
<1>4. ASSUME NEW n \in Lengths, GetReadBuffers(n)
      PROVE  Flat!Look
  <2>1. /\ bt' = bt /\ ~ bt.dead /\ n \in Nat
        /\ out' = [call |-> "getReadBuffers", v |-> getReadBuffers(bt, n)]
    BY <1>4, BufferAssumption, ReadBuffersAlive DEF GetReadBuffers, Returned, Outcome
  <2>2. FlatOut' = [call |-> "getReadBuffers", v |-> Flat!Behind(bt.position, Flat!Upto(n))]
    BY <1>2, <2>1, ReadBuffers, Seen DEF Flat!Behind, Behind
  <2>3. Content(bt') = Content(bt) /\ bt'.position = bt.position
    BY <2>1
  <2> QED
    BY <2>2, <2>3 DEF Flat!Look, Flat!Returns, Content, FlatOut
<1>5. ASSUME NEW n \in Lengths, GetWriteBuffers(n)
      PROVE  Flat!Look
  <2>1. /\ bt' = addCapacity(bt, n) /\ ~ bt.dead /\ n \in Nat
        /\ out' = [call |-> "getWriteBuffers", v |-> getWriteBuffers(bt', n)]
    BY <1>5, BufferAssumption, WriteBuffersAlive DEF GetWriteBuffers, Room, Returned, Outcome
  <2>2. /\ Whole(bt') /\ bt'.position = bt.position /\ bt'.size = bt.size /\ bt'.dead = bt.dead
        /\ bt.position + n <= bt'.capacity
        /\ \A x \in 0 .. bt.capacity - 1 : ByteAt(bt', x) = ByteAt(bt, x)
    BY <2>1, AddedCapacity
  <2>3. FlatOut' = [call |-> "getWriteBuffers", v |-> Flat!Behind(bt.position, n)]
    <3>1. getWriteBuffers(bt', n) = Behind(bt.position, n)
      BY <2>1, <2>2, WriteBuffers
    <3> QED
      BY <2>1, <2>2, <3>1, Seen DEF Flat!Behind, Behind
  <2>4. Content(bt') = Content(bt)
    <3>1. \A x \in 0 .. bt.size - 1 : ByteAt(bt', x) = ByteAt(bt, x)
      BY <2>2, WholeFacts
    <3> QED
      BY <2>2, <3>1, SameContent
  <2> QED
    BY <2>2, <2>3, <2>4 DEF Flat!Look, Flat!Returns, Content, FlatOut
<1> QED
  BY <1>3, <1>4, <1>5

\* Buffers from a position: within what was written they are those of the flat buffer.
LEMMA LookFromFlat ==
    ASSUME Whole(bt), NEW n \in Lengths, NEW v \in 0 .. Limit, GetReadBuffersAt(n, v)
    PROVE  Flat!Look \/ Flat!Unpromised
<1> DEFINE w == getReadBuffersAt(bt, n, v)
<1>1. /\ bt.position \in Nat /\ bt.size \in Nat /\ bt.position <= bt.size
      /\ bt.capacity \in Nat /\ bt.size <= bt.capacity /\ Len(Content(bt)) = bt.size
  BY WholeFacts, ContentFacts
<1>2. Flat!Upto(n) = Upto(bt, n)
  BY <1>1 DEF Flat!Upto, Flat!Rest, Upto, Content
<1>3. /\ bt' = Outcome(bt, w) /\ ~ bt.dead /\ n \in Nat /\ v \in Nat
      /\ out' = [call |-> "getReadBuffersAt", v |-> w, from |-> v, len |-> n]
  BY BufferAssumption DEF GetReadBuffersAt
<1>4. Upto(bt, n) \in Nat
  BY <1>1, <1>3 DEF Upto
<1>5. /\ bt'.chunks = bt.chunks /\ bt'.size = bt.size /\ bt'.position = bt.position
  BY <1>3, DiedWhole DEF Outcome
<1>6. Content(bt') = Content(bt)
  BY <1>5 DEF Content, Bytes
<1>7. EndAsked' = v + Upto(bt, n)
  BY <1>3, <1>5 DEF EndAsked, Least, getReadSize, Upto
<1>8. CASE v + Upto(bt, n) > bt.size
  <2>1. FlatOut' = [call |-> "unpromised"]
    BY <1>3, <1>5, <1>7, <1>8 DEF FlatOut, Unseen
  <2> QED
    BY <1>5, <1>6, <2>1 DEF Flat!Unpromised, Content, FlatOut
<1>9. CASE v + Upto(bt, n) <= bt.size
  <2>1. w = Behind(v, Upto(bt, n)) /\ w # Crash
    BY <1>1, <1>3, <1>4, <1>9, ReadBuffersAt, BehindAlive
  <2>2. ~ bt'.dead /\ ~ (EndAsked' > bt'.size)
    BY <1>1, <1>3, <1>4, <1>5, <1>7, <1>9, <2>1 DEF Outcome
  <2>3. FlatOut' = out'
    BY <1>3, <2>2 DEF FlatOut, Unseen
  <2>4. w = Flat!Behind(v, Flat!Upto(n))
    BY <1>2, <2>1 DEF Flat!Behind, Behind
  <2>5. v + Flat!Upto(n) <= Len(Content(bt))
    BY <1>1, <1>2, <1>9
  <2> HIDE DEF w
  <2>6. /\ FlatOut' = [call |-> "getReadBuffersAt", v |-> Flat!Behind(v, Flat!Upto(n)),
                       from |-> v, len |-> n]
    BY <1>3, <2>3, <2>4
  <2> QED
    BY <1>5, <1>6, <2>5, <2>6 DEF Flat!Look, Content, FlatOut
<1> QED
  BY <1>1, <1>3, <1>4, <1>8, <1>9

\* Writing to a file and sending.
LEMMA UnpromisedFlat ==
    ASSUME Whole(bt), WriteToFile \/ \E m \in Message : Send(m)
    PROVE  Flat!Unpromised
<1>1. bt' = Died(bt) \/ bt' = bt
  BY DEF WriteToFile, Outcome, Send
<1>2. bt'.chunks = bt.chunks /\ bt'.size = bt.size /\ bt'.position = bt.position
  BY <1>1, DiedWhole
<1>3. out'.call \in {"writeToFile", "send"}
  BY DEF WriteToFile, Send, Returned
<1>4. FlatOut' = [call |-> "unpromised"]
  BY <1>3 DEF FlatOut, Unseen
<1>5. Content(bt') = Content(bt)
  BY <1>2 DEF Content, Bytes
<1> QED
  BY <1>2, <1>4, <1>5 DEF Flat!Unpromised, Content, FlatOut

\* Every call is one of a flat buffer.
LEMMA FlatStep == WireInv /\ [WireNext]_vars => [Flat!Next]_(Flat!vars)
<1> SUFFICES ASSUME WireInv, [WireNext]_vars PROVE [Flat!Next]_(Flat!vars)
  OBVIOUS
<1>0. Whole(bt)
  BY DEF WireInv
<1>1. ASSUME NEW b \in Data, Write(b)
      PROVE  Flat!Write("write", b)
  <2>1. ~ bt.dead /\ bt' = write(bt, b) /\ out' = [call |-> "write", v |-> Len(b)]
    BY <1>1 DEF Write, Room, Returned
  <2>2. Overwritten(bt, bt', b)
    BY <1>0, <2>1, DataBytes, Written
  <2> QED
    BY <1>0, <2>1, <2>2, WriteFlat
<1>2. ASSUME NEW b \in Data, ReadFromFile(b)
      PROVE  Flat!Write("readFromFile", b)
  <2>1. ~ bt.dead /\ bt' = readFromFile(bt, b) /\ out' = [call |-> "readFromFile", v |-> Len(b)]
    BY <1>2 DEF ReadFromFile, Room, Returned
  <2>2. Overwritten(bt, bt', b)
    BY <1>0, <2>1, DataBytes, FileRead
  <2> QED
    BY <1>0, <2>1, <2>2, WriteFlat
<1>3. ASSUME NEW n \in Lengths, Read(n)
      PROVE  Flat!Read(n) \/ Flat!Unpromised
  BY <1>0, <1>3, ReadFlat
<1>4. ASSUME NEW v \in 0 .. Limit, SetPosition(v)
      PROVE  Flat!SetPosition(v)
  BY <1>0, <1>4, SetPositionFlat
<1>5. CASE Clear
  BY <1>0, <1>5, ClearFlat DEF Flat!Next
<1>6. ASSUME \/ AsString
             \/ \E n \in Lengths : GetReadBuffers(n) \/ GetWriteBuffers(n)
      PROVE  Flat!Next
  BY <1>0, <1>6, LookFlat DEF Flat!Next
<1>7. CASE WriteToFile \/ \E m \in Message : Send(m)
  BY <1>0, <1>7, UnpromisedFlat DEF Flat!Next
<1>8. ASSUME NEW n \in Lengths, NEW v \in 0 .. Limit, GetReadBuffersAt(n, v)
      PROVE  Flat!Next
  BY <1>0, <1>8, LookFromFlat DEF Flat!Next
<1>9. CASE UNCHANGED vars
  BY <1>9 DEF vars, Unseen, EndAsked, Flat!vars
<1> QED
  BY <1>1, <1>2, <1>3, <1>4, <1>5, <1>6, <1>7, <1>8, <1>9 DEF WireNext, Next, Flat!Next

\* Chunks are never seen: any sequence of writes, reads, changes of position and calls for buffers
\* returns what one string of bytes would, for every size of chunk and every string.
THEOREM ImplementsFlatCorrect == WireSpec => ImplementsFlat
<1>1. Init => Flat!Init
  BY FlatInit
<1>2. WireInv /\ [WireNext]_vars => [Flat!Next]_(Flat!vars)
  BY FlatStep
<1> QED
  BY <1>1, <1>2, WireInvariant, PTL DEF WireSpec, ImplementsFlat, Flat!Spec

=============================================================================
