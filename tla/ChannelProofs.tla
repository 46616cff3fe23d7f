------------------------------ MODULE ChannelProofs ------------------------------
(***************************************************************************)
(* For any protocols, lengths, pieces and socket buffers: a channel is     *)
(* well typed and hands over what it hands over in order; when the socket  *)
(* takes every protocol in one piece, and never fills up, it is a FIFO.    *)
(* For any sockets and runners: the loop abandons no socket and calls      *)
(* through no null delegate.                                               *)
(***************************************************************************)
EXTENDS SocketLoop, SequenceTheorems, TLAPS

-----------------------------------------------------------------------------
(* Types.                                                                    *)

ReadTyped ==
    \/ rd = RdIdle
    \/ /\ rd \in [step : {"header", "body"}, want : Nat, buf : Seq(Byte), header : Proto \cup {None}]
       /\ Len(rd.buf) <= rd.want
       /\ rd.step = "header" => rd.want = HeaderLen /\ rd.header = None

Message == [header : Proto \cup {None}, content : Seq(Byte)]

ChannelTyped ==
    /\ polled \subseteq {"writer", "reader"}
    /\ written \in Seq(Proto) /\ queue \in Seq(Proto) /\ batch \in Seq(Proto)
    /\ sent \in Nat
    /\ batch = <<>> => sent = 0
    /\ batch # <<>> => sent < Size(Head(batch))
    /\ sock \in Seq(Byte)
    /\ ReadTyped
    /\ delivered \in Seq(Message)
    /\ exited \in BOOLEAN

-----------------------------------------------------------------------------
(* Order.  Each protocol is written once, so that its place in written       *)
(* orders the protocols, and with its own index every byte of the stream.    *)

Before(m, n) == \E u, v \in 1 .. Len(written) : u < v /\ written[u] = m /\ written[v] = n

Earlier(x, y) == Before(x[1], y[1]) \/ (x[1] = y[1] /\ x[2] < y[2])

\* The bytes that have been received and not used yet.
InBuf == IF rd.step = "idle" THEN {} ELSE ToSet(rd.buf)
Unread == InBuf \cup ToSet(sock)

\* The socket has taken the byte x: what is still to be sent comes after it.
Taken(x) ==
    /\ x[1] \in ToSet(written)
    /\ \A k \in 1 .. Len(batch) :
         Before(x[1], batch[k]) \/ (k = 1 /\ x[1] = batch[1] /\ x[2] <= sent)
    /\ \A k \in 1 .. Len(queue) : Before(x[1], queue[k])

\* The header of m has been read, and what waits to be read comes after it.
Read(m) ==
    /\ Taken(<<m, HeaderLen>>)
    /\ \A x \in Unread : Earlier(<<m, HeaderLen>>, x)

WrittenOnce == \A u, v \in 1 .. Len(written) : written[u] = written[v] => u = v

SendOrder ==
    /\ \A k \in 1 .. Len(queue) : queue[k] \in ToSet(written)
    /\ \A k \in 1 .. Len(batch) : batch[k] \in ToSet(written)
    /\ \A j, k \in 1 .. Len(queue) : j < k => Before(queue[j], queue[k])
    /\ \A j, k \in 1 .. Len(batch) : j < k => Before(batch[j], batch[k])
    /\ \A j \in 1 .. Len(batch), k \in 1 .. Len(queue) : Before(batch[j], queue[k])

StreamOrder ==
    /\ \A x \in Unread : Taken(x)
    /\ \A j, k \in 1 .. Len(sock) : j < k => Earlier(sock[j], sock[k])
    /\ \A x \in InBuf, y \in ToSet(sock) : Earlier(x, y)

\* m is the protocol whose header has been read and whose content has not.
Announced(m) == rd.step = "body" /\ rd.header = m

ReadOrder ==
    /\ \A m \in Proto : Announced(m) => Read(m)
    /\ \A k \in 1 .. Len(delivered) : \A m \in Proto : delivered[k].header = m =>
         /\ Read(m)
         /\ \A n \in Proto : Announced(n) => Before(m, n)
    /\ \A j, k \in 1 .. Len(delivered) : \A m, n \in Proto :
         j < k /\ delivered[j].header = m /\ delivered[k].header = n => Before(m, n)

\* The reader stops with the first thing that it hands over and that is not a protocol.
StopsBroken ==
    /\ rd.step # "idle" => ~ Broken
    /\ \A k \in 1 .. Len(delivered) : k < Len(delivered) => Intact(delivered[k])

OrderInv == WrittenOnce /\ SendOrder /\ StreamOrder /\ ReadOrder /\ StopsBroken

-----------------------------------------------------------------------------
(* Whole pieces.                                                             *)

WholePieces ==
    /\ \A m \in Proto : Size(m) <= Chunk /\ contentLen[m] < LenMod
    /\ ~ MayExit

\* The protocols whose bytes have gone to the socket.
Gone == Len(written) - Len(queue) - Len(batch)

\* off[i] is the place in the socket after which the bytes of written[i] are, or would be
\* were its header not yet read.
Laid(off) ==
    /\ off[Len(delivered) + 1] = IF rd.step = "body" THEN 0 - HeaderLen ELSE 0
    /\ off[Gone + 1] = Len(sock)
    /\ \A i \in Len(delivered) + 1 .. Gone : off[i + 1] = off[i] + Size(written[i])
    /\ \A i \in Len(delivered) + 1 .. Gone : \A j \in 1 .. Size(written[i]) :
         off[i] + j >= 1 => off[i] + j <= Len(sock) /\ sock[off[i] + j] = <<written[i], j>>

WholeInv ==
    /\ sent = 0 /\ ~ exited
    /\ Gone \in Nat /\ Len(delivered) <= Gone
    /\ \A k \in 1 .. Len(batch) : batch[k] = written[Gone + k]
    /\ \A k \in 1 .. Len(queue) : queue[k] = written[Gone + Len(batch) + k]
    /\ \A k \in 1 .. Len(delivered) : delivered[k] = [header |-> written[k], content |-> Content(written[k])]
    /\ rd.step # "idle" => rd.buf = <<>> /\ Len(delivered) < Gone
    /\ rd.step = "body" =>
         rd.header = written[Len(delivered) + 1] /\ rd.want = contentLen[rd.header]

LaidOut == \E off \in [Nat \ {0} -> Int] : Laid(off)

-----------------------------------------------------------------------------
(* Bytes.                                                                    *)

LEMMA Sizes ==
    ASSUME NEW m \in Proto
    PROVE  contentLen[m] \in Nat /\ Size(m) \in Nat \ {0} /\ Size(m) = HeaderLen + contentLen[m]
           /\ HeaderLen \in Nat \ {0} /\ HeaderLen <= Size(m)
  BY ChannelAssumption DEF Size

LEMMA ByteIs ==
    ASSUME NEW m \in Proto, NEW j \in 1 .. Size(m)
    PROVE  <<m, j>> \in Byte
  BY DEF Byte

LEMMA ByteHas ==
    ASSUME NEW x \in Byte
    PROVE  x[1] \in Proto /\ x[2] \in 1 .. Size(x[1]) /\ x = <<x[1], x[2]>> /\ x[2] \in Nat
<1>1. PICK m \in Proto : x \in {m} \X (1 .. Size(m))
  BY DEF Byte
<1> QED
  BY <1>1, Sizes

LEMMA BytesAre ==
    ASSUME NEW m \in Proto, NEW first \in Nat \ {0}, NEW last \in Nat,
           first <= last + 1, last <= Size(m)
    PROVE  /\ Bytes(m, first, last) \in Seq(Byte)
           /\ Len(Bytes(m, first, last)) = last + 1 - first
           /\ \A k \in 1 .. last + 1 - first : Bytes(m, first, last)[k] = <<m, first + k - 1>>
<1>1. Size(m) \in Nat /\ last + 1 - first \in Nat
  BY Sizes
<1>2. \A k \in 1 .. last + 1 - first : <<m, first + k - 1>> \in Byte
  <2> SUFFICES ASSUME NEW k \in 1 .. last + 1 - first PROVE <<m, first + k - 1>> \in Byte
    OBVIOUS
  <2>1. first + k - 1 \in 1 .. Size(m)
    BY <1>1
  <2> QED
    BY <2>1, ByteIs
<1>3. Bytes(m, first, last) \in [1 .. last + 1 - first -> Byte]
  BY <1>2 DEF Bytes
<1> QED
  BY <1>1, <1>3 DEF Bytes

LEMMA HeaderIs ==
    ASSUME NEW m \in Proto
    PROVE  /\ Header(m) \in Seq(Byte) /\ Len(Header(m)) = HeaderLen
           /\ \A k \in 1 .. HeaderLen : Header(m)[k] = <<m, k>>
<1>1. HeaderLen \in Nat \ {0} /\ HeaderLen <= Size(m) /\ HeaderLen + 1 - 1 = HeaderLen
  BY Sizes
<1>2. 1 \in Nat \ {0} /\ HeaderLen \in Nat /\ 1 <= HeaderLen + 1
  BY <1>1
<1>3. /\ Bytes(m, 1, HeaderLen) \in Seq(Byte)
      /\ Len(Bytes(m, 1, HeaderLen)) = HeaderLen + 1 - 1
      /\ \A k \in 1 .. HeaderLen + 1 - 1 : Bytes(m, 1, HeaderLen)[k] = <<m, 1 + k - 1>>
  BY <1>1, <1>2, BytesAre
<1>4. \A k \in 1 .. HeaderLen : 1 + k - 1 = k
  BY <1>1
<1> QED
  BY <1>1, <1>3, <1>4 DEF Header

LEMMA ContentIs ==
    ASSUME NEW m \in Proto
    PROVE  /\ Content(m) \in Seq(Byte) /\ Len(Content(m)) = contentLen[m]
           /\ \A k \in 1 .. contentLen[m] : Content(m)[k] = <<m, HeaderLen + k>>
<1>1. /\ HeaderLen \in Nat \ {0} /\ contentLen[m] \in Nat /\ Size(m) \in Nat
      /\ Size(m) + 1 - (HeaderLen + 1) = contentLen[m] /\ HeaderLen + 1 <= Size(m) + 1
  BY Sizes
<1>2. HeaderLen + 1 \in Nat \ {0}
  BY <1>1
<1> DEFINE c == Bytes(m, HeaderLen + 1, Size(m))
<1>3. /\ c \in Seq(Byte) /\ Len(c) = Size(m) + 1 - (HeaderLen + 1)
      /\ \A k \in 1 .. Size(m) + 1 - (HeaderLen + 1) : c[k] = <<m, HeaderLen + 1 + k - 1>>
  <2>1. PICK first : first = HeaderLen + 1
    OBVIOUS
  <2>2. PICK last : last = Size(m)
    OBVIOUS
  <2>3. first \in Nat \ {0} /\ last \in Nat /\ first <= last + 1 /\ last <= Size(m)
    BY <1>1, <1>2, <2>1, <2>2
  <2>4. /\ Bytes(m, first, last) \in Seq(Byte)
        /\ Len(Bytes(m, first, last)) = last + 1 - first
        /\ \A k \in 1 .. last + 1 - first : Bytes(m, first, last)[k] = <<m, first + k - 1>>
    BY <2>3, BytesAre
  <2> QED
    BY <2>1, <2>2, <2>4
<1>4. \A k \in 1 .. contentLen[m] : HeaderLen + 1 + k - 1 = HeaderLen + k
  BY <1>1
<1>5. Content(m) = c
  BY DEF Content
<1> HIDE DEF c
<1> QED
  BY <1>1, <1>3, <1>4, <1>5

\* A header tells its protocol.
LEMMA HeaderOf ==
    ASSUME NEW m \in Proto, NEW n \in Proto, Header(m) = Header(n)
    PROVE  m = n
<1>1. 1 \in 1 .. HeaderLen
  BY ChannelAssumption
<1>2. Header(m)[1] = <<m, 1>> /\ Header(n)[1] = <<n, 1>>
  BY <1>1, HeaderIs
<1> QED
  BY <1>2

LEMMA ElementsAre ==
    ASSUME NEW S, NEW s \in Seq(S)
    PROVE  /\ \A y \in ToSet(s) : \E i \in 1 .. Len(s) : y = s[i]
           /\ \A i \in 1 .. Len(s) : s[i] \in ToSet(s)
           /\ ToSet(s) \subseteq S
  BY DEF ToSet

-----------------------------------------------------------------------------
(* What each call of send() and recv() does.                                 *)

LEMMA ReadIdle == RdIdle.step = "idle"
  BY DEF RdIdle

LEMMA ReadFacts ==
    ASSUME ChannelTyped
    PROVE  /\ rd = RdIdle <=> rd.step = "idle"
           /\ rd # RdIdle => /\ rd.step \in {"header", "body"} /\ rd.want \in Nat
                             /\ rd.buf \in Seq(Byte) /\ Len(rd.buf) <= rd.want
                             /\ rd.header \in Proto \cup {None}
                             /\ rd.step = "header" => rd.want = HeaderLen /\ rd.header = None
<1>1. CASE rd = RdIdle
  BY <1>1, ReadIdle
<1>2. CASE rd # RdIdle
  BY <1>2 DEF ChannelTyped, ReadTyped
<1> QED
  BY <1>1, <1>2

LEMMA ReadingIs ==
    ASSUME NEW step, NEW want, NEW header
    PROVE  LET r == Reading(step, want, header)
           IN  r.step = step /\ r.want = want /\ r.buf = <<>> /\ r.header = header
  BY DEF Reading

\* A batch from which a piece is sent.
LEMMA PieceIs ==
    ASSUME ChannelTyped, batch # <<>>
    PROVE  /\ Head(batch) \in Proto /\ Head(batch) = batch[1]
           /\ sent < Size(Head(batch)) /\ Piece \in Nat \ {0}
           /\ sent + Piece <= Size(Head(batch)) /\ Size(Head(batch)) \in Nat
           /\ Len(Bytes(Head(batch), sent + 1, sent + Piece)) = Piece
           /\ Bytes(Head(batch), sent + 1, sent + Piece) \in Seq(Byte)
           /\ \A k \in 1 .. Piece :
                Bytes(Head(batch), sent + 1, sent + Piece)[k] = <<Head(batch), sent + k>>
<1>1. Head(batch) \in Proto /\ Head(batch) = batch[1] /\ sent \in Nat /\ sent < Size(Head(batch))
  BY DEF ChannelTyped
<1>2. Size(Head(batch)) \in Nat
  BY <1>1, Sizes
<1>3. Piece \in Nat \ {0} /\ sent + Piece <= Size(Head(batch))
  BY <1>1, <1>2, ChannelAssumption DEF Piece
<1>4. /\ sent + 1 \in Nat \ {0} /\ sent + Piece \in Nat
      /\ sent + Piece + 1 - (sent + 1) = Piece /\ sent + 1 <= sent + Piece + 1
      /\ \A k \in 1 .. Piece : sent + 1 + k - 1 = sent + k
  BY <1>1, <1>3
<1>5. PICK m \in Proto : m = Head(batch)
  BY <1>1
<1>6. PICK first \in Nat \ {0} : first = sent + 1
  BY <1>4
<1>7. PICK last \in Nat : last = sent + Piece
  BY <1>4
<1>8. /\ Bytes(m, first, last) \in Seq(Byte)
      /\ Len(Bytes(m, first, last)) = last + 1 - first
      /\ \A k \in 1 .. last + 1 - first : Bytes(m, first, last)[k] = <<m, first + k - 1>>
  BY <1>3, <1>4, <1>5, <1>6, <1>7, BytesAre
<1>9. last + 1 - first = Piece
  BY <1>4, <1>6, <1>7
<1> QED
  BY <1>1, <1>2, <1>3, <1>4, <1>5, <1>6, <1>7, <1>8, <1>9


\* A send() puts the next bytes of the first protocol at the end of the stream.
LEMMA SendIs ==
    ASSUME ChannelTyped, Send
    PROVE  /\ batch # <<>> /\ sock' \in Seq(Byte) /\ Len(sock') = Len(sock) + Piece
           /\ \A k \in 1 .. Len(sock) : sock'[k] = sock[k]
           /\ \A k \in 1 .. Piece : sock'[Len(sock) + k] = <<Head(batch), sent + k>>
           /\ \A y \in ToSet(sock') : y \in ToSet(sock) \/ \E k \in 1 .. Piece : y = <<Head(batch), sent + k>>
<1>1. batch # <<>> /\ sock' = sock \o Bytes(Head(batch), sent + 1, sent + Piece)
  BY DEF Send
<1>2. PICK b \in Seq(Byte) : b = Bytes(Head(batch), sent + 1, sent + Piece)
  BY <1>1, PieceIs
<1>3. Len(b) = Piece /\ Piece \in Nat /\ \A k \in 1 .. Piece : b[k] = <<Head(batch), sent + k>>
  BY <1>1, <1>2, PieceIs
<1>4. sock \in Seq(Byte) /\ sock' = sock \o b
  BY <1>1, <1>2 DEF ChannelTyped
<1> HIDE DEF Piece
<1>5. /\ sock' \in Seq(Byte) /\ Len(sock') = Len(sock) + Piece
      /\ \A k \in 1 .. Len(sock) + Piece : sock'[k] = IF k <= Len(sock) THEN sock[k] ELSE b[k - Len(sock)]
  BY <1>3, <1>4, ConcatProperties
<1>6. Len(sock) \in Nat
  BY <1>4
<1>7. \A k \in 1 .. Len(sock) : sock'[k] = sock[k]
  BY <1>3, <1>5, <1>6
<1>8. \A k \in 1 .. Piece : sock'[Len(sock) + k] = <<Head(batch), sent + k>>
  <2> SUFFICES ASSUME NEW k \in 1 .. Piece PROVE sock'[Len(sock) + k] = <<Head(batch), sent + k>>
    OBVIOUS
  <2>1. Len(sock) + k \in 1 .. Len(sock) + Piece /\ ~ (Len(sock) + k <= Len(sock))
        /\ Len(sock) + k - Len(sock) = k
    BY <1>3, <1>6
  <2> QED
    BY <2>1, <1>3, <1>5
<1>9. \A y \in ToSet(sock') : y \in ToSet(sock) \/ \E k \in 1 .. Piece : y = <<Head(batch), sent + k>>
  <2> SUFFICES ASSUME NEW i \in 1 .. Len(sock')
               PROVE  sock'[i] \in ToSet(sock) \/ \E k \in 1 .. Piece : sock'[i] = <<Head(batch), sent + k>>
    <3>1. \A y \in ToSet(sock') : \E i \in 1 .. Len(sock') : y = sock'[i]
      BY <1>5 DEF ToSet
    <3> QED
      BY <3>1
  <2>1. CASE i <= Len(sock)
    <3>1. i \in 1 .. Len(sock)
      BY <2>1, <1>5, <1>6, <1>3
    <3> QED
      BY <3>1, <1>4, <1>7, ElementsAre
  <2>2. CASE ~ (i <= Len(sock))
    <3>1. PICK k \in 1 .. Piece : i = Len(sock) + k
      <4>1. i - Len(sock) \in 1 .. Piece /\ i = Len(sock) + (i - Len(sock))
        BY <2>2, <1>3, <1>5, <1>6
      <4> QED
        BY <4>1
    <3> QED
      BY <3>1, <1>8
  <2> QED
    BY <2>1, <2>2
<1> QED
  BY <1>1, <1>5, <1>7, <1>8, <1>9

\* A recv() takes r bytes from the front of it: the buffer is then buf.
Takes(r, buf) ==
    /\ r \in 0 .. Len(sock) /\ buf \in Seq(Byte)
    /\ Len(buf) = Len(rd.buf) + r /\ Len(buf) <= rd.want
    /\ \A k \in 1 .. Len(rd.buf) : buf[k] = rd.buf[k]
    /\ \A k \in 1 .. r : buf[Len(rd.buf) + k] = sock[k]
    /\ sock' \in Seq(Byte) /\ Len(sock') = Len(sock) - r
    /\ \A k \in 1 .. Len(sock) - r : sock'[k] = sock[r + k]

LEMMA RecvTakes ==
    ASSUME ChannelTyped, Recv
    PROVE  \E r, buf : /\ Takes(r, buf) /\ rd # RdIdle
                       /\ r = Len(sock) \/ Len(buf) = rd.want
                       /\ \/ Len(buf) = rd.want /\ UseBuffer(buf)
                          \/ Len(buf) # rd.want /\ rd' = Filled(buf) /\ delivered' = delivered
<1>1. rd # RdIdle
  BY DEF Recv
<1>2. rd.buf \in Seq(Byte) /\ rd.want \in Nat /\ Len(rd.buf) <= rd.want /\ sock \in Seq(Byte)
  BY <1>1, ReadFacts DEF ChannelTyped
<1>3. PICK left : left = rd.want - Len(rd.buf)
  OBVIOUS
<1>4. PICK r : r = IF left < Len(sock) THEN left ELSE Len(sock)
  OBVIOUS
<1>5. PICK buf : buf = rd.buf \o SubSeq(sock, 1, r)
  OBVIOUS
<1>6. /\ sock' = SubSeq(sock, r + 1, Len(sock))
      /\ IF r = left THEN UseBuffer(buf) ELSE rd' = Filled(buf) /\ UNCHANGED delivered
  BY <1>3, <1>4, <1>5 DEF Recv
<1>7. left \in Nat /\ Len(sock) \in Nat /\ Len(rd.buf) \in Nat /\ r \in 0 .. Len(sock) /\ r <= left
      /\ (r = Len(sock) \/ r = left)
  BY <1>2, <1>3, <1>4
<1>8. PICK front : front = SubSeq(sock, 1, r)
  OBVIOUS
<1>9. front \in Seq(Byte) /\ Len(front) = r /\ \A k \in 1 .. r : front[k] = sock[k]
  BY <1>2, <1>7, <1>8
<1>10. /\ buf \in Seq(Byte) /\ Len(buf) = Len(rd.buf) + r
       /\ \A k \in 1 .. Len(rd.buf) + r :
            buf[k] = IF k <= Len(rd.buf) THEN rd.buf[k] ELSE front[k - Len(rd.buf)]
  BY <1>2, <1>5, <1>8, <1>9, ConcatProperties
<1>11. Len(buf) <= rd.want /\ (r = left <=> Len(buf) = rd.want)
  BY <1>2, <1>3, <1>7, <1>10
<1>12. \A k \in 1 .. Len(rd.buf) : buf[k] = rd.buf[k]
  BY <1>7, <1>10
<1>13. \A k \in 1 .. r : buf[Len(rd.buf) + k] = sock[k]
  <2> SUFFICES ASSUME NEW k \in 1 .. r PROVE buf[Len(rd.buf) + k] = sock[k]
    OBVIOUS
  <2>1. Len(rd.buf) + k \in 1 .. Len(rd.buf) + r /\ ~ (Len(rd.buf) + k <= Len(rd.buf))
        /\ Len(rd.buf) + k - Len(rd.buf) = k
    BY <1>7
  <2> QED
    BY <2>1, <1>9, <1>10
<1>14. /\ sock' \in Seq(Byte) /\ Len(sock') = Len(sock) - r
       /\ \A k \in 1 .. Len(sock) - r : sock'[k] = sock[r + k]
  BY <1>2, <1>6, <1>7
<1>15. Takes(r, buf)
  BY <1>7, <1>10, <1>11, <1>12, <1>13, <1>14 DEF Takes
<1> QED
  BY <1>1, <1>6, <1>7, <1>11, <1>15

LEMMA NothingTakes ==
    ASSUME ChannelTyped, RecvNothing
    PROVE  Takes(0, rd.buf) /\ rd # RdIdle /\ UseBuffer(rd.buf)
<1>1. rd # RdIdle /\ sock = <<>> /\ sock' = sock /\ UseBuffer(rd.buf)
  BY DEF RecvNothing
<1>2. rd.buf \in Seq(Byte) /\ Len(rd.buf) <= rd.want /\ sock \in Seq(Byte) /\ Len(sock) = 0
  BY <1>1, ReadFacts DEF ChannelTyped
<1> QED
  BY <1>1, <1>2 DEF Takes

\* Both: the bytes go on to the buffer, which stays, is read as a header, or is handed over.
LEMMA ReceiveIs ==
    ASSUME ChannelTyped, Recv \/ RecvNothing
    PROVE  /\ rd # RdIdle /\ UNCHANGED <<polled, written, queue, batch, sent, exited>>
           /\ \E r, buf : /\ Takes(r, buf)
                          /\ \/ rd' = Filled(buf) /\ delivered' = delivered
                             \/ UseBuffer(buf)
<1>1. rd # RdIdle /\ UNCHANGED <<polled, written, queue, batch, sent, exited>>
  BY DEF Recv, RecvNothing, writeVars
<1>2. CASE Recv
  BY <1>1, <1>2, RecvTakes
<1>3. CASE RecvNothing
  BY <1>1, <1>3, NothingTakes
<1> QED
  BY <1>2, <1>3

LEMMA HeaderRead ==
    ASSUME ChannelTyped, NEW buf \in Seq(Byte), rd.step = "header", ReadHeader(buf)
    PROVE  /\ rd'.step = "body" /\ rd'.buf = <<>> /\ rd'.want \in Nat /\ rd' # RdIdle
           /\ rd' \in [step : {"header", "body"}, want : Nat, buf : Seq(Byte), header : Proto \cup {None}]
           /\ \/ rd'.header = None
              \/ \E m \in Proto : /\ buf = Header(m) /\ rd'.header = m
                                  /\ rd'.want = contentLen[m] % LenMod
<1>1. PICK want, h : /\ rd' = Reading("body", want, h)
                     /\ \/ want \in 0 .. LenMod - 1 /\ h = None
                        \/ h \in Proto /\ buf = Header(h) /\ want = contentLen[h] % LenMod
  BY DEF ReadHeader
<1>2. want \in Nat /\ h \in Proto \cup {None}
  BY <1>1, ChannelAssumption
<1>3. rd'.step = "body" /\ rd'.buf = <<>> /\ rd'.want = want /\ rd'.header = h
  BY <1>1, ReadingIs
<1>4. rd' \in [step : {"header", "body"}, want : Nat, buf : Seq(Byte), header : Proto \cup {None}]
  BY <1>1, <1>2 DEF Reading
<1> QED
  BY <1>1, <1>2, <1>3, <1>4, ReadIdle

LEMMA BodyRead ==
    ASSUME ChannelTyped, NEW buf \in Seq(Byte), rd.step = "body", ReadBody(buf)
    PROVE  /\ rd' = RdIdle /\ delivered' \in Seq(Message)
           /\ Len(delivered') = Len(delivered) + 1 /\ Len(delivered) \in Nat
           /\ \A k \in 1 .. Len(delivered) : delivered'[k] = delivered[k]
           /\ delivered'[Len(delivered) + 1] = [header |-> rd.header, content |-> buf]
           /\ delivered' = Append(delivered, [header |-> rd.header, content |-> buf])
<1>1. rd' = RdIdle /\ delivered' = Append(delivered, [header |-> rd.header, content |-> buf])
  BY DEF ReadBody
<1>2. rd.header \in Proto \cup {None} /\ delivered \in Seq(Message)
  BY ReadFacts, ReadIdle DEF ChannelTyped
<1>3. [header |-> rd.header, content |-> buf] \in Message
  BY <1>2 DEF Message
<1> QED
  BY <1>1, <1>2, <1>3, AppendProperties


-----------------------------------------------------------------------------
(* Type correctness.                                                         *)

LEMMA TypedInit == Init => ChannelTyped
<1> SUFFICES ASSUME Init PROVE ChannelTyped
  OBVIOUS
<1>1. <<>> \in Seq(Proto) /\ <<>> \in Seq(Byte) /\ <<>> \in Seq(Message)
  OBVIOUS
<1> QED
  BY <1>1 DEF Init, ChannelTyped, ReadTyped

LEMMA WrittenOf ==
    ASSUME ChannelTyped, NEW m \in Proto, Write(m)
    PROVE  /\ written' \in Seq(Proto) /\ Len(written') = Len(written) + 1 /\ Len(written) \in Nat
           /\ \A k \in 1 .. Len(written) : written'[k] = written[k]
           /\ written'[Len(written) + 1] = m
           /\ queue' \in Seq(Proto) /\ Len(queue') = Len(queue) + 1 /\ Len(queue) \in Nat
           /\ \A k \in 1 .. Len(queue) : queue'[k] = queue[k]
           /\ queue'[Len(queue) + 1] = m
<1>1. written \in Seq(Proto) /\ queue \in Seq(Proto)
  BY DEF ChannelTyped
<1> QED
  BY <1>1, AppendProperties DEF Write

LEMMA TailIs ==
    ASSUME ChannelTyped, batch # <<>>, batch' = Tail(batch)
    PROVE  /\ batch' \in Seq(Proto) /\ Len(batch') = Len(batch) - 1 /\ Len(batch) \in Nat \ {0}
           /\ \A k \in 1 .. Len(batch') : batch'[k] = batch[k + 1]
           /\ batch' # <<>> => Head(batch') \in Proto
           /\ Head(batch) = batch[1] /\ Head(batch) \in Proto
<1>1. batch \in Seq(Proto)
  BY DEF ChannelTyped
<1> QED
  BY <1>1

LEMMA TypedReceive ==
    ASSUME ChannelTyped, Recv \/ RecvNothing
    PROVE  ChannelTyped'
<1>1. /\ rd # RdIdle /\ UNCHANGED <<polled, written, queue, batch, sent, exited>>
      /\ \E r, buf : /\ Takes(r, buf)
                     /\ \/ rd' = Filled(buf) /\ delivered' = delivered
                        \/ UseBuffer(buf)
  BY ReceiveIs
<1>2. PICK r, buf : /\ Takes(r, buf)
                    /\ \/ rd' = Filled(buf) /\ delivered' = delivered
                       \/ UseBuffer(buf)
  BY <1>1
<1>3. buf \in Seq(Byte) /\ Len(buf) <= rd.want /\ sock' \in Seq(Byte)
  BY <1>2 DEF Takes
<1>4. /\ rd.step \in {"header", "body"} /\ rd.want \in Nat /\ rd.header \in Proto \cup {None}
      /\ rd.step = "header" => rd.want = HeaderLen /\ rd.header = None
      /\ delivered \in Seq(Message)
  BY <1>1, ReadFacts DEF ChannelTyped
<1>5. ReadTyped' /\ delivered' \in Seq(Message)
  <2>1. CASE rd' = Filled(buf) /\ delivered' = delivered
    <3>1. Filled(buf) \in [step : {"header", "body"}, want : Nat, buf : Seq(Byte), header : Proto \cup {None}]
      BY <1>3, <1>4 DEF Filled
    <3>2. rd'.step = rd.step /\ rd'.want = rd.want /\ rd'.buf = buf /\ rd'.header = rd.header
      BY <2>1 DEF Filled
    <3> QED
      BY <2>1, <3>1, <3>2, <1>3, <1>4 DEF ReadTyped
  <2>2. CASE rd.step = "header" /\ ReadHeader(buf) /\ UNCHANGED delivered
    <3>1. /\ rd'.step = "body" /\ rd'.buf = <<>> /\ rd'.want \in Nat
          /\ rd' \in [step : {"header", "body"}, want : Nat, buf : Seq(Byte), header : Proto \cup {None}]
      BY <1>3, <2>2, HeaderRead
    <3> QED
      BY <3>1, <2>2, <1>4 DEF ReadTyped
  <2>3. CASE rd.step = "body" /\ ReadBody(buf)
    BY <1>3, <2>3, BodyRead DEF ReadTyped, RdIdle
  <2> QED
    BY <1>2, <2>1, <2>2, <2>3 DEF UseBuffer
<1> QED
  BY <1>1, <1>3, <1>5 DEF ChannelTyped, Size

LEMMA TypedNext == ChannelTyped /\ [Next]_vars => ChannelTyped'
<1> SUFFICES ASSUME ChannelTyped, [Next]_vars PROVE ChannelTyped'
  OBVIOUS
<1>1. CASE UNCHANGED vars
  BY <1>1 DEF vars, writeVars, ChannelTyped, ReadTyped, Size
<1>2. CASE \E end \in {"writer", "reader"} : Start(end)
  BY <1>2 DEF Start, writeVars, ChannelTyped, ReadTyped, Size
<1>3. CASE \E m \in Proto : Write(m)
  <2>1. PICK m \in Proto : Write(m)
    BY <1>3
  <2>2. UNCHANGED <<polled, batch, sent, sock, rd, delivered, exited>>
    BY <2>1 DEF Write
  <2> QED
    BY <2>1, <2>2, WrittenOf DEF ChannelTyped, ReadTyped, Size
<1>4. CASE OnFdWriteable
  <2>1. /\ batch = <<>> /\ queue # <<>> /\ batch' = queue /\ queue' = <<>>
        /\ UNCHANGED <<polled, written, sent, sock, rd, delivered, exited>>
    BY <1>4 DEF OnFdWriteable
  <2>2. sent = 0 /\ Head(queue) \in Proto
    BY <2>1 DEF ChannelTyped
  <2>3. sent < Size(Head(queue))
    BY <2>2, Sizes
  <2>4. sent' < Size(Head(batch'))
    BY <2>1, <2>3
  <2> QED
    BY <2>1, <2>2, <2>4 DEF ChannelTyped, ReadTyped, Size
<1>5. CASE Send \/ GiveUp
  <2>1. batch # <<>> /\ UNCHANGED <<polled, written, queue, rd, delivered, exited>>
    BY <1>5 DEF Send, GiveUp
  <2>2. sock' \in Seq(Byte)
    <3>1. CASE Send
      BY <3>1, SendIs
    <3>2. CASE GiveUp
      BY <3>2 DEF GiveUp, ChannelTyped
    <3> QED
      BY <1>5, <3>1, <3>2
  <2>3. \/ NextProto
        \/ sent + Piece # Size(Head(batch)) /\ sent' = sent + Piece /\ batch' = batch
    BY <1>5 DEF Send, GiveUp
  <2>4. /\ batch' \in Seq(Proto) /\ sent' \in Nat
        /\ batch' = <<>> => sent' = 0
        /\ batch' # <<>> => sent' < Size(Head(batch'))
    <3>1. CASE NextProto
      <4>1. batch' = Tail(batch) /\ sent' = 0
        BY <3>1 DEF NextProto
      <4>2. batch' \in Seq(Proto) /\ (batch' # <<>> => Head(batch') \in Proto)
        BY <2>1, <4>1, TailIs
      <4>3. PICK b : b = batch'
        OBVIOUS
      <4>4. b # <<>> => 0 < Size(Head(b))
        BY <4>2, <4>3, Sizes
      <4> QED
        BY <4>1, <4>2, <4>3, <4>4
    <3>2. CASE sent + Piece # Size(Head(batch)) /\ sent' = sent + Piece /\ batch' = batch
      <4>1. sent \in Nat /\ Piece \in Nat /\ sent + Piece <= Size(Head(batch)) /\ Size(Head(batch)) \in Nat
        BY <2>1, PieceIs DEF ChannelTyped
      <4>2. sent' < Size(Head(batch)) /\ sent' \in Nat
        BY <4>1, <3>2
      <4> QED
        BY <2>1, <3>2, <4>2 DEF ChannelTyped
    <3> QED
      BY <2>3, <3>1, <3>2
  <2> QED
    BY <2>1, <2>2, <2>4 DEF ChannelTyped, ReadTyped, Size
<1>6. CASE Exit
  BY <1>6 DEF Exit, writeVars, ChannelTyped, ReadTyped, Size
<1>7. CASE OnFdReadable
  <2>1. /\ rd' = Reading("header", HeaderLen, None)
        /\ UNCHANGED <<polled, written, queue, batch, sent, sock, delivered, exited>>
    BY <1>7 DEF OnFdReadable, writeVars
  <2>2. HeaderLen \in Nat
    BY ChannelAssumption
  <2>3. Reading("header", HeaderLen, None)
          \in [step : {"header", "body"}, want : Nat, buf : Seq(Byte), header : Proto \cup {None}]
    BY <2>2 DEF Reading
  <2>4. rd'.step = "header" /\ rd'.want = HeaderLen /\ rd'.buf = <<>> /\ rd'.header = None
    BY <2>1, ReadingIs
  <2>5. ReadTyped'
    BY <2>1, <2>2, <2>3, <2>4 DEF ReadTyped
  <2> QED
    BY <2>1, <2>5 DEF ChannelTyped, Size
<1>8. CASE Recv \/ RecvNothing
  BY <1>8, TypedReceive
<1> QED
  BY <1>1, <1>2, <1>3, <1>4, <1>5, <1>6, <1>7, <1>8 DEF Next

LEMMA TypedAlways == Spec => []ChannelTyped
  BY TypedInit, TypedNext, PTL DEF Spec

LEMMA TypedMeans == ChannelTyped => TypeOK
<1> SUFFICES ASSUME ChannelTyped PROVE TypeOK
  OBVIOUS
<1>1. batch # <<>> => sent \in 0 .. Size(Head(batch)) - 1
  <2> SUFFICES ASSUME batch # <<>> PROVE sent \in 0 .. Size(Head(batch)) - 1
    OBVIOUS
  <2>1. Size(Head(batch)) \in Nat /\ sent < Size(Head(batch)) /\ sent \in Nat
    BY PieceIs DEF ChannelTyped
  <2> QED
    BY <2>1
<1>2. \A k \in 1 .. Len(delivered) :
        delivered[k].header \in Proto \cup {None} /\ delivered[k].content \in Seq(Byte)
  <2>1. \A k \in 1 .. Len(delivered) : delivered[k] \in Message
    BY DEF ChannelTyped
  <2>2. \A d \in Message : d.header \in Proto \cup {None} /\ d.content \in Seq(Byte)
    BY DEF Message
  <2> QED
    BY <2>1, <2>2
<1>3. \/ rd = RdIdle
      \/ /\ rd.step \in {"header", "body"}
         /\ rd.buf \in Seq(Byte) /\ Len(rd.buf) <= rd.want
         /\ rd.header \in Proto \cup {None}
  BY ReadFacts
<1> QED
  BY <1>1, <1>2, <1>3 DEF ChannelTyped, TypeOK

\* The queue, the batch, the socket and the buffer of Recvn keep their types and bounds,
\* whatever the socket takes and wherever the writing process exits.
THEOREM ChannelTypeCorrect == Spec => []TypeOK
  BY TypedAlways, TypedMeans, PTL


-----------------------------------------------------------------------------
(* Order.                                                                    *)

LEMMA BeforeTrans ==
    ASSUME ChannelTyped, WrittenOnce, NEW l, NEW m, NEW n, Before(l, m), Before(m, n)
    PROVE  Before(l, n)
<1>1. PICK t, u \in 1 .. Len(written) : t < u /\ written[t] = l /\ written[u] = m
  BY DEF Before
<1>2. PICK v, w \in 1 .. Len(written) : v < w /\ written[v] = m /\ written[w] = n
  BY DEF Before
<1>3. u = v
  BY <1>1, <1>2 DEF WrittenOnce
<1>4. t < w
  BY <1>1, <1>2, <1>3
<1> QED
  BY <1>1, <1>2, <1>4 DEF Before

LEMMA BeforeNotItself ==
    ASSUME ChannelTyped, WrittenOnce, NEW m, Before(m, m)
    PROVE  FALSE
  BY DEF Before, WrittenOnce

LEMMA BeforeHas ==
    ASSUME ChannelTyped, NEW m, NEW n, Before(m, n)
    PROVE  m \in ToSet(written) /\ n \in ToSet(written)
<1>1. PICK u, v \in 1 .. Len(written) : u < v /\ written[u] = m /\ written[v] = n
  BY DEF Before
<1>2. written \in Seq(Proto)
  BY DEF ChannelTyped
<1> QED
  BY <1>1, <1>2, ElementsAre

\* Where nothing is written, nothing changes its order.
LEMMA BeforeSame ==
    ASSUME written' = written
    PROVE  /\ \A m, n : Before(m, n)' <=> Before(m, n)
           /\ \A x, y : Earlier(x, y)' <=> Earlier(x, y)
  BY DEF Before, Earlier

LEMMA BeforeWrite ==
    ASSUME ChannelTyped, NEW p \in Proto, Write(p)
    PROVE  /\ \A m, n : Before(m, n) => Before(m, n)'
           /\ \A x, y : Earlier(x, y) => Earlier(x, y)'
           /\ \A m \in ToSet(written) : Before(m, p)' /\ m \in ToSet(written)'
           /\ p \in ToSet(written)' /\ p \notin ToSet(written)
<1>1. /\ Len(written') = Len(written) + 1 /\ Len(written) \in Nat /\ written' \in Seq(Proto)
      /\ \A k \in 1 .. Len(written) : written'[k] = written[k]
      /\ written'[Len(written) + 1] = p
  BY WrittenOf
<1>2. \A k \in 1 .. Len(written) : k \in 1 .. Len(written') /\ k < Len(written')
  BY <1>1
<1>3. Len(written') \in 1 .. Len(written')
  BY <1>1
<1>4. \A m, n : Before(m, n) => Before(m, n)'
  BY <1>1, <1>2 DEF Before
<1>5. \A x, y : Earlier(x, y) => Earlier(x, y)'
  BY <1>4 DEF Earlier
<1>6. \A m \in ToSet(written) : \E k \in 1 .. Len(written) : m = written[k]
  BY ElementsAre DEF ChannelTyped
<1>7. \A m \in ToSet(written) : Before(m, p)'
  BY <1>1, <1>2, <1>3, <1>6 DEF Before
<1>8. \A k \in 1 .. Len(written') : written'[k] \in ToSet(written)'
  BY <1>1 DEF ToSet
<1>9. \A m \in ToSet(written) : m \in ToSet(written)'
  BY <1>1, <1>2, <1>6, <1>8
<1>10. p \in ToSet(written)'
  BY <1>1, <1>3, <1>8
<1>11. p \notin ToSet(written)
  BY DEF Write
<1> QED
  BY <1>4, <1>5, <1>7, <1>9, <1>10, <1>11

\* What the socket has taken, it has taken before what it takes next.
LEMMA TakenWrite ==
    ASSUME ChannelTyped, NEW p \in Proto, Write(p), NEW x, Taken(x)
    PROVE  Taken(x)'
<1>1. /\ \A m, n : Before(m, n) => Before(m, n)'
      /\ \A m \in ToSet(written) : Before(m, p)' /\ m \in ToSet(written)'
  BY BeforeWrite
<1>2. /\ Len(queue') = Len(queue) + 1 /\ Len(queue) \in Nat
      /\ \A k \in 1 .. Len(queue) : queue'[k] = queue[k]
      /\ queue'[Len(queue) + 1] = p
  BY WrittenOf
<1>3. batch' = batch /\ sent' = sent
  BY DEF Write
<1>4. \A k \in 1 .. Len(queue') : k \in 1 .. Len(queue) \/ k = Len(queue) + 1
  BY <1>2
<1>5. \A k \in 1 .. Len(queue') : \E n : n = queue'[k] /\ Before(x[1], n)'
  BY <1>1, <1>2, <1>4 DEF Taken
<1>6. \A k \in 1 .. Len(queue') : Before(x[1], queue[k])'
  BY <1>5 DEF Before
<1>7. \A k \in 1 .. Len(batch') :
        (Before(x[1], batch[k]) \/ (k = 1 /\ x[1] = batch[1] /\ x[2] <= sent))'
  <2>1. \A k \in 1 .. Len(batch') : \E n : n = batch'[k]
          /\ (Before(x[1], n)' \/ (k = 1 /\ x[1] = batch'[1] /\ x[2] <= sent'))
    BY <1>1, <1>3 DEF Taken
  <2> QED
    BY <2>1 DEF Before
<1> QED
  BY <1>1, <1>6, <1>7 DEF Taken

\* Both ways of sending take the first protocol off the batch, or leave the batch alone.
LEMMA SendsOff ==
    ASSUME ChannelTyped, Send \/ GiveUp
    PROVE  /\ batch # <<>> /\ UNCHANGED <<polled, written, queue, rd, delivered, exited>>
           /\ \/ batch' = batch /\ sent' = sent + Piece /\ Piece \in Nat /\ Send
              \/ /\ batch' = Tail(batch) /\ Len(batch') = Len(batch) - 1
                 /\ \A k \in 1 .. Len(batch') : batch'[k] = batch[k + 1]
           /\ Len(batch) \in Nat \ {0} /\ Head(batch) = batch[1] /\ batch[1] \in Proto
<1>1. batch # <<>> /\ UNCHANGED <<polled, written, queue, rd, delivered, exited>>
  BY DEF Send, GiveUp
<1>2. batch' = Tail(batch) \/ (Send /\ batch' = batch /\ sent' = sent + Piece)
  BY DEF Send, GiveUp, NextProto
<1>3. Len(batch) \in Nat \ {0} /\ Head(batch) = batch[1] /\ batch[1] \in Proto
  BY <1>1 DEF ChannelTyped
<1>4. CASE batch' = Tail(batch)
  BY <1>1, <1>3, <1>4, TailIs
<1>5. CASE Send /\ batch' = batch /\ sent' = sent + Piece
  BY <1>1, <1>3, <1>5, PieceIs
<1> QED
  BY <1>2, <1>4, <1>5

LEMMA TakenSend ==
    ASSUME ChannelTyped, Send \/ GiveUp, NEW x \in Byte, Taken(x)
    PROVE  /\ Taken(x)'
           /\ Send => \A k \in 1 .. Piece : Earlier(x, <<Head(batch), sent + k>>)
<1>1. /\ batch # <<>> /\ UNCHANGED <<polled, written, queue, rd, delivered, exited>>
      /\ \/ batch' = batch /\ sent' = sent + Piece /\ Piece \in Nat
         \/ /\ Len(batch') = Len(batch) - 1
            /\ \A k \in 1 .. Len(batch') : batch'[k] = batch[k + 1]
      /\ Len(batch) \in Nat \ {0} /\ Head(batch) = batch[1]
  BY SendsOff
<1>2. x[2] \in Nat /\ sent \in Nat
  BY ByteHas DEF ChannelTyped
<1> HIDE DEF Piece
<1>3. \A m, n : Before(m, n)' <=> Before(m, n)
  BY <1>1, BeforeSame
<1>4. \A k \in 1 .. Len(batch') : \E n : n = batch'[k]
          /\ (Before(x[1], n) \/ (k = 1 /\ x[1] = batch'[1] /\ x[2] <= sent'))
  <2>1. CASE batch' = batch /\ sent' = sent + Piece /\ Piece \in Nat
    <3>1. x[2] <= sent => x[2] <= sent'
      BY <2>1, <1>2
    <3> QED
      BY <2>1, <3>1 DEF Taken
  <2>2. CASE /\ Len(batch') = Len(batch) - 1
             /\ \A k \in 1 .. Len(batch') : batch'[k] = batch[k + 1]
    <3>1. \A k \in 1 .. Len(batch') : k + 1 \in 1 .. Len(batch) /\ k + 1 # 1
      BY <2>2, <1>1
    <3> QED
      BY <2>2, <3>1 DEF Taken
  <2> QED
    BY <1>1, <2>1, <2>2
<1>5. \A k \in 1 .. Len(batch') :
        (Before(x[1], batch[k]) \/ (k = 1 /\ x[1] = batch[1] /\ x[2] <= sent))'
  BY <1>1, <1>4 DEF Before
<1>6. Taken(x)'
  BY <1>1, <1>5 DEF Taken, Before
<1>7. ASSUME Send PROVE \A k \in 1 .. Piece : Earlier(x, <<Head(batch), sent + k>>)
  <2>1. Piece \in Nat
    BY <1>1, PieceIs
  <2>2. 1 \in 1 .. Len(batch)
    BY <1>1
  <2>3. Before(x[1], batch[1]) \/ (x[1] = batch[1] /\ x[2] <= sent)
    BY <2>2 DEF Taken
  <2>4. \A k \in 1 .. Piece : x[2] <= sent => x[2] < sent + k
    BY <2>1, <1>2
  <2> QED
    BY <2>3, <2>4, <1>1 DEF Earlier
<1> QED
  BY <1>6, <1>7

LEMMA TakenSwap ==
    ASSUME ChannelTyped, OnFdWriteable, NEW x, Taken(x)
    PROVE  Taken(x)'
<1>1. batch' = queue /\ queue' = <<>> /\ written' = written /\ sent' = sent
  BY DEF OnFdWriteable
<1>2. \A k \in 1 .. Len(batch') : Before(x[1], batch[k])'
  BY <1>1 DEF Taken, Before
<1> QED
  BY <1>1, <1>2 DEF Taken

LEMMA TakenSame ==
    ASSUME UNCHANGED <<written, queue, batch, sent>>, NEW x, Taken(x)
    PROVE  Taken(x)'
  BY DEF Taken, Before

LEMMA SendOrderNext ==
    ASSUME ChannelTyped, WrittenOnce, SendOrder, [Next]_vars
    PROVE  WrittenOnce' /\ SendOrder'
<1>1. CASE UNCHANGED <<written, queue, batch>>
  <2>1. WrittenOnce'
    BY <1>1 DEF WrittenOnce
  <2>2. written' = written /\ queue' = queue /\ batch' = batch
    BY <1>1
  <2>3. SendOrder'
    BY <2>2 DEF SendOrder, Before
  <2> QED
    BY <2>1, <2>3
<1>2. CASE \E p \in Proto : Write(p)
  <2>1. PICK p \in Proto : Write(p)
    BY <1>2
  <2>2. /\ \A m, n : Before(m, n) => Before(m, n)'
        /\ \A m \in ToSet(written) : Before(m, p)' /\ m \in ToSet(written)'
        /\ p \in ToSet(written)' /\ p \notin ToSet(written)
    BY <2>1, BeforeWrite
  <2>3. /\ Len(queue') = Len(queue) + 1 /\ Len(queue) \in Nat
        /\ \A k \in 1 .. Len(queue) : queue'[k] = queue[k]
        /\ queue'[Len(queue) + 1] = p
        /\ Len(written') = Len(written) + 1 /\ Len(written) \in Nat
        /\ \A k \in 1 .. Len(written) : written'[k] = written[k]
        /\ written'[Len(written) + 1] = p
    BY <2>1, WrittenOf
  <2>4. batch' = batch
    BY <2>1 DEF Write
  <2>5. WrittenOnce'
    <3>1. \A k \in 1 .. Len(written) : written[k] # p
      BY <2>2, ElementsAre DEF ChannelTyped
    <3>2. \A k \in 1 .. Len(written') : k \in 1 .. Len(written) \/ k = Len(written) + 1
      BY <2>3
    <3> QED
      BY <2>3, <3>1, <3>2 DEF WrittenOnce
  <2>6. \A k \in 1 .. Len(queue') : k \in 1 .. Len(queue) \/ k = Len(queue) + 1
    BY <2>3
  <2>7. \A k \in 1 .. Len(queue') : queue'[k] \in ToSet(written)'
    BY <2>2, <2>3, <2>6 DEF SendOrder
  <2>8. \A k \in 1 .. Len(batch') : batch'[k] \in ToSet(written)'
    BY <2>2, <2>4 DEF SendOrder
  <2>9. \A j, k \in 1 .. Len(queue') : j < k =>
          \E m, n : m = queue'[j] /\ n = queue'[k] /\ Before(m, n)'
    <3> SUFFICES ASSUME NEW j \in 1 .. Len(queue'), NEW k \in 1 .. Len(queue'), j < k
                 PROVE  \E m, n : m = queue'[j] /\ n = queue'[k] /\ Before(m, n)'
      OBVIOUS
    <3>1. j \in 1 .. Len(queue)
      BY <2>3
    <3>2. CASE k \in 1 .. Len(queue)
      BY <3>1, <3>2, <2>2, <2>3 DEF SendOrder
    <3>3. CASE k = Len(queue) + 1
      BY <3>1, <3>3, <2>2, <2>3 DEF SendOrder
    <3> QED
      BY <2>6, <3>2, <3>3
  <2>10. \A j \in 1 .. Len(batch'), k \in 1 .. Len(queue') :
          \E m, n : m = batch'[j] /\ n = queue'[k] /\ Before(m, n)'
    <3> SUFFICES ASSUME NEW j \in 1 .. Len(batch'), NEW k \in 1 .. Len(queue')
                 PROVE  \E m, n : m = batch'[j] /\ n = queue'[k] /\ Before(m, n)'
      OBVIOUS
    <3>1. CASE k \in 1 .. Len(queue)
      BY <3>1, <2>2, <2>3, <2>4 DEF SendOrder
    <3>2. CASE k = Len(queue) + 1
      BY <3>2, <2>2, <2>3, <2>4 DEF SendOrder
    <3> QED
      BY <2>6, <3>1, <3>2
  <2>11. \A j, k \in 1 .. Len(batch') : j < k =>
          \E m, n : m = batch'[j] /\ n = batch'[k] /\ Before(m, n)'
    BY <2>2, <2>4 DEF SendOrder
  <2>12. /\ \A j, k \in 1 .. Len(queue') : j < k => Before(queue[j], queue[k])'
         /\ \A j \in 1 .. Len(batch'), k \in 1 .. Len(queue') : Before(batch[j], queue[k])'
         /\ \A j, k \in 1 .. Len(batch') : j < k => Before(batch[j], batch[k])'
    BY <2>9, <2>10, <2>11 DEF Before
  <2> QED
    BY <2>5, <2>7, <2>8, <2>12 DEF SendOrder
<1>3. CASE OnFdWriteable
  <2>1. batch' = queue /\ queue' = <<>> /\ written' = written /\ Len(queue') = 0
    BY <1>3 DEF OnFdWriteable
  <2> QED
    BY <2>1 DEF WrittenOnce, SendOrder, Before
<1>4. CASE Send \/ GiveUp
  <2>1. /\ UNCHANGED <<written, queue>>
        /\ \/ batch' = batch
           \/ /\ Len(batch') = Len(batch) - 1
              /\ \A k \in 1 .. Len(batch') : batch'[k] = batch[k + 1]
        /\ Len(batch) \in Nat \ {0}
    BY <1>4, SendsOff
  <2>2. CASE batch' = batch
    BY <2>1, <2>2 DEF WrittenOnce, SendOrder, Before
  <2>3. CASE /\ Len(batch') = Len(batch) - 1
             /\ \A k \in 1 .. Len(batch') : batch'[k] = batch[k + 1]
    <3>1. \A k \in 1 .. Len(batch') : k + 1 \in 1 .. Len(batch) /\ k \in Nat
      BY <2>1, <2>3
    <3>2. \A k \in 1 .. Len(batch') : batch'[k] \in ToSet(written)'
      BY <2>1, <2>3, <3>1 DEF SendOrder
    <3>3. \A j, k \in 1 .. Len(batch') : j < k =>
            \E m, n : m = batch'[j] /\ n = batch'[k] /\ Before(m, n)
      <4> SUFFICES ASSUME NEW j \in 1 .. Len(batch'), NEW k \in 1 .. Len(batch'), j < k
                   PROVE  Before(batch'[j], batch'[k])
        OBVIOUS
      <4>1. j + 1 < k + 1
        OBVIOUS
      <4> QED
        BY <4>1, <3>1, <2>3 DEF SendOrder
    <3>4. \A j \in 1 .. Len(batch'), k \in 1 .. Len(queue') :
            \E m, n : m = batch'[j] /\ n = queue'[k] /\ Before(m, n)
      BY <3>1, <2>1, <2>3 DEF SendOrder
    <3>5. /\ written' = written /\ queue' = queue
          /\ \A m, n : Before(m, n) => Before(m, n)'
      BY <2>1, BeforeSame
    <3>6. \A j, k \in 1 .. Len(batch') : j < k =>
            \E m, n : m = batch'[j] /\ n = batch'[k] /\ Before(m, n)'
      BY <3>3, <3>5
    <3>7. \A j, k \in 1 .. Len(batch') : j < k => Before(batch[j], batch[k])'
      BY <3>6 DEF Before
    <3>8. \A j \in 1 .. Len(batch'), k \in 1 .. Len(queue') :
            \E m, n : m = batch'[j] /\ n = queue'[k] /\ Before(m, n)'
      BY <3>4, <3>5
    <3>9. \A j \in 1 .. Len(batch'), k \in 1 .. Len(queue') : Before(batch[j], queue[k])'
      <4> SUFFICES ASSUME NEW j \in 1 .. Len(batch'), NEW k \in 1 .. Len(queue')
                   PROVE  Before(batch[j], queue[k])'
        OBVIOUS
      <4>1. PICK m, n : m = batch'[j] /\ n = queue'[k] /\ Before(m, n)'
        BY <3>8
      <4> QED
        BY <4>1 DEF Before
    <3>10. WrittenOnce'
      BY <3>5 DEF WrittenOnce
    <3>11. /\ \A k \in 1 .. Len(queue') : queue'[k] \in ToSet(written)'
           /\ \A j, k \in 1 .. Len(queue') : j < k => Before(queue[j], queue[k])'
      BY <3>5 DEF SendOrder, Before
    <3> QED
      BY <3>2, <3>7, <3>9, <3>10, <3>11 DEF SendOrder
  <2> QED
    BY <2>1, <2>2, <2>3
<1> QED
  BY <1>1, <1>2, <1>3, <1>4 DEF Next, vars, writeVars, Start, Exit, OnFdReadable, Recv, RecvNothing


LEMMA UnreadBytes ==
    ASSUME ChannelTyped
    PROVE  /\ \A x \in ToSet(sock) : x \in Byte /\ x \in Unread
           /\ \A x \in InBuf : x \in Byte /\ x \in Unread
           /\ \A x \in Unread : x \in Byte
           /\ \A k \in 1 .. Len(sock) : sock[k] \in ToSet(sock)
           /\ rd # RdIdle => \A k \in 1 .. Len(rd.buf) : rd.buf[k] \in InBuf
<1>1. sock \in Seq(Byte)
  BY DEF ChannelTyped
<1>2. CASE rd = RdIdle
  BY <1>1, <1>2, ReadFacts, ElementsAre DEF Unread, InBuf
<1>3. CASE rd # RdIdle
  <2>1. rd.step # "idle" /\ rd.buf \in Seq(Byte)
    BY <1>3, ReadFacts
  <2>2. InBuf = ToSet(rd.buf)
    BY <2>1 DEF InBuf
  <2> QED
    BY <1>1, <2>1, <2>2, ElementsAre DEF Unread
<1> QED
  BY <1>2, <1>3

\* A call that takes bytes from the stream leaves the later ones.
LEMMA TakesFront ==
    ASSUME ChannelTyped, StreamOrder, rd # RdIdle, NEW r, NEW buf, Takes(r, buf)
    PROVE  /\ \A y \in ToSet(sock') : y \in ToSet(sock)
           /\ \A k \in 1 .. Len(buf) : buf[k] \in Unread
           /\ \A k \in 1 .. Len(buf) : \A y \in ToSet(sock') : Earlier(buf[k], y)
           /\ \A j, k \in 1 .. Len(sock') : j < k => Earlier(sock'[j], sock'[k])
<1>1. /\ r \in 0 .. Len(sock) /\ buf \in Seq(Byte)
      /\ Len(buf) = Len(rd.buf) + r
      /\ \A k \in 1 .. Len(rd.buf) : buf[k] = rd.buf[k]
      /\ \A k \in 1 .. r : buf[Len(rd.buf) + k] = sock[k]
      /\ sock' \in Seq(Byte) /\ Len(sock') = Len(sock) - r
      /\ \A k \in 1 .. Len(sock) - r : sock'[k] = sock[r + k]
  BY DEF Takes
<1>2. Len(sock) \in Nat /\ Len(rd.buf) \in Nat
  BY ReadFacts DEF ChannelTyped
<1>3. \A k \in 1 .. Len(sock') : r + k \in 1 .. Len(sock) /\ sock'[k] = sock[r + k]
  BY <1>1, <1>2
<1>4. \A y \in ToSet(sock') : \E k \in 1 .. Len(sock') : y = sock'[k]
  BY <1>1 DEF ToSet
<1>5. \A y \in ToSet(sock') : \E l \in 1 .. Len(sock) : l > r /\ y = sock[l]
  <2> SUFFICES ASSUME NEW k \in 1 .. Len(sock')
               PROVE  \E l \in 1 .. Len(sock) : l > r /\ sock'[k] = sock[l]
    BY <1>4
  <2>1. r + k > r
    BY <1>1
  <2> QED
    BY <1>3, <2>1
<1>6. \A k \in 1 .. Len(buf) :
        k \in 1 .. Len(rd.buf) \/ (k - Len(rd.buf) \in 1 .. r /\ k = Len(rd.buf) + (k - Len(rd.buf)))
  BY <1>1, <1>2
<1>7. \A k \in 1 .. Len(buf) : buf[k] \in InBuf \/ \E i \in 1 .. Len(sock) : i <= r /\ buf[k] = sock[i]
  <2> SUFFICES ASSUME NEW k \in 1 .. Len(buf)
               PROVE  buf[k] \in InBuf \/ \E i \in 1 .. Len(sock) : i <= r /\ buf[k] = sock[i]
    OBVIOUS
  <2>1. CASE k \in 1 .. Len(rd.buf)
    BY <2>1, <1>1, UnreadBytes
  <2>2. CASE k \notin 1 .. Len(rd.buf)
    <3>1. PICK i : i = k - Len(rd.buf)
      OBVIOUS
    <3>2. i \in 1 .. r /\ buf[k] = sock[i]
      BY <2>2, <3>1, <1>1, <1>6
    <3>3. i \in 1 .. Len(sock) /\ i <= r
      BY <3>2, <1>1, <1>2
    <3> QED
      BY <3>2, <3>3
  <2> QED
    BY <2>1, <2>2
<1>8. \A y \in ToSet(sock') : y \in ToSet(sock)
  BY <1>5, UnreadBytes
<1>9. \A k \in 1 .. Len(buf) : buf[k] \in Unread
  BY <1>7, UnreadBytes
<1>10. ASSUME NEW k \in 1 .. Len(buf), NEW y \in ToSet(sock') PROVE Earlier(buf[k], y)
  <2>1. CASE buf[k] \in InBuf
    BY <2>1, <1>8 DEF StreamOrder
  <2>2. CASE \E i \in 1 .. Len(sock) : i <= r /\ buf[k] = sock[i]
    <3>1. PICK i \in 1 .. Len(sock) : i <= r /\ buf[k] = sock[i]
      BY <2>2
    <3>2. PICK l \in 1 .. Len(sock) : l > r /\ y = sock[l]
      BY <1>5
    <3>3. i < l
      BY <1>1, <3>1, <3>2
    <3> QED
      BY <3>1, <3>2, <3>3 DEF StreamOrder
  <2> QED
    BY <1>7, <2>1, <2>2
<1>11. \A j, k \in 1 .. Len(sock') : j < k => Earlier(sock'[j], sock'[k])
  <2> SUFFICES ASSUME NEW j \in 1 .. Len(sock'), NEW k \in 1 .. Len(sock'), j < k
               PROVE  Earlier(sock'[j], sock'[k])
    OBVIOUS
  <2>1. r + j < r + k
    BY <1>1
  <2> QED
    BY <2>1, <1>3 DEF StreamOrder
<1> QED
  BY <1>8, <1>9, <1>10, <1>11

\* The stream stays in order when bytes are sent, ...
LEMMA StreamSend ==
    ASSUME ChannelTyped, SendOrder, StreamOrder, Send
    PROVE  StreamOrder' /\ \A y \in Unread' : y \in Unread \/ \E k \in 1 .. Piece : y = <<Head(batch), sent + k>>
<1>1. /\ batch # <<>> /\ written' = written /\ rd' = rd
  BY DEF Send
<1>2. /\ sock' \in Seq(Byte) /\ Len(sock') = Len(sock) + Piece
      /\ \A k \in 1 .. Len(sock) : sock'[k] = sock[k]
      /\ \A k \in 1 .. Piece : sock'[Len(sock) + k] = <<Head(batch), sent + k>>
      /\ \A y \in ToSet(sock') : y \in ToSet(sock) \/ \E k \in 1 .. Piece : y = <<Head(batch), sent + k>>
  BY SendIs
<1>3. /\ Head(batch) \in Proto /\ Head(batch) = batch[1] /\ Piece \in Nat \ {0} /\ sent \in Nat
      /\ sent + Piece <= Size(Head(batch)) /\ Size(Head(batch)) \in Nat
  BY <1>1, PieceIs DEF ChannelTyped
<1> HIDE DEF Piece
<1>4. \A x, y : Earlier(x, y)' <=> Earlier(x, y)
  BY <1>1, BeforeSame
<1>5. InBuf' = InBuf
  BY <1>1 DEF InBuf
<1>6. \A y \in Unread' : y \in Unread \/ \E k \in 1 .. Piece : y = <<Head(batch), sent + k>>
  BY <1>2, <1>5 DEF Unread
<1>7. PICK h \in Proto : h = Head(batch)
  BY <1>3
<1>8. /\ UNCHANGED <<written, queue>>
      /\ \/ batch' = batch /\ sent' = sent + Piece
         \/ /\ Len(batch') = Len(batch) - 1
            /\ \A k \in 1 .. Len(batch') : batch'[k] = batch[k + 1]
      /\ Len(batch) \in Nat \ {0}
  BY SendsOff
<1>9. 1 \in 1 .. Len(batch) /\ h = batch[1] /\ h \in ToSet(written)
  BY <1>3, <1>7, <1>8 DEF SendOrder
<1>10. \A k \in 1 .. Piece : \E z : z = <<h, sent + k>> /\ Taken(z)'
  <2> SUFFICES ASSUME NEW k \in 1 .. Piece PROVE \E z : z = <<h, sent + k>> /\ Taken(z)'
    OBVIOUS
  <2>1. PICK z : z = <<h, sent + k>>
    OBVIOUS
  <2>2. z[1] = h /\ z[2] = sent + k
    BY <2>1
  <2>3. \A i \in 1 .. Len(batch') : \E n : n = batch'[i]
          /\ (Before(h, n) \/ (i = 1 /\ h = batch'[1] /\ sent + k <= sent'))
    <3>1. CASE batch' = batch /\ sent' = sent + Piece
      <4>1. sent + k <= sent'
        BY <3>1, <1>3
      <4>2. \A i \in 1 .. Len(batch) : i = 1 \/ 1 < i
        BY <1>8
      <4> QED
        BY <3>1, <4>1, <4>2, <1>9 DEF SendOrder
    <3>2. CASE /\ Len(batch') = Len(batch) - 1
               /\ \A i \in 1 .. Len(batch') : batch'[i] = batch[i + 1]
      <4>1. \A i \in 1 .. Len(batch') : i + 1 \in 1 .. Len(batch) /\ 1 < i + 1
        BY <3>2, <1>8
      <4> QED
        BY <3>2, <4>1, <1>9 DEF SendOrder
    <3> QED
      BY <1>8, <3>1, <3>2
  <2>4. \A i \in 1 .. Len(batch') :
          (Before(z[1], batch[i]) \/ (i = 1 /\ z[1] = batch[1] /\ z[2] <= sent))'
    BY <1>8, <2>2, <2>3 DEF Before
  <2>5. \A i \in 1 .. Len(queue) : Before(h, queue[i])
    BY <1>9 DEF SendOrder
  <2>6. Taken(z)'
    BY <1>8, <1>9, <2>2, <2>4, <2>5 DEF Taken, Before
  <2> QED
    BY <2>1, <2>6
<1>11. \A x \in Unread' : Taken(x)'
  <2> SUFFICES ASSUME NEW x \in Unread' PROVE Taken(x)'
    OBVIOUS
  <2>1. CASE x \in Unread
    BY <2>1, UnreadBytes, TakenSend DEF StreamOrder
  <2>2. CASE \E k \in 1 .. Piece : x = <<Head(batch), sent + k>>
    BY <2>2, <1>7, <1>10
  <2> QED
    BY <1>6, <2>1, <2>2
<1>12. \A x \in Unread : \A k \in 1 .. Piece : Earlier(x, <<h, sent + k>>)
  BY <1>7, UnreadBytes, TakenSend DEF StreamOrder
<1>13. Len(sock) \in Nat /\ sock \in Seq(Byte)
  BY DEF ChannelTyped
<1>14. \A k \in 1 .. Len(sock') :
         k \in 1 .. Len(sock) \/ (k - Len(sock) \in 1 .. Piece /\ k = Len(sock) + (k - Len(sock)))
  BY <1>2, <1>3, <1>13
<1>15. \A j, k \in 1 .. Len(sock') : j < k => \E m, n : m = sock'[j] /\ n = sock'[k] /\ Earlier(m, n)
  <2> SUFFICES ASSUME NEW j \in 1 .. Len(sock'), NEW k \in 1 .. Len(sock'), j < k
               PROVE  Earlier(sock'[j], sock'[k])
    OBVIOUS
  <2>1. CASE k \in 1 .. Len(sock)
    <3>1. j \in 1 .. Len(sock)
      BY <2>1, <1>13
    <3> QED
      BY <2>1, <3>1, <1>2 DEF StreamOrder
  <2>2. CASE k \notin 1 .. Len(sock)
    <3>1. PICK l : l = k - Len(sock)
      OBVIOUS
    <3>2. l \in 1 .. Piece /\ sock'[k] = <<h, sent + l>>
      BY <2>2, <3>1, <1>2, <1>7, <1>14
    <3>3. CASE j \in 1 .. Len(sock)
      BY <3>2, <3>3, <1>2, <1>12, UnreadBytes
    <3>4. CASE j \notin 1 .. Len(sock)
      <4>1. PICK i : i = j - Len(sock)
        OBVIOUS
      <4>2. i \in 1 .. Piece /\ sock'[j] = <<h, sent + i>>
        BY <3>4, <4>1, <1>2, <1>7, <1>14
      <4>3. sent + i < sent + l
        BY <3>1, <3>2, <4>1, <4>2, <1>3, <1>13
      <4> QED
        BY <3>2, <4>2, <4>3 DEF Earlier
    <3> QED
      BY <3>3, <3>4
  <2> QED
    BY <2>1, <2>2
<1>16. \A j, k \in 1 .. Len(sock') : j < k => Earlier(sock[j], sock[k])'
  <2> SUFFICES ASSUME NEW j \in 1 .. Len(sock'), NEW k \in 1 .. Len(sock'), j < k
               PROVE  Earlier(sock[j], sock[k])'
    OBVIOUS
  <2>1. PICK m, n : m = sock'[j] /\ n = sock'[k] /\ Earlier(m, n)'
    BY <1>4, <1>15
  <2> QED
    BY <2>1 DEF Earlier, Before
<1>17. \A x \in InBuf', y \in ToSet(sock') : Earlier(x, y)'
  <2> SUFFICES ASSUME NEW x \in InBuf, NEW y \in ToSet(sock') PROVE Earlier(x, y)
    BY <1>4, <1>5
  <2>1. x \in Unread
    BY UnreadBytes
  <2> QED
    BY <2>1, <1>2, <1>7, <1>12 DEF StreamOrder
<1> QED
  BY <1>6, <1>11, <1>16, <1>17 DEF StreamOrder

\* ... or none is sent, ...
LEMMA StreamKept ==
    ASSUME ChannelTyped, StreamOrder, sock' = sock, InBuf' \subseteq InBuf,
           \A x \in Byte : Taken(x) => Taken(x)',
           \A x, y : Earlier(x, y) => Earlier(x, y)'
    PROVE  StreamOrder' /\ \A y \in Unread' : y \in Unread
<1>1. \A y \in Unread' : y \in Unread
  BY DEF Unread
<1>2. \A x \in Unread' : Taken(x)'
  BY <1>1, UnreadBytes DEF StreamOrder
<1>3. \A j, k \in 1 .. Len(sock') : j < k => \E m, n : m = sock'[j] /\ n = sock'[k] /\ Earlier(m, n)'
  BY DEF StreamOrder
<1>4. \A j, k \in 1 .. Len(sock') : j < k => Earlier(sock[j], sock[k])'
  <2> SUFFICES ASSUME NEW j \in 1 .. Len(sock'), NEW k \in 1 .. Len(sock'), j < k
               PROVE  Earlier(sock[j], sock[k])'
    OBVIOUS
  <2>1. PICK m, n : m = sock'[j] /\ n = sock'[k] /\ Earlier(m, n)'
    BY <1>3
  <2> QED
    BY <2>1 DEF Earlier, Before
<1>5. \A x \in InBuf', y \in ToSet(sock)' : Earlier(x, y)'
  BY DEF StreamOrder, ToSet
<1> QED
  BY <1>1, <1>2, <1>4, <1>5 DEF StreamOrder

\* ... or bytes go on to the buffer.
LEMMA StreamReceive ==
    ASSUME ChannelTyped, StreamOrder, UNCHANGED <<written, queue, batch, sent>>,
           rd # RdIdle, NEW r, NEW buf, Takes(r, buf),
           \A x \in InBuf' : \E k \in 1 .. Len(buf) : x = buf[k]
    PROVE  StreamOrder' /\ \A y \in Unread' : y \in Unread
<1>1. /\ \A y \in ToSet(sock') : y \in ToSet(sock)
      /\ \A k \in 1 .. Len(buf) : buf[k] \in Unread
      /\ \A k \in 1 .. Len(buf) : \A y \in ToSet(sock') : Earlier(buf[k], y)
      /\ \A j, k \in 1 .. Len(sock') : j < k => Earlier(sock'[j], sock'[k])
  BY TakesFront
<1>2. \A x, y : Earlier(x, y)' <=> Earlier(x, y)
  BY BeforeSame
<1>3. \A y \in Unread' : y \in Unread
  BY <1>1, UnreadBytes DEF Unread
<1>4. \A x \in Unread' : Taken(x)'
  BY <1>3, TakenSame DEF StreamOrder
<1>5. \A j, k \in 1 .. Len(sock') : j < k => \E m, n : m = sock'[j] /\ n = sock'[k] /\ Earlier(m, n)'
  BY <1>1, <1>2
<1>6. \A j, k \in 1 .. Len(sock') : j < k => Earlier(sock[j], sock[k])'
  <2> SUFFICES ASSUME NEW j \in 1 .. Len(sock'), NEW k \in 1 .. Len(sock'), j < k
               PROVE  Earlier(sock[j], sock[k])'
    OBVIOUS
  <2>1. PICK m, n : m = sock'[j] /\ n = sock'[k] /\ Earlier(m, n)'
    BY <1>5
  <2> QED
    BY <2>1 DEF Earlier, Before
<1>7. \A x \in InBuf', y \in ToSet(sock') : Earlier(x, y)'
  BY <1>1, <1>2
<1> QED
  BY <1>3, <1>4, <1>6, <1>7 DEF StreamOrder

\* A header that has been read stays read.
LEMMA ReadStays ==
    ASSUME ChannelTyped, NEW m \in Proto, Read(m), Taken(<<m, HeaderLen>>)',
           \A x, y : Earlier(x, y) => Earlier(x, y)',
           \A y \in Unread' : y \in Unread \/ Earlier(<<m, HeaderLen>>, y)
    PROVE  Read(m)'
  BY DEF Read

\* When nothing is handed over, and no header has been read, the order stays.
LEMMA ReadsKept ==
    ASSUME ChannelTyped, ReadOrder, delivered' = delivered,
           \A m \in Proto : Announced(m)' => Announced(m),
           \A m \in Proto : Read(m) => Read(m)',
           \A m, n : Before(m, n) => Before(m, n)'
    PROVE  ReadOrder'
  BY DEF ReadOrder

LEMMA OrderWrite ==
    ASSUME ChannelTyped, OrderInv, NEW p \in Proto, Write(p)
    PROVE  StreamOrder' /\ ReadOrder' /\ StopsBroken'
<1>1. UNCHANGED <<polled, batch, sent, sock, rd, delivered, exited>>
  BY DEF Write
<1>2. /\ \A m, n : Before(m, n) => Before(m, n)'
      /\ \A x, y : Earlier(x, y) => Earlier(x, y)'
  BY BeforeWrite
<1>3. \A x : Taken(x) => Taken(x)'
  BY TakenWrite
<1>4. InBuf' = InBuf
  BY <1>1 DEF InBuf
<1>5. StreamOrder' /\ \A y \in Unread' : y \in Unread
  BY <1>1, <1>2, <1>3, <1>4, StreamKept DEF OrderInv
<1>6. \A m \in Proto : Read(m) => Read(m)'
  <2> SUFFICES ASSUME NEW m \in Proto, Read(m) PROVE Read(m)'
    OBVIOUS
  <2>1. Taken(<<m, HeaderLen>>)'
    BY <1>3 DEF Read
  <2> QED
    BY <2>1, <1>2, <1>5, ReadStays
<1>7. ReadOrder'
  BY <1>1, <1>2, <1>6, ReadsKept DEF OrderInv, Announced
<1>8. StopsBroken'
  BY <1>1 DEF OrderInv, StopsBroken, Broken
<1> QED
  BY <1>5, <1>7, <1>8

LEMMA OrderSend ==
    ASSUME ChannelTyped, OrderInv, Send \/ GiveUp
    PROVE  StreamOrder' /\ ReadOrder' /\ StopsBroken'
<1>1. UNCHANGED <<polled, written, queue, rd, delivered, exited>>
  BY DEF Send, GiveUp
<1>2. /\ \A m, n : Before(m, n) <=> Before(m, n)'
      /\ \A x, y : Earlier(x, y) <=> Earlier(x, y)'
  BY <1>1, BeforeSame
<1>3. \A x \in Byte : Taken(x) => Taken(x)'
  BY TakenSend
<1>4. InBuf' = InBuf
  BY <1>1 DEF InBuf
<1>5. /\ StreamOrder'
      /\ \A x \in Byte : Taken(x) => \A y \in Unread' : y \in Unread \/ Earlier(x, y)
  <2>1. CASE Send
    <3>1. StreamOrder' /\ \A y \in Unread' : y \in Unread \/ \E k \in 1 .. Piece : y = <<Head(batch), sent + k>>
      BY <2>1, StreamSend DEF OrderInv
    <3>2. \A x \in Byte : Taken(x) => \A k \in 1 .. Piece : Earlier(x, <<Head(batch), sent + k>>)
      BY <2>1, TakenSend
    <3> QED
      BY <3>1, <3>2
  <2>2. CASE GiveUp
    <3>1. sock' = sock
      BY <2>2 DEF GiveUp
    <3> QED
      BY <3>1, <1>2, <1>3, <1>4, StreamKept DEF OrderInv
  <2> QED
    BY <2>1, <2>2
<1>6. \A m \in Proto : Read(m) => Read(m)'
  <2> SUFFICES ASSUME NEW m \in Proto, Read(m) PROVE Read(m)'
    OBVIOUS
  <2>1. <<m, HeaderLen>> \in Byte
    BY Sizes, ByteIs
  <2>2. Taken(<<m, HeaderLen>>)
    BY DEF Read
  <2>3. Taken(<<m, HeaderLen>>)'
    BY <1>3, <2>1, <2>2
  <2>4. \A y \in Unread' : y \in Unread \/ Earlier(<<m, HeaderLen>>, y)
    BY <1>5, <2>1, <2>2
  <2> QED
    BY <2>3, <2>4, <1>2, ReadStays
<1>7. ReadOrder'
  BY <1>1, <1>2, <1>6, ReadsKept DEF OrderInv, Announced
<1>8. StopsBroken'
  BY <1>1 DEF OrderInv, StopsBroken, Broken
<1> QED
  BY <1>5, <1>7, <1>8

LEMMA OrderSwap ==
    ASSUME ChannelTyped, OrderInv, OnFdWriteable
    PROVE  StreamOrder' /\ ReadOrder' /\ StopsBroken'
<1>1. UNCHANGED <<polled, written, sent, sock, rd, delivered, exited>>
  BY DEF OnFdWriteable
<1>2. /\ \A m, n : Before(m, n) => Before(m, n)'
      /\ \A x, y : Earlier(x, y) => Earlier(x, y)'
  BY <1>1, BeforeSame
<1>3. \A x : Taken(x) => Taken(x)'
  BY TakenSwap
<1>4. InBuf' = InBuf
  BY <1>1 DEF InBuf
<1>5. StreamOrder' /\ \A y \in Unread' : y \in Unread
  BY <1>1, <1>2, <1>3, <1>4, StreamKept DEF OrderInv
<1>6. \A m \in Proto : Read(m) => Read(m)'
  <2> SUFFICES ASSUME NEW m \in Proto, Read(m) PROVE Read(m)'
    OBVIOUS
  <2>1. Taken(<<m, HeaderLen>>)'
    BY <1>3 DEF Read
  <2> QED
    BY <2>1, <1>2, <1>5, ReadStays
<1>7. ReadOrder'
  BY <1>1, <1>2, <1>6, ReadsKept DEF OrderInv, Announced
<1>8. StopsBroken'
  BY <1>1 DEF OrderInv, StopsBroken, Broken
<1> QED
  BY <1>5, <1>7, <1>8

\* Registering, exiting, and the begin of OnFdReadable.
LEMMA OrderSame ==
    ASSUME ChannelTyped, OrderInv,
           UNCHANGED <<written, queue, batch, sent, sock, delivered>>,
           rd' = rd \/ (rd'.step = "header" /\ rd'.buf = <<>> /\ ~ Broken)
    PROVE  StreamOrder' /\ ReadOrder' /\ StopsBroken'
<1>1. /\ \A m, n : Before(m, n) => Before(m, n)'
      /\ \A x, y : Earlier(x, y) => Earlier(x, y)'
  BY BeforeSame
<1>2. \A x : Taken(x) => Taken(x)'
  BY TakenSame
<1>3. InBuf' \subseteq InBuf
  <2>1. ToSet(<<>>) = {}
    BY DEF ToSet
  <2> QED
    BY <2>1 DEF InBuf
<1>4. StreamOrder' /\ \A y \in Unread' : y \in Unread
  BY <1>1, <1>2, <1>3, StreamKept DEF OrderInv
<1>5. \A m \in Proto : Read(m) => Read(m)'
  <2> SUFFICES ASSUME NEW m \in Proto, Read(m) PROVE Read(m)'
    OBVIOUS
  <2>1. Taken(<<m, HeaderLen>>)'
    BY <1>2 DEF Read
  <2> QED
    BY <2>1, <1>1, <1>4, ReadStays
<1>6. ReadOrder'
  BY <1>1, <1>5, ReadsKept DEF OrderInv, Announced
<1>7. StopsBroken'
  BY DEF OrderInv, StopsBroken, Broken
<1> QED
  BY <1>4, <1>6, <1>7

LEMMA OrderReceive ==
    ASSUME ChannelTyped, OrderInv, Recv \/ RecvNothing
    PROVE  StreamOrder' /\ ReadOrder' /\ StopsBroken'
<1>1. /\ rd # RdIdle /\ UNCHANGED <<polled, written, queue, batch, sent, exited>>
      /\ \E r, buf : /\ Takes(r, buf)
                     /\ \/ rd' = Filled(buf) /\ delivered' = delivered
                        \/ UseBuffer(buf)
  BY ReceiveIs
<1>2. PICK r, buf : /\ Takes(r, buf)
                    /\ \/ rd' = Filled(buf) /\ delivered' = delivered
                       \/ UseBuffer(buf)
  BY <1>1
<1>3. rd.step # "idle" /\ ~ Broken /\ buf \in Seq(Byte)
  BY <1>1, <1>2, ReadFacts DEF OrderInv, StopsBroken, Takes
<1>4. /\ \A m, n : Before(m, n) <=> Before(m, n)'
      /\ \A x, y : Earlier(x, y) <=> Earlier(x, y)'
  BY <1>1, BeforeSame
<1>5. \A x : Taken(x) => Taken(x)'
  BY <1>1, TakenSame
<1>6. ToSet(<<>>) = {}
  BY DEF ToSet
<1>7. (rd'.step # "idle" => rd'.buf = <<>> \/ rd'.buf = buf) =>
        /\ StreamOrder' /\ \A y \in Unread' : y \in Unread
        /\ \A m \in Proto : Read(m) => Read(m)'
  <2> SUFFICES ASSUME rd'.step # "idle" => rd'.buf = <<>> \/ rd'.buf = buf
               PROVE  /\ StreamOrder' /\ \A y \in Unread' : y \in Unread
                      /\ \A m \in Proto : Read(m) => Read(m)'
    OBVIOUS
  <2>1. \A x \in InBuf' : \E k \in 1 .. Len(buf) : x = buf[k]
    BY <1>3, <1>6, ElementsAre DEF InBuf
  <2>2. StreamOrder' /\ \A y \in Unread' : y \in Unread
    BY <2>1, <1>1, <1>2, StreamReceive DEF OrderInv
  <2>3. \A m \in Proto : Read(m) => Read(m)'
    <3> SUFFICES ASSUME NEW m \in Proto, Read(m) PROVE Read(m)'
      OBVIOUS
    <3>1. Taken(<<m, HeaderLen>>)'
      BY <1>5 DEF Read
    <3> QED
      BY <3>1, <1>4, <2>2, ReadStays
  <2> QED
    BY <2>2, <2>3
<1>8. CASE rd' = Filled(buf) /\ delivered' = delivered
  <2>1. rd'.step = rd.step /\ rd'.buf = buf /\ rd'.header = rd.header
    BY <1>8 DEF Filled
  <2>2. ReadOrder'
    BY <1>4, <1>7, <1>8, <2>1, ReadsKept DEF OrderInv, Announced
  <2>3. StopsBroken'
    BY <1>3, <1>8, <2>1 DEF OrderInv, StopsBroken, Broken
  <2> QED
    BY <2>1, <2>2, <2>3, <1>7
<1>9. CASE rd.step = "header" /\ ReadHeader(buf) /\ UNCHANGED delivered
  <2>1. /\ rd'.step = "body" /\ rd'.buf = <<>>
        /\ \/ rd'.header = None
           \/ \E m \in Proto : buf = Header(m) /\ rd'.header = m
    BY <1>3, <1>9, HeaderRead
  <2>2. \A m \in Proto : Announced(m)' => buf = Header(m)
    BY <2>1, ChannelAssumption DEF Announced
  <2>3. ASSUME NEW m \in Proto, buf = Header(m)
        PROVE  Read(m)' /\ \A n \in Proto : Read(n) => Before(n, m)
    <3>1. /\ HeaderLen \in Nat \ {0} /\ Len(buf) = HeaderLen
          /\ \A k \in 1 .. HeaderLen : buf[k] = <<m, k>>
      BY <2>3, Sizes, HeaderIs
    <3>2. 1 \in 1 .. Len(buf) /\ HeaderLen \in 1 .. Len(buf)
      BY <3>1
    <3>3. <<m, HeaderLen>> \in Unread /\ <<m, 1>> \in Unread
          /\ \A y \in ToSet(sock') : Earlier(<<m, HeaderLen>>, y)
      <4>1. /\ \A k \in 1 .. Len(buf) : buf[k] \in Unread
            /\ \A k \in 1 .. Len(buf) : \A y \in ToSet(sock') : Earlier(buf[k], y)
        BY <1>1, <1>2, TakesFront DEF OrderInv
      <4>2. buf[1] = <<m, 1>> /\ buf[HeaderLen] = <<m, HeaderLen>>
        BY <3>1, <3>2
      <4> QED
        BY <3>2, <4>1, <4>2
    <3>4. Taken(<<m, HeaderLen>>)'
      BY <3>3, <1>5 DEF OrderInv, StreamOrder
    <3>5. InBuf' = {}
      BY <2>1, <1>6 DEF InBuf
    <3>6. \A y \in Unread' : Earlier(<<m, HeaderLen>>, y)'
      BY <3>3, <3>5, <1>4 DEF Unread
    <3>7. Read(m)'
      BY <3>4, <3>6 DEF Read
    <3>8. ASSUME NEW n \in Proto, Read(n) PROVE Before(n, m)
      <4>1. Earlier(<<n, HeaderLen>>, <<m, 1>>)
        BY <3>3, <3>8 DEF Read
      <4>2. ~ (HeaderLen < 1)
        BY <3>1
      <4> QED
        BY <4>1, <4>2 DEF Earlier
    <3> QED
      BY <3>7, <3>8
  <2>4. ReadOrder'
    <3>1. /\ \A m \in Proto : Announced(m)' => Read(m)'
          /\ \A m, n \in Proto : Read(m) /\ Announced(n)' => Before(m, n)'
      BY <2>2, <2>3, <1>4
    <3> QED
      BY <3>1, <1>4, <1>7, <1>9, <2>1 DEF OrderInv, ReadOrder
  <2>5. StopsBroken'
    BY <1>3, <1>9 DEF OrderInv, StopsBroken, Broken
  <2> QED
    BY <2>1, <2>4, <2>5, <1>7
<1>10. CASE rd.step = "body" /\ ReadBody(buf)
  <2>1. /\ rd' = RdIdle /\ Len(delivered') = Len(delivered) + 1 /\ Len(delivered) \in Nat
        /\ \A k \in 1 .. Len(delivered) : delivered'[k] = delivered[k]
        /\ delivered'[Len(delivered) + 1] = [header |-> rd.header, content |-> buf]
    BY <1>3, <1>10, BodyRead
  <2>2. rd'.step = "idle"
    BY <2>1, ReadIdle
  <2>3. \A k \in 1 .. Len(delivered') :
          k \in 1 .. Len(delivered) \/ (k = Len(delivered) + 1 /\ \A j \in 1 .. Len(delivered') : j < k => j \in 1 .. Len(delivered))
    BY <2>1
  <2>4. delivered'[Len(delivered) + 1].header = rd.header
    BY <2>1
  <2>5. \A m \in Proto : delivered'[Len(delivered) + 1].header = m => Announced(m)
    BY <1>10, <2>4 DEF Announced
  <2>6. \A m \in Proto : ~ Announced(m)'
    BY <2>2 DEF Announced
  <2>7. \A k \in 1 .. Len(delivered') : \A m \in Proto : delivered'[k].header = m => Read(m)'
    BY <2>1, <2>3, <2>5, <2>2, <1>7 DEF OrderInv, ReadOrder
  <2>8. \A j, k \in 1 .. Len(delivered') : \A m, n \in Proto :
          j < k /\ delivered'[j].header = m /\ delivered'[k].header = n => Before(m, n)'
    <3> SUFFICES ASSUME NEW j \in 1 .. Len(delivered'), NEW k \in 1 .. Len(delivered'),
                        NEW m \in Proto, NEW n \in Proto,
                        j < k, delivered'[j].header = m, delivered'[k].header = n
                 PROVE  Before(m, n)
      BY <1>4
    <3>1. j \in 1 .. Len(delivered) /\ delivered[j].header = m
      BY <2>1
    <3>2. CASE k \in 1 .. Len(delivered)
      BY <3>1, <3>2, <2>1 DEF OrderInv, ReadOrder
    <3>3. CASE k = Len(delivered) + 1
      <4>1. Announced(n)
        BY <3>3, <2>5
      <4> QED
        BY <3>1, <4>1 DEF OrderInv, ReadOrder
    <3> QED
      BY <2>3, <3>2, <3>3
  <2>9. ReadOrder'
    BY <2>6, <2>7, <2>8 DEF ReadOrder
  <2>10. StopsBroken'
    <3>1. \A k \in 1 .. Len(delivered') : k < Len(delivered') => k \in 1 .. Len(delivered)
      BY <2>1
    <3>2. \A k \in 1 .. Len(delivered) : Intact(delivered'[k])
      BY <2>1, <1>3 DEF Broken
    <3> QED
      BY <2>2, <3>1, <3>2 DEF StopsBroken
  <2> QED
    BY <2>2, <2>9, <2>10, <1>7
<1> QED
  BY <1>2, <1>8, <1>9, <1>10 DEF UseBuffer

LEMMA OrderInit == Init => OrderInv
<1> SUFFICES ASSUME Init PROVE OrderInv
  OBVIOUS
<1>1. /\ Len(written) = 0 /\ Len(queue) = 0 /\ Len(batch) = 0 /\ Len(sock) = 0 /\ Len(delivered) = 0
      /\ rd.step = "idle" /\ ToSet(sock) = {}
  BY ReadIdle DEF Init, ToSet
<1>2. Unread = {} /\ InBuf = {} /\ ~ Broken
  BY <1>1 DEF Unread, InBuf, Broken
<1> QED
  BY <1>1, <1>2 DEF OrderInv, WrittenOnce, SendOrder, StreamOrder, ReadOrder, StopsBroken, Announced

LEMMA OrderNext == ChannelTyped /\ OrderInv /\ [Next]_vars => OrderInv'
<1> SUFFICES ASSUME ChannelTyped, OrderInv, [Next]_vars PROVE OrderInv'
  OBVIOUS
<1>1. WrittenOnce' /\ SendOrder'
  BY SendOrderNext DEF OrderInv
<1>2. StreamOrder' /\ ReadOrder' /\ StopsBroken'
  <2>1. CASE UNCHANGED vars
    BY <2>1, OrderSame DEF vars, writeVars
  <2>2. CASE \E end \in {"writer", "reader"} : Start(end)
    BY <2>2, OrderSame DEF Start, writeVars
  <2>3. CASE \E m \in Proto : Write(m)
    BY <2>3, OrderWrite
  <2>4. CASE OnFdWriteable
    BY <2>4, OrderSwap
  <2>5. CASE Send \/ GiveUp
    BY <2>5, OrderSend
  <2>6. CASE Exit
    BY <2>6, OrderSame DEF Exit, writeVars
  <2>7. CASE OnFdReadable
    <3>1. /\ rd' = Reading("header", HeaderLen, None) /\ ~ Broken
          /\ UNCHANGED <<written, queue, batch, sent, sock, delivered>>
      BY <2>7 DEF OnFdReadable, writeVars
    <3>2. rd'.step = "header" /\ rd'.buf = <<>>
      BY <3>1, ReadingIs
    <3> QED
      BY <3>1, <3>2, OrderSame
  <2>8. CASE Recv \/ RecvNothing
    BY <2>8, OrderReceive
  <2> QED
    BY <2>1, <2>2, <2>3, <2>4, <2>5, <2>6, <2>7, <2>8 DEF Next
<1> QED
  BY <1>1, <1>2 DEF OrderInv

LEMMA OrderMeans == ChannelTyped /\ OrderInv => InOrder
<1> SUFFICES ASSUME ChannelTyped, OrderInv,
                    NEW j \in 1 .. Len(Headers), NEW k \in 1 .. Len(Headers),
                    j < k, Headers[k] # None
             PROVE  \E u, v \in 1 .. Len(written) :
                      u < v /\ written[u] = Headers[j] /\ written[v] = Headers[k]
  BY DEF InOrder
<1>1. Len(delivered) \in Nat /\ \A i \in 1 .. Len(delivered) : delivered[i] \in Message
  BY DEF ChannelTyped
<1>2. /\ Len(Headers) = Len(delivered)
      /\ \A i \in 1 .. Len(delivered) :
           Headers[i] = IF Intact(delivered[i]) THEN delivered[i].header ELSE None
  BY <1>1 DEF Headers
<1>3. j \in 1 .. Len(delivered) /\ k \in 1 .. Len(delivered) /\ j < Len(delivered)
  BY <1>1, <1>2
<1>4. Intact(delivered[j]) /\ Intact(delivered[k])
  BY <1>2, <1>3 DEF OrderInv, StopsBroken
<1>5. \A d \in Message : Intact(d) => d.header \in Proto
  BY DEF Message, Intact
<1>6. PICK m, n \in Proto : m = delivered[j].header /\ n = delivered[k].header
  BY <1>1, <1>3, <1>4, <1>5
<1>7. Before(m, n)
  BY <1>3, <1>6 DEF OrderInv, ReadOrder
<1>8. Headers[j] = m /\ Headers[k] = n
  BY <1>2, <1>3, <1>4, <1>6
<1> QED
  BY <1>7, <1>8 DEF Before

\* However send() and recv() are split, whatever GiveUp drops and wherever the process exits:
\* ReadBody hands protocols to the delegate in the order of the Writes, none of them twice,
\* until it has handed over something else.
THEOREM InOrderCorrect == Spec => []InOrder
<1>1. ChannelTyped /\ OrderInv /\ [Next]_vars => (ChannelTyped /\ OrderInv)'
  BY TypedNext, OrderNext
<1>2. Init => ChannelTyped /\ OrderInv
  BY TypedInit, OrderInit
<1> QED
  BY <1>1, <1>2, OrderMeans, PTL DEF Spec

-----------------------------------------------------------------------------
(* The loops.                                                                *)

\* A socket that a loop watches has been registered, with its delegate; what epoll has found
\* is about such sockets; a loop that has returned watches none of its process.
LoopInv ==
    /\ lost = {}
    /\ handles \subseteq delegates /\ active \subseteq handles /\ told \subseteq active
    /\ at \in [Runner -> {"unstarted", "alive", "poll", "wait", "turn", "returned"}]
    /\ ready \in [Runner -> SUBSET (Fd \X {"readable", "writable"})]
    /\ \A r \in Runner : \A e \in ready[r] : e[1] \in delegates
    /\ NoneAbandoned

LEMMA LoopStarts == LoopInit => LoopInv
<1> SUFFICES ASSUME LoopInit PROVE LoopInv
  OBVIOUS
<1>1. /\ delegates = {} /\ handles = {} /\ active = {} /\ told = {} /\ lost = {}
      /\ at = [r \in Runner |-> "unstarted"] /\ ready = [r \in Runner |-> {}]
  BY DEF LoopInit, RunnerInit
<1> QED
  BY <1>1 DEF LoopInv, NoneAbandoned

\* What the actions of the runner do to it, whatever the channel does meanwhile.
LEMMA LoopRegisters ==
    ASSUME LoopInv, NEW fd \in Fd, SetDelegate(fd) \/ AddFdEvent(fd)
    PROVE  LoopInv'
<1>1. CASE SetDelegate(fd)
  BY <1>1 DEF SetDelegate, LoopInv, NoneAbandoned
<1>2. CASE AddFdEvent(fd)
  <2>1. /\ fd \in delegates /\ fd \notin handles
        /\ handles' = handles \cup {fd} /\ active' = active \cup {fd} /\ told' = told \ {fd}
        /\ UNCHANGED <<delegates, at, ready, calling, lost>>
    BY <1>2 DEF AddFdEvent, Activate
  <2>2. NoneAbandoned'
    BY <2>1 DEF LoopInv, NoneAbandoned
  <2> QED
    BY <2>1, <2>2 DEF LoopInv
<1> QED
  BY <1>1, <1>2

\* The step of r to a place in the loop at which r has not returned.
LEMMA LoopMoves ==
    ASSUME LoopInv, NEW r \in Runner, NEW to \in {"alive", "poll", "wait", "turn"},
           at' = [at EXCEPT ![r] = to],
           \A s \in Runner : s # r => told' \cap FdsOf(s) \subseteq told \cap FdsOf(s)
    PROVE  /\ NoneAbandoned'
           /\ at' \in [Runner -> {"unstarted", "alive", "poll", "wait", "turn", "returned"}]
<1>1. \A s \in Runner : at'[s] = IF s = r THEN to ELSE at[s]
  BY DEF LoopInv
<1>2. NoneAbandoned'
  BY <1>1 DEF LoopInv, NoneAbandoned, FdsOf
<1> QED
  BY <1>2 DEF LoopInv

LEMMA LoopTurns ==
    ASSUME LoopInv, NEW r \in Runner,
           StartRunner(r) \/ CheckAlive(r) \/ TellEpoll(r) \/ EndTurn(r)
    PROVE  LoopInv'
<1>1. UNCHANGED <<delegates, handles, active, ready, lost>>
  BY DEF StartRunner, CheckAlive, TellEpoll, EndTurn
<1>2. told \subseteq active /\ told' \subseteq active'
  BY DEF StartRunner, CheckAlive, TellEpoll, EndTurn, LoopInv
<1>3. /\ NoneAbandoned'
      /\ at' \in [Runner -> {"unstarted", "alive", "poll", "wait", "turn", "returned"}]
  <2>1. CASE CheckAlive(r) /\ active \cap FdsOf(r) = {}
    <3>1. at' = [at EXCEPT ![r] = "returned"] /\ told' = told
      BY <2>1 DEF CheckAlive
    <3>2. \A s \in Runner : at'[s] = IF s = r THEN "returned" ELSE at[s]
      BY <3>1 DEF LoopInv
    <3>3. NoneAbandoned'
      BY <2>1, <3>1, <3>2, <1>2 DEF LoopInv, NoneAbandoned, FdsOf
    <3> QED
      BY <3>1, <3>3 DEF LoopInv
  <2>2. CASE TellEpoll(r)
    <3>1. at' = [at EXCEPT ![r] = "wait"] /\ told' = told \cup (active \cap FdsOf(r))
      BY <2>2 DEF TellEpoll
    <3>2. \A s \in Runner : s # r => told' \cap FdsOf(s) \subseteq told \cap FdsOf(s)
      BY <3>1 DEF FdsOf
    <3> QED
      BY <3>1, <3>2, LoopMoves
  <2>3. CASE ~ TellEpoll(r) /\ ~ (CheckAlive(r) /\ active \cap FdsOf(r) = {})
    <3>1. told' = told
      BY <2>3 DEF StartRunner, CheckAlive, EndTurn
    <3>2. at' = [at EXCEPT ![r] = "alive"] \/ at' = [at EXCEPT ![r] = "poll"]
      BY <2>3 DEF StartRunner, CheckAlive, EndTurn
    <3> QED
      BY <3>1, <3>2, LoopMoves
  <2> QED
    BY <2>1, <2>2, <2>3
<1> QED
  BY <1>1, <1>2, <1>3 DEF LoopInv

LEMMA LoopWakes ==
    ASSUME LoopInv, NEW r \in Runner, NEW events \in SUBSET (Fd \X {"readable", "writable"}),
           NEW errors, Wake(r, events, errors)
    PROVE  LoopInv'
<1>1. /\ \A e \in events : e[1] \in told
      /\ ready' = [ready EXCEPT ![r] = events]
      /\ active' = active \ errors /\ told' = told \ errors
      /\ at' = [at EXCEPT ![r] = "turn"]
      /\ UNCHANGED <<delegates, handles, lost>>
  BY DEF Wake
<1>2. /\ NoneAbandoned'
      /\ at' \in [Runner -> {"unstarted", "alive", "poll", "wait", "turn", "returned"}]
  BY <1>1, LoopMoves
<1>3. told \subseteq delegates
  BY DEF LoopInv
<1>4. /\ ready' \in [Runner -> SUBSET (Fd \X {"readable", "writable"})]
      /\ \A s \in Runner : ready'[s] = IF s = r THEN events ELSE ready[s]
  BY <1>1 DEF LoopInv
<1>5. \A s \in Runner : \A e \in ready'[s] : e[1] \in delegates
  BY <1>1, <1>3, <1>4 DEF LoopInv
<1> QED
  BY <1>1, <1>2, <1>4, <1>5 DEF LoopInv

LEMMA LoopCalls ==
    ASSUME LoopInv, NEW r \in Runner, NEW e \in ready[r], OnLibuvFdActive(r, e)
    PROVE  LoopInv'
<1>1. e[1] \in delegates
  BY DEF LoopInv
<1>2. /\ ready' = [ready EXCEPT ![r] = @ \ {e}] /\ lost' = lost
      /\ UNCHANGED <<delegates, handles, active, told, at>>
  BY <1>1 DEF OnLibuvFdActive
<1>3. /\ ready' \in [Runner -> SUBSET (Fd \X {"readable", "writable"})]
      /\ \A s \in Runner : ready'[s] \subseteq ready[s]
  BY <1>2 DEF LoopInv
<1>4. NoneAbandoned'
  BY <1>2 DEF LoopInv, NoneAbandoned
<1> QED
  BY <1>2, <1>3, <1>4 DEF LoopInv

LEMMA LoopNextKeeps == LoopInv /\ [LoopNext]_loopVars => LoopInv'
<1> SUFFICES ASSUME LoopInv, [LoopNext]_loopVars PROVE LoopInv'
  OBVIOUS
<1>1. CASE UNCHANGED runnerVars
  BY <1>1 DEF runnerVars, LoopInv, NoneAbandoned
<1>2. CASE \E fd \in Fd : CreateChannel(fd) \/ StartChannel(fd)
  BY <1>2, LoopRegisters DEF CreateChannel, StartChannel
<1>3. CASE \E r \in Runner : RunRunner(r)
  BY <1>3, LoopTurns DEF RunRunner
<1>4. CASE \E r \in Runner : LoopStep(r)
  <2>1. PICK r \in Runner : LoopStep(r)
    BY <1>4
  <2>2. CASE CheckAlive(r) \/ TellEpoll(r) \/ EndTurn(r)
    BY <2>2, LoopTurns
  <2>3. CASE WaitForEvents(r)
    <3>1. PICK errors \in SUBSET (told \cap Other) :
            \E others \in SUBSET (((told \cap Other \cap FdsOf(r)) \ errors) \X {"writable"}) :
              Wake(r, FoundReady(r) \cup others, errors)
      BY <2>3 DEF WaitForEvents
    <3>2. PICK others \in SUBSET (((told \cap Other \cap FdsOf(r)) \ errors) \X {"writable"}) :
            Wake(r, FoundReady(r) \cup others, errors)
      BY <3>1
    <3>3. FdsOf(r) \subseteq Fd
      BY DEF FdsOf
    <3>4. FoundReady(r) \cup others \subseteq Fd \X {"readable", "writable"}
      <4>1. FoundReady(r) \subseteq Fd \X {"readable", "writable"}
        BY <3>3 DEF FoundReady
      <4>2. others \subseteq Fd \X {"readable", "writable"}
        BY <3>3
      <4> QED
        BY <4>1, <4>2
    <3>5. PICK events : events = FoundReady(r) \cup others
      OBVIOUS
    <3>6. events \in SUBSET (Fd \X {"readable", "writable"}) /\ Wake(r, events, errors)
      BY <3>2, <3>4, <3>5
    <3> QED
      BY <3>6, LoopWakes
  <2>4. CASE Callback(r)
    BY <2>4, LoopCalls DEF Callback
  <2>5. CASE CallbackEnds(r)
    BY <2>5 DEF CallbackEnds, EndCallback, LoopInv, NoneAbandoned
  <2> QED
    BY <2>1, <2>2, <2>3, <2>4, <2>5 DEF LoopStep
<1> QED
  BY <1>1, <1>2, <1>3, <1>4 DEF LoopNext, QueueWrite, InCallback, loopVars

\* For any sockets, runners and order of their calls: OnLibuvFdActive never finds a socket
\* without a delegate, although AddFdEvent, set_delegate and the loop take no lock.
THEOREM DelegateSetCorrect == LoopSpec => []DelegateSet
<1>1. LoopInv => DelegateSet
  BY DEF LoopInv, DelegateSet
<1> QED
  BY <1>1, LoopStarts, LoopNextKeeps, PTL DEF LoopSpec

\* A loop that returns leaves no socket behind that it had begun to watch.
THEOREM NoneAbandonedCorrect == LoopSpec => []NoneAbandoned
<1>1. LoopInv => NoneAbandoned
  BY DEF LoopInv
<1> QED
  BY <1>1, LoopStarts, LoopNextKeeps, PTL DEF LoopSpec

\* The loops make only the calls that ChannelPosix allows.
THEOREM LoopsCallChannel == LoopSpec => Spec
<1>1. LoopInit => Init
  BY DEF LoopInit
<1>2. [LoopNext]_loopVars => [Next]_vars
  <2> SUFFICES ASSUME [LoopNext]_loopVars PROVE [Next]_vars
    OBVIOUS
  <2>1. CASE UNCHANGED loopVars
    BY <2>1 DEF loopVars
  <2>2. CASE \E fd \in Fd : CreateChannel(fd) \/ StartChannel(fd)
    BY <2>2 DEF CreateChannel, StartChannel, End, Next
  <2>3. CASE \E r \in Runner : RunRunner(r) \/ LoopStep(r)
    BY <2>3 DEF RunRunner, LoopStep, WaitForEvents, Callback, CallbackEnds, Next
  <2>4. CASE \E m \in Proto : QueueWrite(m)
    BY <2>4 DEF QueueWrite, Next
  <2>5. CASE InCallback
    BY <2>5 DEF InCallback, Next
  <2> QED
    BY <2>1, <2>2, <2>3, <2>4, <2>5 DEF LoopNext
<1> QED
  BY <1>1, <1>2, PTL DEF LoopSpec, Spec

-----------------------------------------------------------------------------
(* Whole pieces.                                                             *)

LEMMA SameSequence ==
    ASSUME NEW S, NEW s \in Seq(S), NEW t \in Seq(S), Len(s) = Len(t),
           \A k \in 1 .. Len(s) : s[k] = t[k]
    PROVE  s = t
  OBVIOUS

LEMMA GoneFacts ==
    ASSUME ChannelTyped, WholeInv
    PROVE  /\ Len(written) \in Nat /\ Len(queue) \in Nat /\ Len(batch) \in Nat
           /\ Len(delivered) \in Nat /\ Len(sock) \in Nat /\ Gone \in Nat
           /\ Gone + Len(batch) + Len(queue) = Len(written)
           /\ Len(delivered) <= Gone /\ Gone <= Len(written)
           /\ \A i \in 1 .. Len(written) : written[i] \in Proto
           /\ ~ Broken
<1>1. /\ Len(written) \in Nat /\ Len(queue) \in Nat /\ Len(batch) \in Nat
      /\ Len(delivered) \in Nat /\ Len(sock) \in Nat /\ Gone \in Nat /\ Len(delivered) <= Gone
      /\ \A i \in 1 .. Len(written) : written[i] \in Proto
  BY DEF ChannelTyped, WholeInv
<1>2. Gone + Len(batch) + Len(queue) = Len(written) /\ Gone <= Len(written)
  BY <1>1 DEF Gone
<1>3. ~ Broken
  <2> SUFFICES ASSUME NEW k \in 1 .. Len(delivered) PROVE Intact(delivered[k])
    BY DEF Broken
  <2>1. written[k] \in Proto
    BY <1>1, <1>2
  <2>2. delivered[k] = [header |-> written[k], content |-> Content(written[k])]
    BY DEF WholeInv
  <2> QED
    BY <2>1, <2>2, ChannelAssumption DEF Intact
<1> QED
  BY <1>1, <1>2, <1>3

\* What is in front in the stream while the header, or the content, of a protocol is read.
LEMMA WholeFront ==
    ASSUME ChannelTyped, WholeInv, NEW off \in [Nat \ {0} -> Int], Laid(off),
           rd # RdIdle, NEW m, m = written[Len(delivered) + 1]
    PROVE  /\ m \in Proto /\ Len(delivered) + 1 \in 1 .. Gone
           /\ rd.step = "header" => /\ HeaderLen <= Len(sock) /\ off[Len(delivered) + 1] = 0
                                    /\ \A k \in 1 .. HeaderLen : sock[k] = <<m, k>>
           /\ rd.step = "body" => /\ contentLen[m] <= Len(sock)
                                  /\ off[Len(delivered) + 1] = 0 - HeaderLen
                                  /\ off[Len(delivered) + 2] = contentLen[m]
                                  /\ \A k \in 1 .. contentLen[m] : sock[k] = <<m, HeaderLen + k>>
<1>1. Len(delivered) \in Nat /\ Gone \in Nat /\ Len(delivered) < Gone /\ Gone <= Len(written)
      /\ rd.step \in {"header", "body"} /\ Len(sock) \in Nat
  BY GoneFacts, ReadFacts DEF WholeInv
<1>2. Len(delivered) + 1 \in 1 .. Gone /\ m \in Proto /\ Len(delivered) + 1 \in Nat \ {0}
      /\ Len(delivered) + 1 \in Len(delivered) + 1 .. Gone
  BY <1>1, GoneFacts
<1>3. /\ contentLen[m] \in Nat /\ Size(m) \in Nat \ {0} /\ Size(m) = HeaderLen + contentLen[m]
      /\ HeaderLen \in Nat \ {0}
  BY <1>2, Sizes
<1>4. PICK d : d = Len(delivered) + 1
  OBVIOUS
<1>5. /\ off[d] = IF rd.step = "body" THEN 0 - HeaderLen ELSE 0
      /\ off[d + 1] = off[d] + Size(m)
      /\ \A j \in 1 .. Size(m) :
           off[d] + j >= 1 => off[d] + j <= Len(sock) /\ sock[off[d] + j] = <<m, j>>
  BY <1>2, <1>4 DEF Laid
<1>6. CASE rd.step = "header"
  <2>1. off[d] = 0
    BY <1>5, <1>6
  <2>2. \A k \in 1 .. HeaderLen : k \in 1 .. Size(m) /\ off[d] + k >= 1 /\ off[d] + k = k
    BY <1>3, <2>1
  <2>3. HeaderLen \in 1 .. HeaderLen
    BY <1>3
  <2> QED
    BY <1>2, <1>4, <1>5, <1>6, <2>1, <2>2, <2>3
<1>7. CASE rd.step = "body"
  <2>1. off[d] = 0 - HeaderLen /\ off[d + 1] = contentLen[m]
    BY <1>3, <1>5, <1>7
  <2>2. \A k \in 1 .. contentLen[m] :
          HeaderLen + k \in 1 .. Size(m) /\ off[d] + (HeaderLen + k) = k /\ k >= 1
    BY SMTT(60), <1>3, <2>1
  <2>3. \A k \in 1 .. contentLen[m] : k <= Len(sock) /\ sock[k] = <<m, HeaderLen + k>>
    BY <1>5, <2>2
  <2>4. contentLen[m] <= Len(sock)
    <3>1. contentLen[m] = 0 \/ contentLen[m] \in 1 .. contentLen[m]
      BY <1>3
    <3> QED
      BY <1>1, <2>3, <3>1
  <2>5. d + 1 = Len(delivered) + 2
    BY <1>1, <1>4
  <2> QED
    BY <1>2, <1>4, <1>7, <2>1, <2>3, <2>4, <2>5
<1> QED
  BY <1>1, <1>2, <1>6, <1>7

\* Where the stream stays, so does its layout.
LEMMA LaidSame ==
    ASSUME ChannelTyped, WholeInv, LaidOut,
           sock' = sock, delivered' = delivered, Gone' = Gone,
           \A i \in 1 .. Gone : written'[i] = written[i],
           rd'.step = "body" <=> rd.step = "body"
    PROVE  LaidOut'
<1>1. PICK off \in [Nat \ {0} -> Int] : Laid(off)
  BY DEF LaidOut
<1>2. \A i \in Len(delivered) + 1 .. Gone : i \in 1 .. Gone
  BY GoneFacts
<1>3. Laid(off)'
  BY <1>1, <1>2 DEF Laid
<1> QED
  BY <1>3 DEF LaidOut

LEMMA WholeWrite ==
    ASSUME ChannelTyped, WholeInv, LaidOut, NEW p \in Proto, Write(p)
    PROVE  WholeInv' /\ LaidOut'
<1>1. UNCHANGED <<polled, batch, sent, sock, rd, delivered, exited>>
  BY DEF Write
<1>2. /\ Len(written') = Len(written) + 1 /\ Len(queue') = Len(queue) + 1
      /\ \A k \in 1 .. Len(written) : written'[k] = written[k]
      /\ written'[Len(written) + 1] = p
      /\ \A k \in 1 .. Len(queue) : queue'[k] = queue[k]
      /\ queue'[Len(queue) + 1] = p
  BY WrittenOf
<1>3. /\ Len(written) \in Nat /\ Len(queue) \in Nat /\ Len(batch) \in Nat
      /\ Len(delivered) \in Nat /\ Gone \in Nat
      /\ Gone + Len(batch) + Len(queue) = Len(written)
      /\ Len(delivered) <= Gone /\ Gone <= Len(written)
  BY GoneFacts
<1>4. Gone' = Gone
  BY <1>1, <1>2, <1>3 DEF Gone
<1>5. LaidOut'
  <2>1. \A i \in 1 .. Gone : i \in 1 .. Len(written)
    BY <1>3
  <2> QED
    BY <1>1, <1>2, <1>4, <2>1, LaidSame
<1>6. \A k \in 1 .. Len(batch') : batch'[k] = written'[Gone + k]
  <2>1. \A k \in 1 .. Len(batch) : Gone + k \in 1 .. Len(written)
    BY <1>3
  <2> QED
    BY <1>1, <1>2, <2>1 DEF WholeInv
<1>7. \A k \in 1 .. Len(queue') : queue'[k] = written'[Gone + Len(batch) + k]
  <2> SUFFICES ASSUME NEW k \in 1 .. Len(queue')
               PROVE  queue'[k] = written'[Gone + Len(batch) + k]
    OBVIOUS
  <2>1. CASE k \in 1 .. Len(queue)
    <3>1. Gone + Len(batch) + k \in 1 .. Len(written)
      BY <2>1, <1>3
    <3> QED
      BY <2>1, <3>1, <1>2 DEF WholeInv
  <2>2. CASE k = Len(queue) + 1
    <3>1. Gone + Len(batch) + k = Len(written) + 1
      BY <2>2, <1>3
    <3> QED
      BY <2>2, <3>1, <1>2
  <2> QED
    BY <1>2, <1>3, <2>1, <2>2
<1>8. \A k \in 1 .. Len(delivered) :
        delivered[k] = [header |-> written'[k], content |-> Content(written'[k])]
  <2>1. \A k \in 1 .. Len(delivered) : k \in 1 .. Len(written)
    BY <1>3
  <2> QED
    BY <1>2, <2>1 DEF WholeInv
<1>9. rd.step = "body" => rd.header = written'[Len(delivered) + 1]
  <2>1. rd.step = "body" => Len(delivered) + 1 \in 1 .. Len(written)
    BY <1>3 DEF WholeInv
  <2> QED
    BY <1>2, <2>1 DEF WholeInv
<1>10. WholeInv'
  BY <1>1, <1>4, <1>6, <1>7, <1>8, <1>9 DEF WholeInv
<1> QED
  BY <1>5, <1>10

LEMMA WholeSwap ==
    ASSUME ChannelTyped, WholeInv, LaidOut, OnFdWriteable
    PROVE  WholeInv' /\ LaidOut'
<1>1. /\ batch = <<>> /\ batch' = queue /\ queue' = <<>>
      /\ UNCHANGED <<polled, written, sent, sock, rd, delivered, exited>>
  BY DEF OnFdWriteable
<1>2. /\ Len(batch) = 0 /\ Len(queue') = 0 /\ Len(batch') = Len(queue)
      /\ Gone \in Nat /\ Len(queue) \in Nat /\ Len(written) \in Nat
  BY <1>1, GoneFacts
<1>3. Gone' = Gone
  BY <1>1, <1>2 DEF Gone
<1>4. LaidOut'
  BY <1>1, <1>3, LaidSame
<1>5. \A k \in 1 .. Len(batch') : batch'[k] = written'[Gone + k]
  <2>1. Gone + Len(batch) = Gone
    BY <1>2
  <2> QED
    BY <1>1, <2>1 DEF WholeInv
<1>6. WholeInv'
  BY <1>1, <1>2, <1>3, <1>5 DEF WholeInv
<1> QED
  BY <1>4, <1>6

\* A protocol goes to the socket in one piece.
LEMMA WholeSend ==
    ASSUME ChannelTyped, WholeInv, LaidOut, WholePieces, Send
    PROVE  WholeInv' /\ LaidOut'
<1>1. batch # <<>> /\ UNCHANGED <<polled, written, queue, rd, delivered, exited>>
  BY DEF Send
<1>2. /\ Len(written) \in Nat /\ Len(queue) \in Nat /\ Len(batch) \in Nat
      /\ Len(delivered) \in Nat /\ Len(sock) \in Nat /\ Gone \in Nat
      /\ Gone + Len(batch) + Len(queue) = Len(written)
      /\ Len(delivered) <= Gone /\ Gone <= Len(written)
  BY GoneFacts
<1>3. PICK h \in Proto : h = Head(batch) /\ h = batch[1]
  BY <1>1, PieceIs
<1>4. Size(h) \in Nat \ {0} /\ Size(h) <= Chunk /\ sent = 0
  BY <1>3, Sizes DEF WholePieces, WholeInv
<1>5. Piece = Size(h)
  BY <1>3, <1>4, ChannelAssumption DEF Piece
<1>6. sent + Piece = Size(Head(batch))
  BY <1>3, <1>4, <1>5
<1>7. batch' = Tail(batch) /\ sent' = 0
  BY <1>6 DEF Send, NextProto
<1>8. /\ Len(batch') = Len(batch) - 1 /\ Len(batch) \in Nat \ {0}
      /\ \A k \in 1 .. Len(batch') : batch'[k] = batch[k + 1]
  BY <1>1, <1>7, TailIs
<1>9. Gone' = Gone + 1
  BY <1>1, <1>2, <1>8 DEF Gone
<1>10. h = written[Gone + 1]
  <2>1. 1 \in 1 .. Len(batch)
    BY <1>8
  <2> QED
    BY <1>3, <2>1 DEF WholeInv
<1>11. /\ Len(sock') = Len(sock) + Size(h)
       /\ \A k \in 1 .. Len(sock) : sock'[k] = sock[k]
       /\ \A k \in 1 .. Size(h) : sock'[Len(sock) + k] = <<h, k>>
  <2>1. \A k \in 1 .. Size(h) : sent + k = k
    BY <1>4
  <2> QED
    BY <1>3, <1>5, <2>1, SendIs
<1>12. WholeInv'
  <2>1. \A k \in 1 .. Len(batch') : batch'[k] = written'[Gone + 1 + k]
    <3>1. \A k \in 1 .. Len(batch') : k + 1 \in 1 .. Len(batch) /\ Gone + (k + 1) = Gone + 1 + k
      BY <1>2, <1>8
    <3> QED
      BY <1>1, <1>8, <3>1 DEF WholeInv
  <2>2. Gone + 1 + Len(batch') = Gone + Len(batch)
    BY <1>2, <1>8
  <2>3. Gone + 1 \in Nat /\ Len(delivered) <= Gone + 1 /\ (Len(delivered) < Gone => Len(delivered) < Gone + 1)
    BY <1>2
  <2>4. \A k \in 1 .. Len(queue') : queue'[k] = written'[Gone + 1 + Len(batch') + k]
    BY <1>1, <2>2 DEF WholeInv
  <2> QED
    BY <1>1, <1>7, <1>9, <2>1, <2>3, <2>4 DEF WholeInv
<1>13. PICK off \in [Nat \ {0} -> Int] : Laid(off)
  BY DEF LaidOut
<1>14. PICK o : o = [i \in Nat \ {0} |-> IF i = Gone + 2 THEN Len(sock) + Size(h) ELSE off[i]]
  OBVIOUS
<1>15. o \in [Nat \ {0} -> Int]
  BY <1>2, <1>4, <1>14
<1>16. /\ o[Gone + 2] = Len(sock) + Size(h)
       /\ \A i \in 1 .. Gone + 1 : o[i] = off[i]
  BY <1>2, <1>14
<1>17. off[Gone + 1] = Len(sock)
  BY <1>13 DEF Laid
<1>18. ASSUME NEW i \in Len(delivered) + 1 .. Gone + 1
       PROVE  /\ o[i + 1] = o[i] + Size(written[i])
              /\ \A j \in 1 .. Size(written[i]) :
                   o[i] + j >= 1 => o[i] + j <= Len(sock') /\ sock'[o[i] + j] = <<written[i], j>>
  <2>1. CASE i = Gone + 1
    <3>1. i + 1 = Gone + 2 /\ i \in 1 .. Gone + 1 /\ o[i] = Len(sock) /\ written[i] = h
      BY <2>1, <1>2, <1>10, <1>16, <1>17
    <3>2. \A j \in 1 .. Size(h) : Len(sock) + j <= Len(sock')
      BY <1>2, <1>4, <1>11
    <3> QED
      BY <3>1, <3>2, <1>11, <1>16
  <2>2. CASE i # Gone + 1
    <3>1. i \in Len(delivered) + 1 .. Gone /\ i \in 1 .. Gone + 1 /\ i + 1 \in 1 .. Gone + 1
          /\ i \in 1 .. Len(written)
      BY <2>2, <1>2
    <3>2. o[i] = off[i] /\ o[i + 1] = off[i + 1] /\ off[i] \in Int
      BY <3>1, <1>16
    <3>3. PICK m : m = written[i]
      OBVIOUS
    <3>4. Size(m) \in Nat /\ m \in Proto
      BY <3>1, <3>3, GoneFacts, Sizes
    <3>5. /\ off[i + 1] = off[i] + Size(m)
          /\ \A j \in 1 .. Size(m) :
               off[i] + j >= 1 => off[i] + j <= Len(sock) /\ sock[off[i] + j] = <<m, j>>
      BY <1>13, <3>1, <3>3 DEF Laid
    <3>6. \A j \in 1 .. Size(m) : off[i] + j >= 1 =>
            off[i] + j \in 1 .. Len(sock) /\ off[i] + j <= Len(sock')
      <4>1. Len(sock) <= Len(sock') /\ Len(sock') \in Nat /\ Len(sock) \in Nat
        BY <1>2, <1>4, <1>11
      <4> SUFFICES ASSUME NEW j \in 1 .. Size(m), off[i] + j >= 1
                   PROVE  off[i] + j \in 1 .. Len(sock) /\ off[i] + j <= Len(sock')
        OBVIOUS
      <4>2. off[i] + j <= Len(sock)
        BY <3>5
      <4>3. PICK start : start = off[i]
        OBVIOUS
      <4>4. start \in Int /\ j \in Int /\ start + j >= 1 /\ start + j <= Len(sock)
        BY <4>2, <4>3, <3>2, <3>4
      <4> QED
        BY <4>1, <4>3, <4>4
    <3> QED
      BY <3>2, <3>3, <3>5, <3>6, <1>11
  <2> QED
    BY <2>1, <2>2
<1>19. o[Len(delivered) + 1] = off[Len(delivered) + 1]
  <2>1. Len(delivered) + 1 \in 1 .. Gone + 1
    BY <1>2
  <2> QED
    BY <2>1, <1>16
<1>20. Gone + 1 + 1 = Gone + 2
  BY <1>2
<1>21. Laid(o)'
  BY <1>1, <1>9, <1>11, <1>13, <1>16, <1>18, <1>19, <1>20 DEF Laid
<1> QED
  BY <1>12, <1>15, <1>21 DEF LaidOut

LEMMA WholeReadable ==
    ASSUME ChannelTyped, WholeInv, LaidOut, OnFdReadable
    PROVE  WholeInv' /\ LaidOut'
<1>1. /\ rd = RdIdle /\ rd' = Reading("header", HeaderLen, None)
      /\ UNCHANGED <<polled, written, queue, batch, sent, sock, delivered, exited>>
      /\ sock # <<>>
  BY DEF OnFdReadable, writeVars, WholeInv
<1>2. rd'.step = "header" /\ rd'.buf = <<>> /\ rd.step = "idle"
  BY <1>1, ReadingIs, ReadIdle
<1>3. Gone' = Gone
  BY <1>1 DEF Gone
<1>4. LaidOut'
  BY <1>1, <1>2, <1>3, LaidSame
<1>5. Len(delivered) < Gone
  <2>1. PICK off \in [Nat \ {0} -> Int] : Laid(off)
    BY DEF LaidOut
  <2>2. off[Len(delivered) + 1] = 0 /\ off[Gone + 1] = Len(sock)
    BY <2>1, <1>2 DEF Laid
  <2>3. Len(sock) # 0
    BY <1>1 DEF ChannelTyped
  <2> QED
    BY <2>2, <2>3, GoneFacts
<1>6. WholeInv'
  BY <1>1, <1>2, <1>3, <1>5 DEF WholeInv
<1> QED
  BY <1>4, <1>6

\* Taking r bytes off the stream moves the layout of the later ones.
LEMMA LaidShift ==
    ASSUME ChannelTyped, WholeInv, NEW off \in [Nat \ {0} -> Int], Laid(off),
           NEW r, NEW buf, Takes(r, buf)
    PROVE  \E o \in [Nat \ {0} -> Int] :
             /\ \A i \in Nat \ {0} : o[i] = off[i] - r
             /\ o[Gone + 1] = Len(sock')
             /\ \A i \in Len(delivered) + 1 .. Gone :
                  /\ o[i + 1] = o[i] + Size(written[i])
                  /\ \A j \in 1 .. Size(written[i]) :
                       o[i] + j >= 1 => o[i] + j <= Len(sock') /\ sock'[o[i] + j] = <<written[i], j>>
<1>1. /\ r \in 0 .. Len(sock) /\ Len(sock') = Len(sock) - r
      /\ \A k \in 1 .. Len(sock) - r : sock'[k] = sock[r + k]
  BY DEF Takes
<1>2. Len(sock) \in Nat /\ Gone \in Nat /\ Gone <= Len(written) /\ Len(delivered) \in Nat /\ Len(written) \in Nat
  BY GoneFacts
<1>3. r \in Int /\ r >= 0
  BY <1>1, <1>2
<1>4. PICK o : o = [i \in Nat \ {0} |-> off[i] - r]
  OBVIOUS
<1>5. o \in [Nat \ {0} -> Int] /\ \A i \in Nat \ {0} : o[i] = off[i] - r
  BY <1>3, <1>4
<1>6. off[Gone + 1] = Len(sock)
  BY DEF Laid
<1>7. o[Gone + 1] = Len(sock')
  <2>1. Gone + 1 \in Nat \ {0}
    BY <1>2
  <2>2. o[Gone + 1] = Len(sock) - r
    BY <2>1, <1>5, <1>6
  <2> QED
    BY <2>2, <1>1
<1>8. ASSUME NEW i \in Len(delivered) + 1 .. Gone
      PROVE  /\ o[i + 1] = o[i] + Size(written[i])
             /\ \A j \in 1 .. Size(written[i]) :
                  o[i] + j >= 1 => o[i] + j <= Len(sock') /\ sock'[o[i] + j] = <<written[i], j>>
  <2>1. i \in Nat \ {0} /\ i + 1 \in Nat \ {0} /\ i \in 1 .. Len(written)
    BY <1>2
  <2>2. o[i] = off[i] - r /\ o[i + 1] = off[i + 1] - r /\ off[i] \in Int /\ off[i + 1] \in Int /\ o[i] \in Int
    BY <2>1, <1>5
  <2>3. PICK m \in Proto : m = written[i]
    BY <2>1, GoneFacts
  <2>4. Size(m) \in Nat
    BY <2>3, Sizes
  <2>5. /\ off[i + 1] = off[i] + Size(m)
        /\ \A j \in 1 .. Size(m) :
             off[i] + j >= 1 => off[i] + j <= Len(sock) /\ sock[off[i] + j] = <<m, j>>
    BY <2>3 DEF Laid
  <2>6. o[i + 1] = o[i] + Size(m)
    BY <1>3, <2>2, <2>4, <2>5
  <2>7. ASSUME NEW j \in 1 .. Size(m), o[i] + j >= 1
        PROVE  o[i] + j <= Len(sock') /\ sock'[o[i] + j] = <<m, j>>
    <3>1. PICK k : k = o[i] + j
      OBVIOUS
    <3>2. k \in Int /\ k >= 1 /\ off[i] + j = r + k /\ r + k >= 1
      <4>1. PICK a \in Int, b \in Int : a = off[i] /\ b = o[i] /\ b = a - r
        BY <2>2
      <4>2. j \in Int
        BY <2>4
      <4>3. k = b + j /\ b + j >= 1
        BY <2>7, <3>1, <4>1
      <4>4. a + j = r + k /\ k \in Int /\ k >= 1 /\ r + k >= 1
        BY SMTT(60), <1>3, <4>1, <4>2, <4>3
      <4> QED
        BY <4>1, <4>4
    <3>3. r + k <= Len(sock) /\ sock[r + k] = <<m, j>>
      BY <2>5, <3>2
    <3>4. k \in 1 .. Len(sock) - r /\ k <= Len(sock')
      BY <1>1, <1>2, <1>3, <3>2, <3>3
    <3> QED
      BY <1>1, <3>1, <3>3, <3>4
  <2> QED
    BY <2>3, <2>6, <2>7
<1> QED
  BY <1>5, <1>7, <1>8

\* recv() finds at once all that it wants, and what it wants.
LEMMA WholeRecv ==
    ASSUME ChannelTyped, WholeInv, NEW off \in [Nat \ {0} -> Int], Laid(off),
           Recv \/ RecvNothing, NEW m, m = written[Len(delivered) + 1]
    PROVE  \/ /\ rd.step = "header"
              /\ Takes(HeaderLen, Header(m)) /\ ReadHeader(Header(m)) /\ delivered' = delivered
           \/ /\ rd.step = "body" /\ rd.header = m
              /\ Takes(contentLen[m], Content(m)) /\ ReadBody(Content(m))
<1>1. rd # RdIdle
  BY DEF Recv, RecvNothing
<1>2. /\ m \in Proto /\ rd.step \in {"header", "body"} /\ rd.buf = <<>> /\ Len(rd.buf) = 0
      /\ rd.step = "header" => rd.want = HeaderLen
      /\ rd.step = "body" => rd.want = contentLen[m] /\ rd.header = m
  BY <1>1, WholeFront, ReadFacts DEF WholeInv
<1>3. /\ rd.step = "header" => /\ HeaderLen <= Len(sock)
                               /\ \A k \in 1 .. HeaderLen : sock[k] = <<m, k>>
      /\ rd.step = "body" => /\ contentLen[m] <= Len(sock)
                             /\ \A k \in 1 .. contentLen[m] : sock[k] = <<m, HeaderLen + k>>
  BY <1>1, WholeFront
<1>4. contentLen[m] \in Nat /\ HeaderLen \in Nat \ {0} /\ Len(sock) \in Nat
  BY <1>2, Sizes, GoneFacts
<1>5. ~ RecvNothing
  <2> SUFFICES ASSUME RecvNothing PROVE FALSE
    OBVIOUS
  <2>1. Len(sock) = 0 /\ Len(rd.buf) < rd.want
    BY DEF RecvNothing
  <2> QED
    BY <2>1, <1>2, <1>3, <1>4
<1>6. PICK r, buf : /\ Takes(r, buf)
                    /\ r = Len(sock) \/ Len(buf) = rd.want
                    /\ \/ Len(buf) = rd.want /\ UseBuffer(buf)
                       \/ Len(buf) # rd.want /\ rd' = Filled(buf) /\ delivered' = delivered
  BY <1>5, RecvTakes
<1>7. /\ buf \in Seq(Byte) /\ r \in 0 .. Len(sock) /\ Len(buf) = r /\ Len(buf) <= rd.want
      /\ \A k \in 1 .. r : buf[k] = sock[k]
  <2>1. /\ buf \in Seq(Byte) /\ r \in 0 .. Len(sock) /\ Len(buf) = 0 + r /\ Len(buf) <= rd.want
        /\ \A k \in 1 .. r : buf[0 + k] = sock[k]
    BY <1>2, <1>6 DEF Takes
  <2>2. 0 + r = r /\ \A k \in 1 .. r : 0 + k = k
    BY <2>1
  <2> QED
    BY <2>1, <2>2
<1>8. rd.want \in Nat /\ rd.want <= Len(sock)
  BY <1>2, <1>3, <1>4
<1>9. Len(buf) = rd.want /\ r = rd.want /\ UseBuffer(buf)
  BY <1>4, <1>6, <1>7, <1>8
<1>10. CASE rd.step = "header"
  <2>1. /\ Header(m) \in Seq(Byte) /\ Len(Header(m)) = HeaderLen
        /\ \A k \in 1 .. HeaderLen : Header(m)[k] = <<m, k>>
    BY <1>2, HeaderIs
  <2>2. Len(buf) = HeaderLen /\ \A k \in 1 .. HeaderLen : buf[k] = <<m, k>>
    BY <1>2, <1>3, <1>7, <1>9, <1>10
  <2>3. buf = Header(m)
    BY <1>7, <2>1, <2>2, SameSequence
  <2> QED
    BY <1>2, <1>6, <1>9, <1>10, <2>3 DEF UseBuffer
<1>11. CASE rd.step = "body"
  <2>1. /\ Content(m) \in Seq(Byte) /\ Len(Content(m)) = contentLen[m]
        /\ \A k \in 1 .. contentLen[m] : Content(m)[k] = <<m, HeaderLen + k>>
    BY <1>2, ContentIs
  <2>2. Len(buf) = contentLen[m] /\ \A k \in 1 .. contentLen[m] : buf[k] = <<m, HeaderLen + k>>
    BY <1>2, <1>3, <1>7, <1>9, <1>11
  <2>3. Len(buf) = Len(Content(m)) /\ \A k \in 1 .. Len(buf) : buf[k] = Content(m)[k]
    BY <2>1, <2>2
  <2>4. buf = Content(m)
    BY <1>7, <2>1, <2>3, SameSequence
  <2> QED
    BY <1>2, <1>6, <1>9, <1>11, <2>4 DEF UseBuffer
<1> QED
  BY <1>2, <1>10, <1>11

LEMMA WholeReceive ==
    ASSUME ChannelTyped, WholeInv, LaidOut, WholePieces, Recv \/ RecvNothing
    PROVE  /\ WholeInv' /\ LaidOut'
           /\ \/ delivered' = delivered
              \/ Len(delivered) < Gone /\ Len(delivered') = Len(delivered) + 1
<1>1. /\ rd # RdIdle /\ UNCHANGED <<polled, written, queue, batch, sent, exited>>
  BY ReceiveIs
<1>2. PICK off \in [Nat \ {0} -> Int] : Laid(off)
  BY DEF LaidOut
<1>3. PICK m : m = written[Len(delivered) + 1]
  OBVIOUS
<1>4. /\ m \in Proto /\ Len(delivered) + 1 \in 1 .. Gone
      /\ rd.step = "header" => off[Len(delivered) + 1] = 0
      /\ rd.step = "body" => off[Len(delivered) + 2] = contentLen[m]
  BY <1>1, <1>2, <1>3, WholeFront
<1>5. /\ Len(delivered) \in Nat /\ Gone \in Nat /\ HeaderLen \in Nat \ {0}
      /\ contentLen[m] \in Nat /\ Len(delivered) < Gone
  BY SMTT(60), <1>4, GoneFacts, Sizes
<1>6. Gone' = Gone
  BY <1>1 DEF Gone
<1>7. CASE /\ rd.step = "header"
           /\ Takes(HeaderLen, Header(m)) /\ ReadHeader(Header(m)) /\ delivered' = delivered
  <2>1. PICK n \in Proto : Header(m) = Header(n) /\ rd' = Reading("body", contentLen[n] % LenMod, n)
    BY <1>4, <1>7 DEF ReadHeader
  <2>2. n = m
    BY <2>1, <1>4, HeaderOf
  <2>3. contentLen[m] % LenMod = contentLen[m]
    <3>1. PICK c \in Nat, d \in Nat \ {0} : c = contentLen[m] /\ d = LenMod /\ c < d
      BY <1>4, <1>5, ChannelAssumption DEF WholePieces
    <3>2. c % d = c
      BY <3>1
    <3> QED
      BY <3>1, <3>2
  <2>4. rd'.step = "body" /\ rd'.want = contentLen[m] /\ rd'.buf = <<>> /\ rd'.header = m
    BY <2>1, <2>2, <2>3, ReadingIs
  <2>5. WholeInv'
    BY <1>1, <1>3, <1>5, <1>6, <1>7, <2>4 DEF WholeInv
  <2>6. PICK o \in [Nat \ {0} -> Int] :
             /\ \A i \in Nat \ {0} : o[i] = off[i] - HeaderLen
             /\ o[Gone + 1] = Len(sock')
             /\ \A i \in Len(delivered) + 1 .. Gone :
                  /\ o[i + 1] = o[i] + Size(written[i])
                  /\ \A j \in 1 .. Size(written[i]) :
                       o[i] + j >= 1 => o[i] + j <= Len(sock') /\ sock'[o[i] + j] = <<written[i], j>>
    BY ZenonT(60), <1>2, <1>7, LaidShift
  <2>7. o[Len(delivered) + 1] = 0 - HeaderLen
    <3>1. Len(delivered) + 1 \in Nat \ {0}
      BY <1>5
    <3> QED
      BY <1>4, <1>7, <2>6, <3>1
  <2>8. Laid(o)'
    BY <1>1, <1>6, <1>7, <2>4, <2>6, <2>7 DEF Laid
  <2> QED
    BY <1>7, <2>5, <2>8 DEF LaidOut
<1>8. CASE /\ rd.step = "body" /\ rd.header = m
           /\ Takes(contentLen[m], Content(m)) /\ ReadBody(Content(m))
  <2>1. Content(m) \in Seq(Byte)
    BY <1>4, ContentIs
  <2>2. /\ rd' = RdIdle /\ Len(delivered') = Len(delivered) + 1
        /\ \A k \in 1 .. Len(delivered) : delivered'[k] = delivered[k]
        /\ delivered'[Len(delivered) + 1] = [header |-> m, content |-> Content(m)]
    BY <1>8, <2>1, BodyRead
  <2>3. rd'.step = "idle"
    BY <2>2, ReadIdle
  <2>4. \A k \in 1 .. Len(delivered') :
          delivered'[k] = [header |-> written[k], content |-> Content(written[k])]
    <3>1. \A k \in 1 .. Len(delivered') : k \in 1 .. Len(delivered) \/ k = Len(delivered) + 1
      BY <2>2, <1>5
    <3> QED
      BY <1>3, <2>2, <3>1 DEF WholeInv
  <2>5. Len(delivered') <= Gone
    BY <1>5, <2>2
  <2>6. WholeInv'
    BY <1>1, <1>6, <2>3, <2>4, <2>5 DEF WholeInv
  <2>7. PICK o \in [Nat \ {0} -> Int] :
             /\ \A i \in Nat \ {0} : o[i] = off[i] - contentLen[m]
             /\ o[Gone + 1] = Len(sock')
             /\ \A i \in Len(delivered) + 1 .. Gone :
                  /\ o[i + 1] = o[i] + Size(written[i])
                  /\ \A j \in 1 .. Size(written[i]) :
                       o[i] + j >= 1 => o[i] + j <= Len(sock') /\ sock'[o[i] + j] = <<written[i], j>>
    BY ZenonT(60), <1>2, <1>8, LaidShift
  <2>8. Len(delivered') + 1 = Len(delivered) + 2 /\ Len(delivered) + 2 \in Nat \ {0}
    BY <1>5, <2>2
  <2>9. o[Len(delivered') + 1] = 0
    BY <1>4, <1>5, <1>8, <2>7, <2>8
  <2>10. \A i \in Len(delivered') + 1 .. Gone : i \in Len(delivered) + 1 .. Gone
    BY <1>5, <2>2
  <2>11. Laid(o)'
    BY <1>1, <1>6, <2>3, <2>7, <2>9, <2>10 DEF Laid
  <2> QED
    BY <1>5, <2>2, <2>6, <2>11 DEF LaidOut
<1> QED
  BY <1>2, <1>3, <1>7, <1>8, WholeRecv

LEMMA WholeInit == Init => WholeInv /\ LaidOut
<1> SUFFICES ASSUME Init PROVE WholeInv /\ LaidOut
  OBVIOUS
<1>1. /\ Len(written) = 0 /\ Len(queue) = 0 /\ Len(batch) = 0 /\ Len(sock) = 0 /\ Len(delivered) = 0
      /\ rd.step = "idle" /\ sent = 0 /\ exited = FALSE
  BY ReadIdle DEF Init
<1>2. Gone = 0
  BY <1>1 DEF Gone
<1>3. WholeInv
  BY <1>1, <1>2 DEF WholeInv
<1>4. PICK off : off = [i \in Nat \ {0} |-> 0]
  OBVIOUS
<1>5. off \in [Nat \ {0} -> Int] /\ off[1] = 0
  BY <1>4
<1>6. Laid(off)
  BY <1>1, <1>2, <1>5 DEF Laid
<1> QED
  BY <1>3, <1>5, <1>6 DEF LaidOut

\* What the delegate has got, d, when it is the first part of what was written, w.
LEMMA HeadersOf ==
    ASSUME NEW w \in Seq(Proto), NEW d \in Seq(Message), Len(d) <= Len(w),
           \A k \in 1 .. Len(d) : d[k] = [header |-> w[k], content |-> Content(w[k])],
           NEW h, h = [k \in 1 .. Len(d) |-> IF Intact(d[k]) THEN d[k].header ELSE None]
    PROVE  /\ h \in Seq(Proto) /\ Len(h) = Len(d)
           /\ \A k \in 1 .. Len(d) : h[k] = w[k]
<1>1. Len(d) \in Nat /\ Len(w) \in Nat
  OBVIOUS
<1>2. ASSUME NEW k \in 1 .. Len(d)
      PROVE  /\ (IF Intact(d[k]) THEN d[k].header ELSE None) = w[k]
             /\ w[k] \in Proto
  <2>1. w[k] \in Proto
    BY <1>1
  <2>2. PICK c : d[k] = [header |-> w[k], content |-> c] /\ c = Content(w[k])
    OBVIOUS
  <2>3. d[k].header = w[k] /\ d[k].content = c
    BY <2>2
  <2>4. Intact(d[k])
    BY <2>1, <2>2, <2>3, ChannelAssumption DEF Intact
  <2> QED
    BY <2>1, <2>3, <2>4
<1>3. h \in [1 .. Len(d) -> Proto] /\ \A k \in 1 .. Len(d) : h[k] = w[k]
  BY <1>2
<1> QED
  BY <1>1, <1>3

LEMMA HeadersAre ==
    ASSUME ChannelTyped, WholeInv
    PROVE  /\ Headers \in Seq(Proto) /\ Len(Headers) = Len(delivered)
           /\ \A k \in 1 .. Len(delivered) : Headers[k] = written[k]
<1>1. /\ written \in Seq(Proto) /\ delivered \in Seq(Message) /\ Len(delivered) <= Len(written)
      /\ \A k \in 1 .. Len(delivered) :
           delivered[k] = [header |-> written[k], content |-> Content(written[k])]
  <2>1. Len(delivered) <= Len(written)
    BY GoneFacts
  <2> QED
    BY <2>1 DEF ChannelTyped, WholeInv
<1> QED
  BY <1>1, HeadersOf DEF Headers

\* Every step is a Write or a Deliver of the FIFO, or none of its steps.
LEMMA FifoStep ==
    ASSUME WholePieces, ChannelTyped, WholeInv, LaidOut, Len(sock) < SockBuf, [Next]_vars
    PROVE  WholeInv' /\ LaidOut' /\ [Fifo!Next]_(Fifo!fifoVars)
<1>1. /\ WholeInv' /\ LaidOut'
      /\ \/ written' = written /\ delivered' = delivered
         \/ delivered' = delivered /\ \E m \in Proto : written' = Append(written, m)
         \/ written' = written /\ Len(delivered) < Gone /\ Len(delivered') = Len(delivered) + 1
  <2>1. CASE UNCHANGED vars \/ \E end \in {"writer", "reader"} : Start(end)
    <3>1. UNCHANGED <<written, queue, batch, sent, sock, rd, delivered, exited>>
      BY <2>1 DEF vars, writeVars, Start
    <3>2. Gone' = Gone
      BY <3>1 DEF Gone
    <3>3. WholeInv'
      BY <3>1, <3>2 DEF WholeInv
    <3>4. LaidOut'
      BY <3>1, <3>2, LaidSame
    <3> QED
      BY <3>1, <3>3, <3>4
  <2>2. CASE \E m \in Proto : Write(m)
    BY <2>2, WholeWrite DEF Write
  <2>3. CASE OnFdWriteable
    BY <2>3, WholeSwap DEF OnFdWriteable
  <2>4. CASE Send
    BY <2>4, WholeSend DEF Send
  <2>5. CASE GiveUp
    <3>1. Len(sock) \in Nat /\ SockBuf \in Nat
      BY GoneFacts, ChannelAssumption
    <3> QED
      BY <2>5, <3>1 DEF GiveUp
  <2>6. CASE Exit
    BY <2>6 DEF Exit, WholePieces
  <2>7. CASE OnFdReadable
    BY <2>7, WholeReadable DEF OnFdReadable, writeVars
  <2>8. CASE Recv \/ RecvNothing
    <3>1. written' = written
      BY <2>8, ReceiveIs
    <3> QED
      BY <2>8, <3>1, WholeReceive
  <2> QED
    BY <2>1, <2>2, <2>3, <2>4, <2>5, <2>6, <2>7, <2>8 DEF Next
<1>2. CASE written' = written /\ delivered' = delivered
  <2>1. Headers' = Headers
    BY <1>2 DEF Headers
  <2> QED
    BY <1>1, <1>2, <2>1 DEF Fifo!fifoVars
<1>3. CASE delivered' = delivered /\ \E m \in Proto : written' = Append(written, m)
  <2>1. Headers' = Headers
    BY <1>3 DEF Headers
  <2> QED
    BY <1>1, <1>3, <2>1 DEF Fifo!Next, Fifo!Write
<1>4. CASE written' = written /\ Len(delivered) < Gone /\ Len(delivered') = Len(delivered) + 1
  <2>1. ChannelTyped'
    BY TypedNext
  <2>2. /\ Headers \in Seq(Proto) /\ Len(Headers) = Len(delivered)
        /\ \A k \in 1 .. Len(delivered) : Headers[k] = written[k]
    BY HeadersAre
  <2>3. /\ Headers' \in Seq(Proto) /\ Len(Headers') = Len(delivered')
        /\ \A k \in 1 .. Len(delivered') : Headers'[k] = written'[k]
    <3>1. /\ written' \in Seq(Proto) /\ delivered' \in Seq(Message)
          /\ \A k \in 1 .. Len(delivered') :
               delivered'[k] = [header |-> written'[k], content |-> Content(written'[k])]
      BY <1>1, <2>1 DEF ChannelTyped, WholeInv
    <3>2. Len(delivered') <= Len(written')
      BY <1>4, GoneFacts
    <3> QED
      BY <3>1, <3>2, HeadersOf DEF Headers
  <2>4. /\ Len(delivered) \in Nat /\ Len(delivered) + 1 \in 1 .. Len(written)
        /\ written[Len(delivered) + 1] \in Proto
    BY <1>4, GoneFacts
  <2>5. PICK s : s = Append(Headers, written[Len(delivered) + 1])
    OBVIOUS
  <2>6. /\ s \in Seq(Proto) /\ Len(s) = Len(delivered) + 1
        /\ \A k \in 1 .. Len(delivered) : s[k] = Headers[k]
        /\ s[Len(delivered) + 1] = written[Len(delivered) + 1]
    BY <2>2, <2>4, <2>5, AppendProperties
  <2>7. \A k \in 1 .. Len(s) : k \in 1 .. Len(delivered) \/ k = Len(delivered) + 1
    BY <2>4, <2>6
  <2>8. Len(s) = Len(Headers') /\ \A k \in 1 .. Len(s) : s[k] = Headers'[k]
    BY <1>4, <2>2, <2>3, <2>6, <2>7
  <2>9. s = Headers'
    BY <2>3, <2>6, <2>8, SameSequence
  <2>10. Len(Headers) < Len(written) /\ Headers' = Append(Headers, written[Len(Headers) + 1])
    BY <2>2, <2>4, <2>5, <2>9, GoneFacts
  <2> QED
    BY <1>1, <1>4, <2>10 DEF Fifo!Next, Fifo!Deliver
<1> QED
  BY <1>1, <1>2, <1>3, <1>4

\* As long as the socket takes every protocol in one piece, is never found full, and the writing
\* process lives: Write, OnFdWriteable, send(), recv() and OnFdReadable together are the FIFO.
THEOREM ImplementsFifoCorrect ==
    WholePieces /\ Spec /\ [](Len(sock) < SockBuf) => ImplementsFifo
<1> SUFFICES ASSUME WholePieces PROVE Spec /\ [](Len(sock) < SockBuf) => ImplementsFifo
  OBVIOUS
<1>1. Init => WholeInv /\ LaidOut
  BY WholeInit
<1>2. WholeInv /\ LaidOut /\ ChannelTyped /\ Len(sock) < SockBuf /\ [Next]_vars
        => (WholeInv /\ LaidOut)' /\ [Fifo!Next]_(Fifo!fifoVars)
  BY FifoStep
<1>3. Init => Fifo!Init
  <2> SUFFICES ASSUME Init PROVE written = <<>> /\ Headers = <<>>
    BY DEF Fifo!Init
  <2>1. ChannelTyped /\ WholeInv /\ written = <<>> /\ Len(delivered) = 0
    BY TypedInit, WholeInit DEF Init
  <2>2. Headers \in Seq(Proto) /\ Len(Headers) = 0
    BY <2>1, HeadersAre
  <2> QED
    BY <2>1, <2>2
<1> QED
  BY <1>1, <1>2, <1>3, TypedAlways, PTL DEF Spec, ImplementsFifo, Fifo!Spec

\* The same when the event loops of the two processes make the calls.
COROLLARY LoopsImplementFifo ==
    WholePieces /\ LoopSpec /\ [](Len(sock) < SockBuf) => ImplementsFifo
  BY LoopsCallChannel, ImplementsFifoCorrect, PTL

=============================================================================
