------------------------------ MODULE ChannelPosix ------------------------------
(***************************************************************************)
(* ChannelPosix: one direction of a channel, from the Write of one end to  *)
(* the OnChannelMessage of the other, over a stream socket that carries    *)
(* bytes and knows no message boundaries.                                  *)
(*                                                                         *)
(* A byte is named after the protocol it belongs to and its place in it;   *)
(* the first HeaderLen bytes of a protocol are its header, the rest is its *)
(* content.  Both sockets are non-blocking.  The socket takes pieces of at *)
(* most Chunk bytes as long as fewer than SockBuf bytes are waiting, and   *)
(* hands over all that waits.  Every send and recv call is a step.         *)
(***************************************************************************)
EXTENDS Naturals, Sequences, SequencesExt

CONSTANTS
    Proto,      \* the protocols (messages) of this direction
    contentLen, \* contentLen[m]: the length of the content of m
    HeaderLen,  \* Protocol::kBaseLen
    LenMod,     \* fix_len is a uint16: a length is taken modulo LenMod (65536)
    Chunk,      \* what the socket takes in one piece
    SockBuf,    \* what the socket holds before it refuses more
    MayExit,    \* whether the writing process may exit
    None        \* a header that is not one

ASSUME ChannelAssumption ==
    /\ contentLen \in [Proto -> Nat]
    /\ HeaderLen \in Nat \ {0} /\ LenMod \in Nat \ {0}
    /\ Chunk \in Nat \ {0} /\ SockBuf \in Nat \ {0}
    /\ MayExit \in BOOLEAN
    /\ None \notin Proto

VARIABLES
    polled,     \* the ends whose Start has registered the socket with the event loop
    written,    \* history: the protocols written, in order
    queue,      \* writing_protocol_
    batch,      \* the queue that OnFdWriteable has swapped out, sent from the front
    sent,       \* how much of the first of them has been sent
    sock,       \* the bytes in the socket
    rd,         \* what OnFdReadable of the other end is in the middle of
    delivered,  \* what OnChannelMessage got: a header and a content
    exited      \* the writing process has exited

writeVars == <<written, queue, batch, sent>>
vars == <<polled, writeVars, sock, rd, delivered, exited>>

\* Protocol::Encode: 11 bytes that end with the content length, then the content.
Size(m) == HeaderLen + contentLen[m]
Bytes(m, first, last) == [k \in 1 .. last + 1 - first |-> <<m, first + k - 1>>]
Header(m) == Bytes(m, 1, HeaderLen)
Content(m) == Bytes(m, HeaderLen + 1, Size(m))

Byte == UNION { {m} \X (1 .. Size(m)) : m \in Proto }

\* A delivered message is a protocol that was sent, nothing less and nothing else.  The
\* reader of anything else dispatches on garbage, which is the end of the model.
Intact(d) == d.header # None /\ d.content = Content(d.header)
Broken == \E k \in 1 .. Len(delivered) : ~ Intact(delivered[k])

RdIdle == [step |-> "idle"]

TypeOK ==
    /\ polled \subseteq {"writer", "reader"}
    /\ written \in Seq(Proto) /\ queue \in Seq(Proto) /\ batch \in Seq(Proto)
    /\ batch = <<>> => sent = 0
    /\ batch # <<>> => sent \in 0 .. Size(Head(batch)) - 1
    /\ sock \in Seq(Byte)
    /\ \/ rd = RdIdle
       \/ /\ rd.step \in {"header", "body"}
          /\ rd.buf \in Seq(Byte) /\ Len(rd.buf) <= rd.want
          /\ rd.header \in Proto \cup {None}
    /\ \A k \in 1 .. Len(delivered) :
         delivered[k].header \in Proto \cup {None} /\ delivered[k].content \in Seq(Byte)
    /\ exited \in BOOLEAN

Init ==
    /\ polled = {}
    /\ written = <<>> /\ queue = <<>> /\ batch = <<>> /\ sent = 0
    /\ sock = <<>>
    /\ rd = RdIdle
    /\ delivered = <<>>
    /\ exited = FALSE

-----------------------------------------------------------------------------
(* The writing end.                                                          *)

\* Start registers the socket for reading and writing; Write may come first.
Start(end) ==
    /\ end \notin polled
    /\ end = "writer" => ~ exited
    /\ polled' = polled \cup {end}
    /\ UNCHANGED <<writeVars, sock, rd, delivered, exited>>

\* Write, on any thread, queues under writing_protocol_lock_.  Each protocol is a new one.
Write(m) ==
    /\ ~ exited
    /\ m \notin ToSet(written)
    /\ written' = Append(written, m)
    /\ queue' = Append(queue, m)
    /\ UNCHANGED <<polled, batch, sent, sock, rd, delivered, exited>>

\* A bug to try: the queue is copied, not swapped.
OnFdWriteableCopies ==
    /\ ~ exited /\ "writer" \in polled
    /\ batch = <<>> /\ queue # <<>>
    /\ batch' = queue
    /\ UNCHANGED <<polled, written, queue, sent, sock, rd, delivered, exited>>

\* OnFdWriteable swaps the queue out under the lock, ...
OnFdWriteable ==
    /\ ~ exited /\ "writer" \in polled
    /\ batch = <<>> /\ queue # <<>>
    /\ batch' = queue
    /\ queue' = <<>>
    /\ UNCHANGED <<polled, written, sent, sock, rd, delivered, exited>>

\* ... and sends each protocol in turn: sock::Send calls send() until all is sent, ...
Piece == LET left == Size(Head(batch)) - sent IN IF left < Chunk THEN left ELSE Chunk

\* Bugs to try: the rest of the batch is dropped; the count goes on into the next protocol.
NextProtoNone == batch' = <<>> /\ sent' = 0
NextProtoCounts == batch' = Tail(batch) /\ UNCHANGED sent

NextProto == batch' = Tail(batch) /\ sent' = 0

Send ==
    /\ ~ exited /\ batch # <<>> /\ Len(sock) < SockBuf
    /\ sock' = sock \o Bytes(Head(batch), sent + 1, sent + Piece)
    /\ IF sent + Piece = Size(Head(batch))
         THEN NextProto
         ELSE sent' = sent + Piece /\ UNCHANGED batch
    /\ UNCHANGED <<polled, written, queue, rd, delivered, exited>>

\* ... or a send() fails with EAGAIN: Send returns -1, which OnFdWriteable ignores.
GiveUp ==
    /\ ~ exited /\ batch # <<>> /\ Len(sock) >= SockBuf
    /\ NextProto
    /\ UNCHANGED <<polled, written, queue, sock, rd, delivered, exited>>

\* The process exits at any point; what is in the socket stays there.
Exit ==
    /\ MayExit /\ ~ exited
    /\ exited' = TRUE
    /\ UNCHANGED <<polled, writeVars, sock, rd, delivered>>

-----------------------------------------------------------------------------
(* The reading end.                                                          *)

Reading(step, want, header) == [step |-> step, want |-> want, buf |-> <<>>, header |-> header]
Filled(buf) == [step |-> rd.step, want |-> rd.want, buf |-> buf, header |-> rd.header]

\* The event loop calls OnFdReadable when bytes wait, and at the end of the file.
OnFdReadable ==
    /\ "reader" \in polled /\ ~ Broken
    /\ rd = RdIdle
    /\ sock # <<>> \/ exited
    /\ rd' = Reading("header", HeaderLen, None)
    /\ UNCHANGED <<polled, writeVars, sock, delivered, exited>>

\* ReadHeader and ReadBody use the buffer whatever Recvn has returned.  What Recvn has not
\* filled is uninitialized, so a short header announces any length.
ReadHeader(buf) ==
    IF \E m \in Proto : buf = Header(m)
      THEN \E m \in Proto : /\ buf = Header(m)
                            /\ rd' = Reading("body", contentLen[m] % LenMod, m)
      ELSE \E len \in 0 .. LenMod - 1 : rd' = Reading("body", len, None)

\* set_content, then OnChannelMessage.
ReadBody(buf) ==
    /\ rd' = RdIdle
    /\ delivered' = Append(delivered, [header |-> rd.header, content |-> buf])

UseBuffer(buf) ==
    \/ rd.step = "header" /\ ReadHeader(buf) /\ UNCHANGED delivered
    \/ rd.step = "body" /\ ReadBody(buf)

\* Recvn calls recv() until the buffer is full, ...
Recv ==
    LET left == rd.want - Len(rd.buf)
        r    == IF left < Len(sock) THEN left ELSE Len(sock)
        buf  == rd.buf \o SubSeq(sock, 1, r)
    IN  /\ rd # RdIdle
        /\ r > 0 \/ left = 0
        /\ sock' = SubSeq(sock, r + 1, Len(sock))
        /\ IF r = left
             THEN UseBuffer(buf)
             ELSE rd' = Filled(buf) /\ UNCHANGED delivered
        /\ UNCHANGED <<polled, writeVars, exited>>

\* ... or a recv() finds nothing: EAGAIN, or the end of the file.
RecvNothing ==
    /\ rd # RdIdle
    /\ sock = <<>> /\ Len(rd.buf) < rd.want
    /\ UseBuffer(rd.buf)
    /\ UNCHANGED <<polled, writeVars, sock, exited>>

-----------------------------------------------------------------------------
Next ==
    \/ \E end \in {"writer", "reader"} : Start(end)
    \/ \E m \in Proto : Write(m)
    \/ OnFdWriteable
    \/ Send
    \/ GiveUp
    \/ Exit
    \/ OnFdReadable
    \/ Recv
    \/ RecvNothing

\* The controllers call Start right after they create a channel; the event loop calls back
\* as long as the socket is ready, and runs each callback to its end.
Fairness ==
    /\ \A end \in {"writer", "reader"} : WF_vars(Start(end))
    /\ WF_vars(OnFdWriteable) /\ WF_vars(Send) /\ WF_vars(GiveUp)
    /\ WF_vars(OnFdReadable) /\ WF_vars(Recv) /\ WF_vars(RecvNothing)

Spec == Init /\ [][Next]_vars
FairSpec == Spec /\ Fairness

=============================================================================
