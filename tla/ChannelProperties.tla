--------------------------- MODULE ChannelProperties ---------------------------
(***************************************************************************)
(* What one direction of a channel promises: all of it when the socket     *)
(* takes every protocol in one piece and never fills up, less of it        *)
(* otherwise.                                                              *)
(***************************************************************************)
EXTENDS ChannelPosix

Headers == [k \in 1 .. Len(delivered) |->
               IF Intact(delivered[k]) THEN delivered[k].header ELSE None]

Fifo == INSTANCE MessageFifo WITH delivered <- Headers

\* Queue, batch, socket and Recvn together are the FIFO that NodeController takes a channel
\* for, as long as no send() or recv() is split.
ImplementsFifo == Fifo!Spec

\* OnFdWriteable and OnFdReadable bring every protocol that Write queues to the delegate.
AllDelivered ==
    \A m \in Proto : m \in ToSet(written) ~> m \in ToSet(Headers)

\* However send() and recv() are split, and whatever is dropped: until the stream is out of
\* step the delegate gets protocols in the order of the Writes, none of them twice.
InOrder ==
    \A j, k \in 1 .. Len(Headers) :
        j < k /\ Headers[k] # None =>
            \E u, v \in 1 .. Len(written) :
                u < v /\ written[u] = Headers[j] /\ written[v] = Headers[k]

\* "it will be [...] deserialized when reading data completely" (channel.h:19-20): what
\* the delegate gets is a whole protocol.
ReadComplete == ~ Broken

\* "4 bytes from 4th to 8th is content length" (protocol.h:50): the content that is read
\* has the length its header announces.
LengthKept ==
    \A k \in 1 .. Len(delivered) : delivered[k].header # None =>
        Len(delivered[k].content) = contentLen[delivered[k].header]

=============================================================================
