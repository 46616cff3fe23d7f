---------------------------- MODULE CoreProperties ----------------------------
(***************************************************************************)
(* What the invitation handshake, the port merge and the message pipes     *)
(* promise, stated over the state of Core.                                 *)
(***************************************************************************)
EXTENDS Core, FiniteSets

\* The types of the state of every layer: ports, controllers and applications.
TypeOK == PortsTypeOK /\ NodeTypeOK /\ CoreTypeOK

-----------------------------------------------------------------------------
\* p has been pointed at a port of another process, by both stores of MergePorts.
Linked(p) == peerNode[p] \notin {None, Owner(p)} /\ peerPort[p] # Sibling(p)

\* Everything a channel carries to n, as a set.
InFlight(i, n) == { chan[<<i, n>>][k] : k \in 1 .. Len(chan[<<i, n>>]) }
Queued(p) == { queue[p][k] : k \in 1 .. Len(queue[p]) }

-----------------------------------------------------------------------------
(* Port merging.                                                             *)

\* A merged pipe has exactly two ends.  A port that MergePorts has pointed at another
\* process names a registered port of that process, got under the same name; that port, if
\* it is merged already, points back; no third port points at it; and a port attached to an
\* invitation goes to the process that accepts this one.
TwoEnds ==
    \A p \in Port : Linked(p) =>
        LET q == peerPort[p]
        IN  /\ Registered(peerNode[p], q)
            /\ nameOf[q] = nameOf[p]
            /\ offeredBy[p] # None => peerNode[p] = inviteeOf[offeredBy[p]]
            /\ Linked(q) => peerPort[q] = p
            /\ \A r \in Port : Linked(r) /\ peerPort[r] = q => r = p

\* UpdatePortPeerAddress moves an end once: no step changes the address of a merged port.
LinkStable ==
    [][\A p \in Port : Linked(p) => peerNode'[p] = peerNode[p] /\ peerPort'[p] = peerPort[p]]_vars

\* OnRequestPortMerge and OnAcceptInvitation lose no attached port and share none: a port
\* attached under a name is still attached, reserved under one key, extracted by its own
\* process, or used up by a merge.
ReservedOnce ==
    \A c \in Call : offeredBy[Port1(c)] # None =>
        LET p == Port1(c)
        IN  Cardinality(
                { <<"attached", e>> : e \in { e \in Inv \X Name : attached[e] = p } }
                \cup { <<"reserved", e>> : e \in { e \in Node \X NodeName :
                                     \E m \in Name : ReservedPort(e[1], e[2], m) = p } }
                \cup { <<"extracted", q>> : q \in pipes \cap {p} }
                \cup { <<"merged", q>> : q \in {p} \ ports }) = 1

\* "Swap the temporary node name's reserved ports into an entry keyed by the real node name"
\* (node_controller.cc:235): when the temporary entry goes, its ports are in the other one.
ReservedMoved ==
    [][\A i \in Inv :
         LET n == inviterOf[i]
             b == inviteeOf[i]
         IN  reserved[<<n, i>>] # None /\ reserved'[<<n, i>>] = None =>
               \A m \in Name : ReservedPort(n, i, m) # None =>
                 /\ reserved'[<<n, b>>] # None
                 /\ reserved'[<<n, b>>][m] = ReservedPort(n, i, m)]_vars

\* HandlePendingMergePort misses no request: one that waits while the inviter's channel is
\* known is about to be taken by the IO thread.
NoMergeForgotten ==
    \A n \in Node : crashed[n] = "no" /\ pendingMerges[n] # <<>> /\ GetInviterChannel(n) # None
        => io[n].step \in {"accept", "add_peer", "take"}

\* The inviter meets nothing from an invitee before its AcceptInvitation, and that message
\* only once: no port is merged into the temporary node name, and DropPeer never runs.
AcceptFirst ==
    \A i \in Inv :
        LET n == inviterOf[i]
        IN  /\ remote[<<i, n>>] = i /\ chan[<<i, n>>] # <<>>
                 => Head(chan[<<i, n>>]).type = "AcceptInvitation"
            /\ \A k \in 1 .. Len(chan[<<i, n>>]) : chan[<<i, n>>][k].type = "AcceptInvitation"
                 => k = 1 /\ remote[<<i, n>>] = i /\ chan[<<i, n>>][k].token = i

\* pending_peer_messages_ is never needed: a port pointed at another process is pointed at
\* a peer, so SendPeerEvent finds its channel.
PeerKnown ==
    /\ \A p \in Port : peerNode[p] \in {None, Owner(p)} \/ peers[<<Owner(p), peerNode[p]>>] # None
    /\ \A e \in Node \X NodeName : pendingPeerMsgs[e] = <<>>

\* Null channels, null port references and destroyed channels are not met: what the
\* handlers dereference without a test is there.
CrashOnlyByTornWrite == \A n \in Node : crashed[n] \in {"no", "unknown_port"}

\* n has accepted a second invitation, or is at the end of two channels in use with the same
\* process, which has been invited again or has invited its inviter.
AcceptedTwo(n) == \E i, j \in accepted : i # j /\ inviteeOf[i] = n /\ inviteeOf[j] = n
TwoChannels(n) ==
    \E i, j \in Inv :
        /\ i # j /\ <<i, n>> \in End /\ <<j, n>> \in End /\ Other(i, n) = Other(j, n)
        /\ remote[<<i, n>>] # None /\ remote[<<j, n>>] # None

\* For any invitations: the inviter channel is missing (node_controller.cc:281) only where a
\* second invitation was accepted, a channel loses its last reference only there and at a
\* process invited again (node_controller.cc:53), and a PortRef without a port
\* (ports/node.cc:208) is never met.
CrashOnlyBySecond ==
    \A n \in Node :
        /\ crashed[n] # "null_port_ref"
        /\ crashed[n] = "null_channel" => AcceptedTwo(n)
        /\ crashed[n] = "channel_destroyed" => AcceptedTwo(n) \/ TwoChannels(n)

-----------------------------------------------------------------------------
(* Messages.                                                                 *)

\* A message read, or waiting to be read, at a port was written to the port's other end.
DeliveredToPeer ==
    \A m \in Msg, p \in Port : got[m] = p \/ m \in Queued(p) =>
        /\ Linked(written[m]) /\ peerPort[written[m]] = p
        /\ Linked(p) => peerPort[p] = written[m]

\* A message on its way is addressed to the other end of the port it was written to, or to
\* that port's old peer when SendUserMessageInternal read the address during the merge.
Addressed ==
    \A e \in End : \A m \in InFlight(e[1], e[2]) : m.type = "UserMessage" =>
        /\ written[m.data] = m.from
        /\ peerNode[m.from] = e[2]
        /\ m.to \in {peerPort[m.from], Sibling(m.from)}

\* The places a message can be in: the writing thread, a channel, a queue, the reader.
WritingPlaces(m) ==
    { <<"writing", n>> : n \in { n \in Node : app[n].step = "write" /\ app[n].data = m } }
FlyingPlaces(m) ==
    UNION { { <<"flying", e, k>> : k \in { k \in 1 .. Len(chan[e]) :
                chan[e][k].type = "UserMessage" /\ chan[e][k].data = m } } : e \in End }
QueuedPlaces(m) ==
    UNION { { <<"queued", p, k>> : k \in { k \in 1 .. Len(queue[p]) :
                queue[p][k] = m } } : p \in Port }
ReadPlaces(m) == { <<"read", p>> : p \in { p \in Port : got[m] = p } }

Places(m) == WritingPlaces(m) \cup FlyingPlaces(m) \cup QueuedPlaces(m) \cup ReadPlaces(m)

\* No message is delivered or read twice.
AtMostOnce == \A m \in Msg : Cardinality(Places(m)) <= 1

-----------------------------------------------------------------------------
(* What must eventually happen, under FairSpec.                              *)

SomeCrash == \E n \in Node : crashed[n] # "no"

\* The two ends of a pipe attached to i under a name are connected to each other.
Connected(i, name) ==
    \E p \in Port : LET q == peerPort[p]
                    IN  /\ offeredBy[p] = i /\ nameOf[p] = name
                        /\ Linked(p) /\ Linked(q) /\ peerPort[q] = p

\* However the extraction and the handshake interleave, a pipe that the invitee has asked
\* for while the inviter still reserves it gets both its ends connected, unless a process
\* dies of a torn write.
MergeCompletes ==
    \A i \in Inv, name \in Name :
        ( /\ i \in accepted
          /\ \E k \in {i, inviteeOf[i]} : ReservedPort(inviterOf[i], k, name) # None
          /\ \E q \in pipes : Owner(q) = inviteeOf[i] /\ nameOf[q] = name /\ offeredBy[q] = None )
        ~> (Connected(i, name) \/ SomeCrash)

\* A message whose writer read the address of the merged port reaches the queue of the
\* other end, or its reader.
Delivered ==
    \A m \in Msg, n \in Node :
        (AppAt(n, "write") /\ app[n].data = m /\ Owner(app[n].to) # n)
        ~> ((\E p \in Port : m \in Queued(p) \/ got[m] = p) \/ SomeCrash)

-----------------------------------------------------------------------------
(* Core implements MessagePipe.                                              *)

\* An end is connected when both stores of MergePorts are done.
OtherEnd(p) == IF Linked(p) THEN peerPort[p] ELSE None

\* m is on its way to the other end of the port it was written to.
OnItsWay(m) ==
    \E e \in End : \E u \in InFlight(e[1], e[2]) :
        u.type = "UserMessage" /\ u.data = m /\ Linked(u.from) /\ u.to = peerPort[u.from]

BeingWritten(m) == \E n \in Node : app[n].step = "write" /\ app[n].data = m

\* A message is written when its writer has read both parts of the address.
MsgState(m) ==
    IF written[m] = None \/ BeingWritten(m) THEN "new"
    ELSE IF got[m] # None /\ got[m] = OtherEnd(written[m]) THEN "read"
    ELSE IF Linked(written[m]) /\ m \in Queued(peerPort[written[m]]) THEN "ready"
    ELSE IF OnItsWay(m) THEN "sent"
    ELSE "lost"

PipeOther == [p \in Port |-> OtherEnd(p)]
PipeState == [m \in Msg |-> MsgState(m)]
PipeFrom == [m \in Msg |-> IF MsgState(m) = "new" THEN None ELSE written[m]]

Pipe == INSTANCE MessagePipe WITH other <- PipeOther, state <- PipeState, from <- PipeFrom

\* Threads, sockets, handshake and port merges together behave as a message pipe: the ends
\* are connected pairwise and for good, a message is read at most once, where it belongs.
ImplementsPipe == Pipe!Spec

=============================================================================
