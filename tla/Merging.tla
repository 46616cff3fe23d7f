-------------------------------- MODULE Merging --------------------------------
(***************************************************************************)
(* The inductive invariants behind PeerKnown, TwoEnds, LinkStable,         *)
(* Addressed, DeliveredToPeer, AtMostOnce, ReservedOnce and                *)
(* CrashOnlyByTornWrite: what a process knows of its peers, the three      *)
(* states of a pair of ports, what every request and answer on its way     *)
(* stands for, and that each request and each message is in one place.     *)
(* They hold for any invitations, repeated and mutual ones included,       *)
(* except KeptInv (InvitedOnce).                                           *)
(***************************************************************************)
EXTENDS Handshake

-----------------------------------------------------------------------------
(* Peers.                                                                    *)

\* n can send to m.  Nobody is ever forgotten as a peer (DropPeer never runs).
IsPeer(n, m) == m \in Node \ {n} /\ peers[<<n, m>>] # None

\* A peer is at the other end of the channel stored for it.
PeersAreEnds ==
    \A n \in Node, k \in NodeName :
        LET i == peers[<<n, k>>] IN i # None => <<i, n>> \in End /\ k = Other(i, n)

\* remote_node_name_ is the process at the other end, and a peer, unless AddPeer follows.
RemoteIsPeer(i, n) ==
    remote[<<i, n>>] \in Node =>
        /\ remote[<<i, n>>] = Other(i, n)
        /\ \/ IsPeer(n, Other(i, n))
           \/ io[n].step = "add_peer" /\ io[n].inviter = Other(i, n)

\* The invitee knows the inviter's name before the inviter hears of it.
InviteeKnows(i) ==
    ToInviter(i) # <<>> \/ remote[<<i, inviterOf[i]>>] = inviteeOf[i]
        => remote[<<i, inviteeOf[i]>>] = inviterOf[i]

PeersInv ==
    /\ PeersAreEnds
    /\ \A e \in End : RemoteIsPeer(e[1], e[2])
    /\ \A i \in Inv : InviteeKnows(i)

-----------------------------------------------------------------------------
(* Ports.  Of a pair only port0 is ever pointed elsewhere, and port1 is      *)
(* erased in the step that begins this.                                      *)

\* q is the end of the pipe that its process n has extracted under a name.
Extracted(q, n, name) ==
    /\ q \in Port /\ q[2] = 0 /\ q[1] \in made
    /\ Owner(q) = n /\ offeredBy[q] = None /\ nameOf[q] = name

\* p is the inviter's end of a pipe, and q one that the invitee has extracted by its name.
Match(p, q) ==
    /\ p \in Port /\ p[2] = 0 /\ p[1] \in made /\ offeredBy[p] # None
    /\ Extracted(q, inviteeOf[offeredBy[p]], nameOf[p])

Points(p, q) == peerNode[p] = Owner(q) /\ peerPort[p] = q

Fresh(c) ==
    \A p \in {Port0(c), Port1(c)} :
        p \notin ports /\ peerNode[p] = None /\ peerPort[p] = None /\ offeredBy[p] = None

Paired(c) ==
    /\ Port1(c) \in ports
    /\ Points(Port0(c), Port1(c))

\* Between the two stores of MergePorts, while the IO thread is there.
Half(c) ==
    LET s == io[callNode[c]]
    IN  /\ Port1(c) \notin ports
        /\ s.step = "store_port" /\ s.local = Port0(c)
        /\ peerNode[Port0(c)] = s.node /\ peerPort[Port0(c)] = Port1(c)

\* An end on the inviter's side is joined first, the other one when the answer is there.
Joined(c) ==
    LET p == Port0(c)
        q == peerPort[p]
    IN  /\ Port1(c) \notin ports
        /\ Points(p, q) /\ IsPeer(callNode[c], Owner(q))
        /\ IF offeredBy[p] # None THEN Match(p, q) ELSE Match(q, p) /\ Points(q, p)

PairInv(c) ==
    IF c \notin made THEN Fresh(c)
    ELSE /\ Port0(c) \in ports /\ Points(Port1(c), Port0(c))
         /\ Paired(c) \/ Half(c) \/ Joined(c)

OfferInv(c) ==
    LET i == offeredBy[Port0(c)]
    IN  /\ offeredBy[Port1(c)] = i
        /\ i # None => /\ inviterOf[i] = callNode[c]
                       /\ nameOf[Port0(c)] \in Name /\ nameOf[Port1(c)] = nameOf[Port0(c)]

\* A port that waits to be extracted from invitation i under a name.
Waits(p, i, name) ==
    /\ p \in Port /\ p[2] = 1 /\ p[1] \in made
    /\ offeredBy[p] = i /\ nameOf[p] = name
    /\ p \in ports /\ p \notin pipes

AttachedInv ==
    \A i \in Inv, name \in Name, p \in Port : attached[<<i, name>>] = p => Waits(p, i, name)

\* p is reserved for invitation i, under its temporary name or under the invitee's, and
\* neither the dispatcher nor the other entry has it too.
ReservedFor(p, i, n, k, name) ==
    /\ Waits(p, i, name)
    /\ inviterOf[i] = n /\ k \in {i, inviteeOf[i]}
    /\ attached[<<i, name>>] # p
    /\ k = i => ReservedPort(n, inviteeOf[i], name) # p

ReservedInv ==
    \A n \in Node, k \in NodeName, name \in Name, p \in Port :
        ReservedPort(n, k, name) = p => \E i \in Inv : ReservedFor(p, i, n, k, name)

-----------------------------------------------------------------------------
(* What the IO threads and the channels carry.                               *)

\* The two stores of MergePorts and the answer, on either side.
IoInv(n) ==
    LET s == io[n]
    IN  /\ s.step = "store_port" =>
             /\ s.port \in Port /\ s.local[1] \in made /\ Half(s.local[1])
             /\ Owner(s.local) = n /\ s.local[2] = 0
             /\ s.node = Owner(s.port) /\ IsPeer(n, s.node)
             /\ IF s.respond THEN Match(s.local, s.port)
                             ELSE Match(s.port, s.local) /\ Points(s.port, s.local)
        /\ s.step = "respond" =>
             /\ Match(s.local, s.port) /\ Points(s.local, s.port)
             /\ Owner(s.local) = n
             /\ s.node = Owner(s.port) /\ IsPeer(n, s.node)

MessageInv(i, n, m) ==
    /\ m.type = "RequestPortMerge" => Extracted(m.connector, Other(i, n), m.name)
    /\ m.type = "ResponsePortMerge" =>
         /\ Match(m.port, m.connector) /\ Points(m.port, m.connector)
         /\ Owner(m.connector) = n /\ Owner(m.port) = Other(i, n)

ChanInv == \A e \in End : \A k \in 1 .. Len(chan[e]) : MessageInv(e[1], e[2], chan[e][k])

\* Requests on the extracting process.
RequestInv(n) ==
    /\ \A k \in 1 .. Len(pendingMerges[n]) :
         Extracted(pendingMerges[n][k][2], n, pendingMerges[n][k][1])
    /\ io[n].step = "flush" => \A k \in 1 .. Len(io[n].merges) :
         Extracted(io[n].merges[k][2], n, io[n].merges[k][1])
    /\ app[n].step = "request" => Extracted(app[n].port, n, app[n].name)

\* The first entry of a pair in peer_port_maps_ is the pair itself.
PeerMapInv == \A e \in peerMap : e[1] = e[2] => e[4] = Sibling(e[3])

\* The application has handles, and writes, for ports that were made.
PipesInv ==
    /\ \A p \in pipes : p[1] \in made
    /\ \A n \in Node : app[n].step = "write" => app[n].from[1] \in made /\ Owner(app[n].from) = n

NothingPending == \A e \in Node \X NodeName : pendingPeerMsgs[e] = <<>>

PortsInv ==
    /\ \A c \in Call : PairInv(c) /\ OfferInv(c)
    /\ AttachedInv /\ ReservedInv
    /\ \A n \in Node : IoInv(n) /\ RequestInv(n)
    /\ ChanInv /\ PeerMapInv /\ PipesInv /\ NothingPending

-----------------------------------------------------------------------------
(* No attached port is lost, while no process invites another one twice.     *)

InvitedOnce ==
    \A i, j \in Inv : inviterOf[i] = inviterOf[j] /\ inviteeOf[i] = inviteeOf[j] => i = j

\* The temporary entry is there when the offer is sent, the invitee's when it is answered.
KeysInv ==
    \A i \in Inv :
        LET n == inviterOf[i]
            b == inviteeOf[i]
        IN  /\ reserved[<<n, i>>] # None => remote[<<i, n>>] # None
            /\ reserved[<<n, b>>] # None => remote[<<i, n>>] = b

\* A port that was attached is somewhere, and what its own process has extracted is not
\* merged.
SomePlace(c) ==
    LET p    == Port1(c)
        i    == offeredBy[p]
        name == nameOf[p]
    IN  c \in made /\ i # None =>
            /\ \/ attached[<<i, name>>] = p
               \/ \E k \in {i, inviteeOf[i]} : ReservedPort(inviterOf[i], k, name) = p
               \/ p \in pipes
               \/ p \notin ports
            /\ p \in pipes => p \in ports

KeptInv == KeysInv /\ \A c \in Call : SomePlace(c)

-----------------------------------------------------------------------------
(* Each request is made once.                                                *)

AsksInApp(n, q) == app[n].step = "request" /\ app[n].port = q
AsksInPending(n, k, q) == k \in 1 .. Len(pendingMerges[n]) /\ pendingMerges[n][k][2] = q
AsksInFlush(n, k, q) ==
    io[n].step = "flush" /\ k \in 1 .. Len(io[n].merges) /\ io[n].merges[k][2] = q
AsksInChan(e, k, q) ==
    /\ k \in 1 .. Len(chan[e])
    /\ chan[e][k].type = "RequestPortMerge" /\ chan[e][k].connector = q

\* The request has been granted: p is, or is about to be, pointed at q.
Granted(p, q) ==
    \/ offeredBy[p] # None /\ Points(p, q)
    \/ LET s == io[Owner(p)]
       IN s.step = "store_port" /\ s.respond /\ s.local = p /\ s.port = q

\* A request for the peer of q is in one place, or has been granted to one port.
AskedOnce(q) ==
    LET n == Owner(q)
    IN  /\ \A k, l \in Nat : AsksInPending(n, k, q) /\ AsksInPending(n, l, q) => k = l
        /\ \A k, l \in Nat : AsksInFlush(n, k, q) /\ AsksInFlush(n, l, q) => k = l
        /\ \A e, f \in End, k, l \in Nat :
             AsksInChan(e, k, q) /\ AsksInChan(f, l, q) => e = f /\ k = l
        /\ \A p, r \in Port : Granted(p, q) /\ Granted(r, q) => p = r
        /\ \A k \in Nat : AsksInPending(n, k, q) =>
             /\ ~ AsksInApp(n, q)
             /\ \A l \in Nat : ~ AsksInFlush(n, l, q)
             /\ \A f \in End, l \in Nat : ~ AsksInChan(f, l, q)
             /\ \A p \in Port : ~ Granted(p, q)
        /\ \A k \in Nat : AsksInFlush(n, k, q) =>
             /\ ~ AsksInApp(n, q)
             /\ \A f \in End, l \in Nat : ~ AsksInChan(f, l, q)
             /\ \A p \in Port : ~ Granted(p, q)
        /\ AsksInApp(n, q) =>
             /\ \A f \in End, l \in Nat : ~ AsksInChan(f, l, q)
             /\ \A p \in Port : ~ Granted(p, q)
        /\ \A e \in End, k \in Nat : AsksInChan(e, k, q) =>
             \A p \in Port : ~ Granted(p, q)

RequestsInv == \A q \in Port : q[2] = 0 /\ offeredBy[q] = None => AskedOnce(q)

-----------------------------------------------------------------------------
(* Each granted request is answered once, and what a handler needs has not  *)
(* been destroyed.                                                           *)

AnswersInChan(e, k, q) ==
    /\ k \in 1 .. Len(chan[e])
    /\ chan[e][k].type = "ResponsePortMerge" /\ chan[e][k].connector = q
AnswersInIo(n, q) ==
    LET s == io[n]
    IN  /\ s.step = "respond" \/ (s.step = "store_port" /\ s.respond)
        /\ s.port = q

\* The answer to the request for the peer of q is in one place, and the pair of q is
\* whole until it is taken.
AnsweredOnce(q) ==
    /\ \A n, o \in Node : AnswersInIo(n, q) /\ AnswersInIo(o, q) => n = o
    /\ \A e, f \in End, k, l \in Nat :
         AnswersInChan(e, k, q) /\ AnswersInChan(f, l, q) => e = f /\ k = l
    /\ \A n \in Node : AnswersInIo(n, q) =>
         /\ Sibling(q) \in ports
         /\ \A e \in End, k \in Nat : ~ AnswersInChan(e, k, q)
    /\ \A e \in End, k \in Nat : AnswersInChan(e, k, q) => Sibling(q) \in ports

\* The entry that MergePortsResponse looks a connector's peer up in.
WholePairs ==
    \A c \in Call : Port1(c) \in ports =>
        <<callNode[c], callNode[c], Port0(c), Port1(c)>> \in peerMap

AnswersInv == WholePairs /\ \A q \in Port : AnsweredOnce(q)

\* A process that knows an inviter, or a channel to one, has accepted an invitation, and
\* the handling of an offer goes on with the inviter known, unless a second one is accepted.
Joining(n) ==
    /\ inviterName[n] # None \/ inviterChan[n] # None =>
         \E i \in accepted : inviteeOf[i] = n
    /\ io[n].step \in {"accept", "add_peer", "take", "flush"} =>
         inviterName[n] # None \/ AcceptedTwo(n)

JoiningInv == \A n \in Node : Joining(n)

\* No process is invited twice, and none invites its inviter.
OneInviter ==
    /\ \A i, j \in Inv : inviteeOf[i] = inviteeOf[j] => i = j
    /\ \A i, j \in Inv : ~ (inviterOf[i] = inviteeOf[j] /\ inviteeOf[i] = inviterOf[j])

-----------------------------------------------------------------------------
(* User messages.                                                            *)

WritingInv(n) ==
    LET w == app[n]
    IN  w.step = "write" =>
          written[w.data] = w.from /\ w.to \in {peerPort[w.from], Sibling(w.from)}

\* What was read, or waits to be read, at p was written at the end that points to p.
ArrivedInv(m, p) ==
    got[m] = p \/ m \in Queued(p) =>
        written[m] \in Port /\ Linked(written[m]) /\ peerPort[written[m]] = p

\* No process sends a message to itself.
AwayInv ==
    \A e \in End : \A m \in InFlight(e[1], e[2]) : m.type = "UserMessage" => Owner(m.from) # e[2]

MessagesInv ==
    /\ \A n \in Node : WritingInv(n)
    /\ Addressed /\ AwayInv
    /\ \A m \in Msg, p \in Port : ArrivedInv(m, p)

Writing(n, m) == app[n].step = "write" /\ app[n].data = m
Flying(e, k, m) ==
    k \in 1 .. Len(chan[e]) /\ chan[e][k].type = "UserMessage" /\ chan[e][k].data = m
Queueing(p, k, m) == k \in 1 .. Len(queue[p]) /\ queue[p][k] = m

\* m is in one place: with its writer, in a channel, in a queue, or with its reader.
InOnePlace(m) ==
    /\ \A n, o \in Node : Writing(n, m) /\ Writing(o, m) => n = o
    /\ \A e, f \in End, k, l \in Nat : Flying(e, k, m) /\ Flying(f, l, m) => e = f /\ k = l
    /\ \A p, q \in Port, k, l \in Nat : Queueing(p, k, m) /\ Queueing(q, l, m) => p = q /\ k = l
    /\ \A n \in Node : Writing(n, m) =>
         /\ \A e \in End, k \in Nat : ~ Flying(e, k, m)
         /\ \A p \in Port, k \in Nat : ~ Queueing(p, k, m)
         /\ got[m] = None
    /\ \A e \in End, k \in Nat : Flying(e, k, m) =>
         (\A p \in Port, l \in Nat : ~ Queueing(p, l, m)) /\ got[m] = None
    /\ \A p \in Port, k \in Nat : Queueing(p, k, m) => got[m] = None
    /\ written[m] = None =>
         /\ \A n \in Node : ~ Writing(n, m)
         /\ \A e \in End, k \in Nat : ~ Flying(e, k, m)
         /\ \A p \in Port, k \in Nat : ~ Queueing(p, k, m)
         /\ got[m] = None

PlacesInv == \A m \in Msg : InOnePlace(m)

=============================================================================
