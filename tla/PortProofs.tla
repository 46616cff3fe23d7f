------------------------------- MODULE PortProofs -------------------------------
(***************************************************************************)
(* What a process knows of its peers, and the states of its pairs of       *)
(* ports: PeersInv and PortsInv hold for any processes, invitations,       *)
(* extractions and messages.  PeerKnown and LinkStable follow.             *)
(***************************************************************************)
EXTENDS Merging, HandshakeProofs

-----------------------------------------------------------------------------
(* Channels, message by message.                                             *)

LEMMA EndPair ==
    ASSUME NEW i \in Inv
    PROVE  /\ <<i, inviterOf[i]>> \in End /\ <<i, inviteeOf[i]>> \in End
           /\ \A n \in Node : <<i, n>> \in End =>
                /\ n \in {inviterOf[i], inviteeOf[i]}
                /\ Other(i, n) \in Node \ {n} /\ Other(i, Other(i, n)) = n
                /\ <<i, Other(i, n)>> \in End
BY InvFacts DEF End, Other

\* Whoever may use a channel is one of its ends, and its handshake has come far enough.
LEMMA CanUseFacts ==
    ASSUME TypeOK, HandshakeInv, NEW n \in Node, NEW i \in Inv, CanUse(n, i)
    PROVE  /\ <<i, n>> \in End /\ <<i, Other(i, n)>> \in End /\ Other(i, n) \in Node \ {n}
           /\ Done(i) \/ (Answered(i) /\ n = inviteeOf[i])
<1>1. n \in {inviterOf[i], inviteeOf[i]} /\ Phase(i)
  BY DEF HandshakeInv, EndsOnly
<1>2. <<i, n>> \in End
  BY <1>1 DEF End
<1>3. Done(i) \/ (Answered(i) /\ n = inviteeOf[i])
  BY <1>1 DEF Phase, Unsent, Offered, Answering, Answered, Unused
<1> QED
  BY <1>2, <1>3, EndPair

\* Sending adds one message at the back of one channel.
LEMMA SentAt ==
    ASSUME TypeOK, NEW e \in End, NEW m \in Message,
           chan' = [chan EXCEPT ![e] = Append(@, m)]
    PROVE  /\ chan'[e] = Append(chan[e], m) /\ \A f \in End : f # e => chan'[f] = chan[f]
           /\ Len(chan[e]) \in Nat
           /\ \A f \in End : \A k \in 1 .. Len(chan'[f]) :
                \/ k \in 1 .. Len(chan[f]) /\ chan'[f][k] = chan[f][k]
                \/ f = e /\ k = Len(chan[e]) + 1 /\ chan'[f][k] = m
<1>1. chan \in [Inv \X Node -> Seq(Message)] /\ \A f \in End : f \in Inv \X Node
  BY DEF TypeOK, NodeTypeOK, End
<1>2. /\ chan'[e] = Append(chan[e], m) /\ chan[e] \in Seq(Message)
      /\ \A f \in End : f # e => chan'[f] = chan[f]
  BY <1>1
<1>3. /\ Len(chan[e]) \in Nat /\ Len(chan'[e]) = Len(chan[e]) + 1
      /\ chan'[e][Len(chan[e]) + 1] = m
      /\ \A k \in 1 .. Len(chan[e]) : chan'[e][k] = chan[e][k]
  BY <1>2, AppendProperties, LenProperties
<1>4. ASSUME NEW f \in End, NEW k \in 1 .. Len(chan'[f])
      PROVE  \/ k \in 1 .. Len(chan[f]) /\ chan'[f][k] = chan[f][k]
             \/ f = e /\ k = Len(chan[e]) + 1 /\ chan'[f][k] = m
  <2>1. CASE f # e
    BY <1>2, <2>1
  <2>2. CASE f = e
    BY <1>3, <2>2
  <2> QED
    BY <2>1, <2>2
<1> QED
  BY <1>2, <1>3, <1>4

\* Taking a message moves the others of its channel up by one.
LEMMA TookAt ==
    ASSUME TypeOK, NEW i \in Inv, NEW n \in Node, <<i, n>> \in End, chan[<<i, n>>] # <<>>,
           Pop(i, n)
    PROVE  /\ Head(chan[<<i, n>>]) = chan[<<i, n>>][1] /\ 1 \in 1 .. Len(chan[<<i, n>>])
           /\ Head(chan[<<i, n>>]) \in Message
           /\ \A f \in End : f # <<i, n>> => chan'[f] = chan[f]
           /\ \A k \in 1 .. Len(chan'[<<i, n>>]) :
                k + 1 \in 1 .. Len(chan[<<i, n>>]) /\ chan'[<<i, n>>][k] = chan[<<i, n>>][k + 1]
<1> DEFINE s == chan[<<i, n>>]
<1>1. chan \in [Inv \X Node -> Seq(Message)] /\ \A f \in End : f \in Inv \X Node
  BY DEF TypeOK, NodeTypeOK, End
<1>2. /\ chan'[<<i, n>>] = Tail(s) /\ s \in Seq(Message)
      /\ \A f \in End : f # <<i, n>> => chan'[f] = chan[f]
  BY <1>1 DEF Pop, Popped
<1>3. /\ Len(s) \in Nat /\ Len(s) # 0 /\ Head(s) = s[1] /\ Head(s) \in Message
      /\ Len(Tail(s)) = Len(s) - 1 /\ \A k \in 1 .. Len(Tail(s)) : Tail(s)[k] = s[k + 1]
  BY <1>2, EmptySeq, LenProperties, HeadTailProperties
<1> HIDE DEF s
<1>4. 1 \in 1 .. Len(s) /\ \A k \in 1 .. Len(Tail(s)) : k + 1 \in 1 .. Len(s)
  BY <1>3
<1> QED
  BY <1>2, <1>3, <1>4 DEF s

-----------------------------------------------------------------------------
(* Peers.                                                                    *)

\* A message for the inviter's end needs a handshake that has come to its answer.
LEMMA SentAfterAnswer ==
    ASSUME TypeOK, HandshakeInv, NEW n \in Node, NEW i \in Inv, CanUse(n, i), NEW m,
           SendTo(i, n, m)
    PROVE  \A j \in Inv : ToInviter(j)' # <<>> => ToInviter(j) # <<>> \/ Done(j)
<1>1. <<i, Other(i, n)>> \in Inv \X Node /\ (Done(i) \/ Answered(i))
  BY CanUseFacts
<1>2. \A j \in Inv : j # i => ToInviter(j)' = ToInviter(j)
  BY <1>1, InvFacts DEF SendTo, ToInviter, TypeOK, NodeTypeOK
<1> QED
  BY <1>1, <1>2 DEF Answered

LEMMA TakenBefore ==
    ASSUME TypeOK, NEW i \in Inv, NEW n \in Node, chan[<<i, n>>] # <<>>, Pop(i, n)
    PROVE  \A j \in Inv : ToInviter(j)' # <<>> => ToInviter(j) # <<>>
BY InvFacts DEF Pop, Popped, ToInviter, TypeOK, NodeTypeOK

\* A step that changes neither peers nor names of ends.
LEMMA PeersQuiet ==
    ASSUME HandshakeInv, PeersInv, UNCHANGED <<remote, peers>>,
           \A n \in Node : io'[n] = io[n] \/ io[n].step # "add_peer",
           \A j \in Inv : ToInviter(j)' # <<>> => ToInviter(j) # <<>> \/ Done(j)
    PROVE  PeersInv'
<1>1. PeersAreEnds'
  BY DEF PeersInv, PeersAreEnds
<1>2. ASSUME NEW e \in End PROVE RemoteIsPeer(e[1], e[2])'
  <2>1. RemoteIsPeer(e[1], e[2]) /\ e[2] \in Node
    BY EndType DEF PeersInv
  <2> QED
    BY <2>1 DEF RemoteIsPeer, IsPeer
<1>3. ASSUME NEW i \in Inv PROVE InviteeKnows(i)'
  BY <1>3 DEF PeersInv, InviteeKnows, Done
<1> QED
  BY <1>1, <1>2, <1>3 DEF PeersInv

LEMMA PeersSendInvitation ==
    ASSUME TypeOK, HandshakeInv, PeersInv, NEW i \in Inv, CoreSendInvitation(i)
    PROVE  PeersInv'
<1>1. /\ remote' = [remote EXCEPT ![<<i, inviterOf[i]>>] = i]
      /\ chan' = [chan EXCEPT ![<<i, inviteeOf[i]>>] = Append(@, Offer(i))]
      /\ UNCHANGED <<peers, io>> /\ i \notin Node
  BY InvFacts, PortsAssumption DEF CoreSendInvitation, SendInvitation, SendTo, Offer
<1>2. remote \in [Inv \X Node -> NodeName] /\ chan \in [Inv \X Node -> Seq(Message)]
  BY DEF TypeOK, NodeTypeOK
<1>3. PeersAreEnds'
  BY <1>1 DEF PeersInv, PeersAreEnds
<1>4. ASSUME NEW e \in End PROVE RemoteIsPeer(e[1], e[2])'
  <2>1. RemoteIsPeer(e[1], e[2])
    BY DEF PeersInv
  <2> QED
    BY <1>1, <1>2, <2>1, EndType DEF RemoteIsPeer, IsPeer
<1>5. ASSUME NEW j \in Inv PROVE InviteeKnows(j)'
  <2>1. ToInviter(j)' = ToInviter(j)
    BY <1>1, <1>2, InvFacts DEF ToInviter
  <2>2. remote'[<<j, inviteeOf[j]>>] = remote[<<j, inviteeOf[j]>>]
    BY <1>1, <1>2, InvFacts
  <2>3. remote'[<<j, inviterOf[j]>>] = inviteeOf[j] => remote[<<j, inviterOf[j]>>] = inviteeOf[j]
    BY <1>1, <1>2, InvFacts
  <2> QED
    BY <2>1, <2>2, <2>3 DEF PeersInv, InviteeKnows
<1> QED
  BY <1>3, <1>4, <1>5 DEF PeersInv

LEMMA PeersSendAccept ==
    ASSUME TypeOK, HandshakeInv, PeersInv, NEW n \in Node, IoSendAccept(n)
    PROVE  PeersInv'
<1>1. PICK i \in Inv : i = io[n].token
  BY DEF IoSendAccept, IoAt, TypeOK, NodeTypeOK, IoState
<1>2. /\ io[n].step = "accept" /\ inviteeOf[i] = n /\ inviterOf[i] = io[n].inviter
      /\ inviterChan[n] = i
  BY <1>1 DEF IoSendAccept, IoAt, HandshakeInv, HandlesOffer
<1>3. /\ remote' = [remote EXCEPT ![<<i, n>>] = inviterOf[i]]
      /\ chan' = [chan EXCEPT ![<<i, inviterOf[i]>>] = Append(@, Answer(i))]
      /\ io'[n].step = "add_peer" /\ io'[n].inviter = inviterOf[i]
      /\ \A m \in Node \ {n} : io'[m] = io[m]
      /\ UNCHANGED peers
  BY <1>1, <1>2, InvFacts DEF IoSendAccept, SendTo, GoIo, Answer, TypeOK, NodeTypeOK
<1>4. remote \in [Inv \X Node -> NodeName] /\ chan \in [Inv \X Node -> Seq(Message)]
  BY DEF TypeOK, NodeTypeOK
<1>5. PeersAreEnds'
  BY <1>3 DEF PeersInv, PeersAreEnds
<1>6. ASSUME NEW e \in End PROVE RemoteIsPeer(e[1], e[2])'
  <2>1. RemoteIsPeer(e[1], e[2]) /\ e = <<e[1], e[2]>> /\ e[1] \in Inv /\ e[2] \in Node
    BY DEF PeersInv, End
  <2>2. CASE e = <<i, n>>
    BY <1>2, <1>3, <1>4, <2>2, InvFacts DEF RemoteIsPeer
  <2>3. CASE e # <<i, n>>
    BY <1>2, <1>3, <1>4, <2>1, <2>3 DEF RemoteIsPeer, IsPeer
  <2> QED
    BY <2>2, <2>3
<1>7. ASSUME NEW j \in Inv PROVE InviteeKnows(j)'
  <2>1. CASE j = i
    BY <1>2, <1>3, <1>4, <2>1, InvFacts DEF InviteeKnows
  <2>2. CASE j # i
    <3>1. ToInviter(j)' = ToInviter(j)
      BY <1>3, <1>4, <2>2, InvFacts DEF ToInviter
    <3> QED
      BY <1>3, <1>4, <2>2, <3>1, InvFacts DEF PeersInv, InviteeKnows
  <2> QED
    BY <2>1, <2>2
<1> QED
  BY <1>5, <1>6, <1>7 DEF PeersInv

\* AddPeer stores a channel under the name of its other end, if it stores it at all.
LEMMA PeerEnds ==
    ASSUME TypeOK, PeersInv, NEW n \in Node, NEW node \in Node, node # n, NEW i \in Inv,
           <<i, n>> \in End, node = Other(i, n), AddPeer(n, node, i)
    PROVE  /\ PeersAreEnds'
           /\ \A m, k \in Node : IsPeer(m, k) => IsPeer(m, k)'
           /\ IsPeer(n, node)'
<1>1. /\ peers \in [Node \X NodeName -> Inv \cup {None}] /\ None \notin Inv
      /\ node \in NodeName /\ Node \subseteq NodeName
  BY PortsAssumption DEF TypeOK, NodeTypeOK, NodeName
<1>2. ASSUME NEW m \in Node, NEW k \in NodeName
      PROVE  \/ peers'[<<m, k>>] = peers[<<m, k>>]
             \/ m = n /\ k = node /\ peers[<<m, k>>] = None /\ peers'[<<m, k>>] = i
  BY <1>1 DEF AddPeer
<1>3. peers'[<<n, node>>] # None
  BY <1>1 DEF AddPeer
<1>4. PeersAreEnds'
  BY <1>2 DEF PeersInv, PeersAreEnds
<1>5. \A m, k \in Node : IsPeer(m, k) => IsPeer(m, k)'
  BY <1>1, <1>2 DEF IsPeer
<1> QED
  BY <1>3, <1>4, <1>5 DEF IsPeer

LEMMA PeersAddPeer ==
    ASSUME TypeOK, HandshakeInv, PeersInv, NEW n \in Node, IoAddPeer(n)
    PROVE  PeersInv'
<1>1. PICK i \in Inv : i = io[n].token
  BY DEF IoAddPeer, IoAt, TypeOK, NodeTypeOK, IoState
<1> DEFINE a == inviterOf[i]
<1>2. /\ io[n].step = "add_peer" /\ inviteeOf[i] = n /\ a = io[n].inviter
      /\ inviterChan[n] = i /\ (Answered(i) \/ Done(i))
  BY <1>1 DEF IoAddPeer, IoAt, HandshakeInv, HandlesOffer
<1>3. /\ remote' = [remote EXCEPT ![<<i, n>>] = a]
      /\ AddPeer(n, a, i)
      /\ chan' = [chan EXCEPT ![<<i, a>>] = @ \o AddPeerFlush(n, a)]
      /\ \A m \in Node \ {n} : io'[m] = io[m]
  BY <1>1, <1>2, InvFacts DEF IoAddPeer, GoIo, TypeOK, NodeTypeOK
<1>4. /\ remote \in [Inv \X Node -> NodeName] /\ chan \in [Inv \X Node -> Seq(Message)]
      /\ a \in Node /\ a # n /\ Other(i, n) = a /\ <<i, n>> \in End
  BY <1>2, InvFacts DEF TypeOK, NodeTypeOK, End
<1>5. PeersAreEnds' /\ IsPeer(n, a)' /\ \A m, k \in Node : IsPeer(m, k) => IsPeer(m, k)'
  BY <1>3, <1>4, PeerEnds
<1>6. ASSUME NEW e \in End PROVE RemoteIsPeer(e[1], e[2])'
  <2>1. /\ RemoteIsPeer(e[1], e[2]) /\ e = <<e[1], e[2]>> /\ e[1] \in Inv /\ e[2] \in Node
        /\ Other(e[1], e[2]) \in Node
    BY EndFacts DEF PeersInv, End
  <2>2. CASE e = <<i, n>>
    BY <1>3, <1>4, <1>5, <2>2 DEF RemoteIsPeer
  <2>3. CASE e # <<i, n>>
    <3>1. remote'[e] = remote[e]
      BY <1>3, <1>4, <2>3
    <3>2. SUFFICES ASSUME remote[e] \in Node PROVE IsPeer(e[2], Other(e[1], e[2]))' \/
                   (io'[e[2]].step = "add_peer" /\ io'[e[2]].inviter = Other(e[1], e[2]))
      BY <2>1, <3>1 DEF RemoteIsPeer
    <3>3. CASE IsPeer(e[2], Other(e[1], e[2]))
      BY <1>5, <2>1, <3>3
    <3>4. CASE io[e[2]].step = "add_peer" /\ io[e[2]].inviter = Other(e[1], e[2])
      <4>1. CASE e[2] = n
        BY <1>2, <1>5, <3>4, <4>1
      <4>2. CASE e[2] # n
        BY <1>3, <2>1, <3>4, <4>2
      <4> QED
        BY <4>1, <4>2
    <3> QED
      BY <2>1, <3>2, <3>3, <3>4 DEF RemoteIsPeer
  <2> QED
    BY <2>2, <2>3
<1>7. ASSUME NEW j \in Inv PROVE InviteeKnows(j)'
  <2>1. CASE j = i
    BY <1>2, <1>3, <1>4, <2>1 DEF InviteeKnows
  <2>2. CASE j # i
    <3>1. ToInviter(j)' = ToInviter(j)
      BY <1>3, <1>4, <2>2, InvFacts DEF ToInviter
    <3> QED
      BY <1>3, <1>4, <2>2, <3>1, InvFacts DEF PeersInv, InviteeKnows
  <2> QED
    BY <2>1, <2>2
<1> QED
  BY <1>5, <1>6, <1>7 DEF PeersInv

LEMMA PeersInviterAccept ==
    ASSUME TypeOK, HandshakeInv, PeersInv, NEW i \in Inv, NEW n \in Node, <<i, n>> \in End,
           HandleAcceptInvitation(i, n)
    PROVE  PeersInv'
<1> DEFINE b == inviteeOf[i]
<1>1. /\ n = inviterOf[i] /\ Answered(i)
      /\ remote' = [remote EXCEPT ![<<i, n>>] = b]
      /\ AddPeer(n, b, i)
      /\ chan' = [Popped(i, n) EXCEPT ![<<i, b>>] = @ \o AddPeerFlush(n, b)]
      /\ UNCHANGED io
  BY InviterAcceptStep
<1>2. /\ remote \in [Inv \X Node -> NodeName] /\ chan \in [Inv \X Node -> Seq(Message)]
      /\ b \in Node /\ b # n /\ Other(i, n) = b
  BY <1>1, InvFacts DEF TypeOK, NodeTypeOK
<1>3. PeersAreEnds' /\ IsPeer(n, b)' /\ \A m, k \in Node : IsPeer(m, k) => IsPeer(m, k)'
  BY <1>1, <1>2, PeerEnds
<1>4. ASSUME NEW e \in End PROVE RemoteIsPeer(e[1], e[2])'
  <2>1. /\ RemoteIsPeer(e[1], e[2]) /\ e = <<e[1], e[2]>> /\ e[1] \in Inv /\ e[2] \in Node
        /\ Other(e[1], e[2]) \in Node
    BY EndFacts DEF PeersInv, End
  <2>2. CASE e = <<i, n>>
    BY <1>1, <1>2, <1>3, <2>2 DEF RemoteIsPeer
  <2>3. CASE e # <<i, n>>
    <3>1. remote'[e] = remote[e]
      BY <1>1, <1>2, <2>3
    <3> QED
      BY <1>1, <1>3, <2>1, <3>1 DEF RemoteIsPeer
  <2> QED
    BY <2>2, <2>3
<1>5. ASSUME NEW j \in Inv PROVE InviteeKnows(j)'
  <2>1. CASE j = i
    <3>1. remote[<<i, b>>] = n
      BY <1>1 DEF Answered, PeersInv, InviteeKnows
    <3> QED
      BY <1>1, <1>2, <2>1, <3>1 DEF InviteeKnows
  <2>2. CASE j # i
    <3>1. ToInviter(j)' = ToInviter(j)
      BY <1>1, <1>2, <2>2, InvFacts DEF ToInviter, Popped
    <3> QED
      BY <1>1, <1>2, <2>2, <3>1, InvFacts DEF PeersInv, InviteeKnows
  <2> QED
    BY <2>1, <2>2
<1> QED
  BY <1>3, <1>4, <1>5 DEF PeersInv

\* Handlers that take a message and go on with something else than an offer's answer.
LEMMA PeersHandle ==
    ASSUME TypeOK, HandshakeInv, PeersInv, NEW i \in Inv, NEW n \in Node,
           \/ HandleAcceptInvitee(i, n) \/ HandleRequestPortMerge(i, n)
           \/ HandleResponsePortMerge(i, n) \/ HandleUserMessage(i, n)
    PROVE  PeersInv'
<1>1. /\ UNCHANGED <<remote, peers>> /\ Pop(i, n) /\ io[n] = Idle /\ chan[<<i, n>>] # <<>>
  BY DEF HandleAcceptInvitee, HandleRequestPortMerge, HandleResponsePortMerge,
         HandleUserMessage, Receive
<1>2. \A m \in Node : io'[m] = io[m] \/ io[m].step # "add_peer"
  BY <1>1 DEF HandleAcceptInvitee, HandleRequestPortMerge, HandleResponsePortMerge,
         HandleUserMessage, GoIo, Idle, TypeOK, NodeTypeOK
<1> QED
  BY <1>1, <1>2, TakenBefore, PeersQuiet

\* A node goes on with its own IO thread, and nothing is sent.
LEMMA PeersContinue ==
    ASSUME TypeOK, HandshakeInv, PeersInv, NEW n \in Node, IoTakePending(n) \/ IoStorePort(n)
    PROVE  PeersInv'
<1>1. UNCHANGED <<remote, peers, chan>>
  BY DEF IoTakePending, IoStorePort
<1>2. \A m \in Node : io'[m] = io[m] \/ io[m].step # "add_peer"
  BY DEF IoTakePending, IoStorePort, IoAt, GoIo, TypeOK, NodeTypeOK
<1>3. \A j \in Inv : ToInviter(j)' = ToInviter(j)
  BY <1>1 DEF ToInviter
<1> QED
  BY <1>1, <1>2, <1>3, PeersQuiet

\* What a node sends on one of its peers' channels.
LEMMA PeersSend ==
    ASSUME TypeOK, HandshakeInv, PeersInv, NEW n \in Node,
           IoFlush(n) \/ IoRespond(n) \/ CoreSendRequest(n) \/ WriteForward(n)
    PROVE  PeersInv'
<1>1. UNCHANGED <<remote, peers>>
  BY DEF IoFlush, IoRespond, CoreSendRequest, SendRequest, WriteForward
<1>2. \A m \in Node : io'[m] = io[m] \/ io[m].step # "add_peer"
  BY DEF IoFlush, IoRespond, IoAt, GoIo, CoreSendRequest, SendRequest, WriteForward,
         TypeOK, NodeTypeOK
<1>3. CASE chan' = chan
  <2>1. \A j \in Inv : ToInviter(j)' = ToInviter(j)
    BY <1>3 DEF ToInviter
  <2> QED
    BY <1>1, <1>2, <2>1, PeersQuiet
<1>4. CASE chan' # chan
  <2>1. PICK i, m : i \in Inv /\ CanUse(n, i) /\ SendTo(i, n, m)
    <3>1. CASE IoFlush(n)
      BY <1>4, <3>1, InviterInPeers DEF IoFlush, CanUse
    <3>2. CASE IoRespond(n)
      <4>1. io[n].node \in NodeName /\ peers[<<n, io[n].node>>] # None
        BY <1>4, <3>2 DEF IoRespond, IoAt, IoState, TypeOK, NodeTypeOK
      <4>2. peers[<<n, io[n].node>>] \in Inv /\ InPeers(n, peers[<<n, io[n].node>>])
        BY <4>1 DEF InPeers, TypeOK, NodeTypeOK
      <4> QED
        BY <3>2, <4>1, <4>2 DEF IoRespond, CanUse
    <3>3. CASE CoreSendRequest(n)
      BY <3>3 DEF CoreSendRequest, SendRequest, AppAt, AppState, CanUse, TypeOK, NodeTypeOK
    <3>4. CASE WriteForward(n)
      <4>1. /\ peerNode[app[n].from] \in NodeName /\ peers[<<n, peerNode[app[n].from]>>] # None
            /\ \E m : SendTo(peers[<<n, peerNode[app[n].from]>>], n, m)
        BY <1>4, <3>4 DEF WriteForward, ForwardEvent, AppAt, AppState, TypeOK, NodeTypeOK, PortsTypeOK
      <4>2. /\ peers[<<n, peerNode[app[n].from]>>] \in Inv
            /\ InPeers(n, peers[<<n, peerNode[app[n].from]>>])
        BY <4>1 DEF InPeers, TypeOK, NodeTypeOK
      <4> QED
        BY <4>1, <4>2 DEF CanUse
    <3> QED
      BY <3>1, <3>2, <3>3, <3>4
  <2>2. \A j \in Inv : ToInviter(j)' # <<>> => ToInviter(j) # <<>> \/ Done(j)
    BY <2>1, SentAfterAnswer
  <2> QED
    BY <1>1, <1>2, <2>2, PeersQuiet
<1> QED
  BY <1>3, <1>4

LEMMA PeersCall ==
    ASSUME TypeOK, HandshakeInv, PeersInv, UNCHANGED <<remote, peers, io, chan>>
    PROVE  PeersInv'
<1>1. \A j \in Inv : ToInviter(j)' = ToInviter(j)
  BY DEF ToInviter
<1> QED
  BY <1>1, PeersQuiet

LEMMA PeersInit == Init => PeersInv
<1> SUFFICES ASSUME Init PROVE PeersInv
  OBVIOUS
<1>1. None \notin Node /\ Node \subseteq NodeName
  BY PortsAssumption DEF NodeName
<1>2. PeersAreEnds
  BY DEF Init, NodeInit, PeersAreEnds
<1>3. \A e \in End : RemoteIsPeer(e[1], e[2])
  BY <1>1, EndType DEF Init, NodeInit, RemoteIsPeer
<1>4. \A i \in Inv : InviteeKnows(i)
  BY <1>1, InvFacts DEF Init, NodeInit, InviteeKnows, ToInviter
<1> QED
  BY <1>2, <1>3, <1>4 DEF PeersInv

LEMMA PeersStep == TypeOK /\ HandshakeInv /\ PeersInv /\ [Next]_vars => PeersInv'
<1> SUFFICES ASSUME TypeOK, HandshakeInv, PeersInv, [Next]_vars
             PROVE  PeersInv'
  OBVIOUS
<1>1. ASSUME NEW e \in End, Handle(e[1], e[2])
      PROVE  PeersInv'
  <2>1. e[1] \in Inv /\ e[2] \in Node /\ <<e[1], e[2]>> \in End
    BY DEF End
  <2> QED
    BY <1>1, <2>1, PeersHandle, PeersInviterAccept DEF Handle
<1>2. ASSUME NEW n \in Node, IoContinue(n)
      PROVE  PeersInv'
  BY <1>2, PeersSendAccept, PeersAddPeer, PeersContinue, PeersSend DEF IoContinue
<1>3. ASSUME App
      PROVE  PeersInv'
  <2>1. ASSUME NEW c \in Call, NEW i \in Inv, NEW name \in Name, Attach(c, i, name)
        PROVE  PeersInv'
    BY <2>1, PeersCall DEF Attach, nodeVars
  <2>2. ASSUME NEW c \in Call, NEW i \in Inv, NEW name \in Name, Extract(c, i, name)
        PROVE  PeersInv'
    BY <2>2, PeersCall DEF Extract
  <2>3. ASSUME NEW i \in Inv, NEW name \in Name, ExtractLocal(i, name)
        PROVE  PeersInv'
    BY <2>3, PeersCall DEF ExtractLocal, nodeVars
  <2>4. ASSUME NEW i \in Inv, CoreAcceptInvitation(i)
        PROVE  PeersInv'
    BY <2>4, PeersCall DEF CoreAcceptInvitation, AcceptInvitation
  <2>5. ASSUME NEW p \in Port, NEW m \in Msg, Write(p, m)
        PROVE  PeersInv'
    BY <2>5, PeersCall DEF Write
  <2>6. ASSUME NEW p \in Port, Read(p)
        PROVE  PeersInv'
    BY <2>6, PeersCall DEF Read, nodeVars
  <2> QED
    BY <1>3, <2>1, <2>2, <2>3, <2>4, <2>5, <2>6, PeersSendInvitation, PeersSend DEF App
<1>4. CASE UNCHANGED vars
  BY <1>4, PeersCall DEF vars, nodeVars
<1> QED
  BY <1>1, <1>2, <1>3, <1>4 DEF Next, Io

\* peers_ maps the name of the process at the other end of a channel to that channel, and
\* remote_node_name_ is that name, for any invitations: AddPeer and OnAcceptInvitation mix
\* no channels up, and nobody is forgotten.
THEOREM PeersCorrect == Spec => []PeersInv
<1>1. Init => PeersInv
  BY PeersInit
<1>2. TypeOK /\ HandshakeInv /\ PeersInv /\ [Next]_vars => PeersInv'
  BY PeersStep
<1> QED
  BY <1>1, <1>2, TypeCorrect, HandshakeCorrect, PTL DEF Spec


-----------------------------------------------------------------------------
(* What no step does to ports.                                               *)

\* Pairs, names and offers stay, as do joined ends and peers.
PortsKept ==
    /\ made \subseteq made'
    /\ \A p \in Port : p[1] \in made =>
         /\ offeredBy'[p] = offeredBy[p] /\ nameOf'[p] = nameOf[p]
         /\ peerPort[p] \in Port /\ peerPort[p][2] = 0 =>
              peerNode'[p] = peerNode[p] /\ peerPort'[p] = peerPort[p]
    /\ \A n, m \in Node : IsPeer(n, m) => IsPeer(n, m)'

\* A step leaves the pair of c alone.
PairKept(c) ==
    /\ c \in made' <=> c \in made
    /\ \A p \in {Port0(c), Port1(c)} :
         /\ p \in ports' <=> p \in ports
         /\ peerNode'[p] = peerNode[p] /\ peerPort'[p] = peerPort[p]
         /\ offeredBy'[p] = offeredBy[p] /\ nameOf'[p] = nameOf[p]

LEMMA PairFacts ==
    /\ \A c \in Call : /\ Port0(c) \in Port /\ Port1(c) \in Port /\ Port0(c) # Port1(c)
                       /\ Port0(c)[1] = c /\ Port0(c)[2] = 0
                       /\ Port1(c)[1] = c /\ Port1(c)[2] = 1
                       /\ Owner(Port0(c)) = callNode[c] /\ Owner(Port1(c)) = callNode[c]
                       /\ Sibling(Port0(c)) = Port1(c) /\ Sibling(Port1(c)) = Port0(c)
                       /\ callNode[c] \in Node
    /\ \A p \in Port : /\ p[1] \in Call /\ p[2] \in {0, 1}
                       /\ p[2] = 0 => p = Port0(p[1])
                       /\ p[2] = 1 => p = Port1(p[1])
BY PortsAssumption DEF Port, Port0, Port1, Owner, Sibling

LEMMA NoneFacts ==
    None \notin Node /\ None \notin Inv /\ None \notin Port /\ None \notin Name /\ Node \cap Inv = {}
BY PortsAssumption, InvitationAssumption

LEMMA ExtractedKept ==
    ASSUME PortsKept, NEW q, NEW n, NEW name, Extracted(q, n, name)
    PROVE  Extracted(q, n, name)'
BY DEF PortsKept, Extracted

LEMMA MatchKept ==
    ASSUME PortsKept, NEW p, NEW q, Match(p, q)
    PROVE  Match(p, q)'
BY DEF PortsKept, Match, Extracted

LEMMA PointsKept ==
    ASSUME PortsKept, NEW p \in Port, p[1] \in made, NEW q \in Port, q[2] = 0, Points(p, q)
    PROVE  Points(p, q)'
BY DEF PortsKept, Points

\* The end that points to its match has made its move.
LEMMA MatchFacts ==
    ASSUME NEW p, NEW q, Match(p, q)
    PROVE  /\ p \in Port /\ p[2] = 0 /\ p[1] \in made /\ p = Port0(p[1]) /\ p[1] \in Call
           /\ q \in Port /\ q[2] = 0 /\ q[1] \in made /\ q = Port0(q[1]) /\ q[1] \in Call
           /\ offeredBy[p] # None /\ offeredBy[q] = None /\ p[1] # q[1]
BY PairFacts DEF Match, Extracted

LEMMA PairStays ==
    ASSUME PortsKept, NEW c \in Call, PairKept(c), PairInv(c),
           Half(c) => io'[callNode[c]] = io[callNode[c]]
    PROVE  PairInv(c)'
<1>1. CASE c \notin made
  BY <1>1 DEF PairInv, PairKept, Fresh
<1>2. CASE c \in made
  <2>1. Port0(c) \in ports' /\ Points(Port1(c), Port0(c))'
    BY <1>2 DEF PairInv, PairKept, Points
  <2>2. Paired(c) => Paired(c)'
    BY DEF PairKept, Paired, Points
  <2>3. Half(c) => Half(c)'
    BY DEF PairKept, Half
  <2>4. ASSUME Joined(c) PROVE Joined(c)'
    <3> DEFINE p == Port0(c)
    <3>1. PICK q : q = peerPort[p]
      OBVIOUS
    <3>2. /\ Port1(c) \notin ports' /\ Points(p, q)' /\ peerPort'[p] = q /\ offeredBy'[p] = offeredBy[p]
      BY <2>4, <3>1 DEF PairKept, Joined, Points
    <3>3. /\ IsPeer(callNode[c], Owner(q)) /\ callNode[c] \in Node /\ Owner(q) \in Node
      BY <2>4, <3>1, PairFacts DEF Joined, IsPeer
    <3>4. IsPeer(callNode[c], Owner(q))'
      BY <3>3 DEF PortsKept, IsPeer
    <3>5. CASE offeredBy[p] # None
      <4>1. Match(p, q)'
        BY <2>4, <3>1, <3>5, MatchKept DEF Joined
      <4> QED
        BY <3>2, <3>4, <3>5, <4>1 DEF Joined
    <3>6. CASE offeredBy[p] = None
      <4>1. Match(q, p) /\ Points(q, p)
        BY <2>4, <3>1, <3>6 DEF Joined
      <4>2. Match(q, p)' /\ Points(q, p)'
        BY <4>1, MatchKept, MatchFacts, PointsKept
      <4> QED
        BY <3>2, <3>4, <3>6, <4>2 DEF Joined
    <3> QED
      BY <3>5, <3>6
  <2> QED
    BY <1>2, <2>1, <2>2, <2>3, <2>4 DEF PairInv, PairKept
<1> QED
  BY <1>1, <1>2

LEMMA OfferStays ==
    ASSUME NEW c \in Call, PairKept(c), OfferInv(c)
    PROVE  OfferInv(c)'
BY DEF PairKept, OfferInv

LEMMA IoStays ==
    ASSUME PortsKept, NEW n \in Node, IoInv(n), io'[n] = io[n],
           io[n].step = "store_port" => PairKept(io[n].local[1])
    PROVE  IoInv(n)'
<1>1. PICK s : s = io[n]
  OBVIOUS
<1>2. CASE s.step = "store_port"
  <2>1. /\ s.port \in Port /\ s.local[1] \in made /\ Half(s.local[1])
        /\ Owner(s.local) = n /\ s.local[2] = 0
        /\ s.node = Owner(s.port) /\ IsPeer(n, s.node)
        /\ s.respond => Match(s.local, s.port)
        /\ ~ s.respond => Match(s.port, s.local) /\ Points(s.port, s.local)
    BY <1>1, <1>2 DEF IoInv
  <2>2. IsPeer(n, s.node)' /\ s.node \in Node
    BY <2>1 DEF PortsKept, IsPeer
  <2>3. PICK c : c = s.local[1]
    OBVIOUS
  <2>4. c \in made' /\ Half(c)'
    <3>1. io'[callNode[c]] = io[callNode[c]]
      BY <1>1, <2>1, <2>3 DEF Owner
    <3> QED
      BY <1>1, <1>2, <2>1, <2>3, <3>1 DEF PairKept, Half
  <2>5. s.respond => Match(s.local, s.port)'
    BY <2>1, MatchKept
  <2>6. ~ s.respond => Match(s.port, s.local)' /\ Points(s.port, s.local)'
    BY <2>1, MatchKept, MatchFacts, PointsKept
  <2> QED
    BY <1>1, <1>2, <2>1, <2>2, <2>3, <2>4, <2>5, <2>6 DEF IoInv
<1>3. CASE s.step = "respond"
  <2>1. /\ Match(s.local, s.port) /\ Points(s.local, s.port)
        /\ Owner(s.local) = n
        /\ s.node = Owner(s.port) /\ IsPeer(n, s.node)
    BY <1>1, <1>3 DEF IoInv
  <2>2. IsPeer(n, s.node)'
    BY <2>1 DEF PortsKept, IsPeer
  <2>3. Match(s.local, s.port)' /\ Points(s.local, s.port)'
    BY <2>1, MatchKept, MatchFacts, PointsKept
  <2> QED
    BY <1>1, <1>3, <2>1, <2>2, <2>3 DEF IoInv
<1>4. CASE s.step \notin {"store_port", "respond"}
  BY <1>1, <1>4 DEF IoInv
<1> QED
  BY <1>2, <1>3, <1>4

LEMMA RequestStays ==
    ASSUME PortsKept, NEW n \in Node, RequestInv(n), pendingMerges'[n] = pendingMerges[n],
           io'[n] = io[n] \/ io'[n].step # "flush",
           app'[n] = app[n] \/ app'[n].step # "request"
    PROVE  RequestInv(n)'
<1>1. ASSUME NEW k \in 1 .. Len(pendingMerges[n])
      PROVE  Extracted(pendingMerges[n][k][2], n, pendingMerges[n][k][1])'
  <2>1. Extracted(pendingMerges[n][k][2], n, pendingMerges[n][k][1])
    BY DEF RequestInv
  <2> QED
    BY <2>1 DEF Extracted, PortsKept
<1>2. ASSUME io[n].step = "flush", NEW k \in 1 .. Len(io[n].merges), io'[n] = io[n]
      PROVE  Extracted(io[n].merges[k][2], n, io[n].merges[k][1])'
  <2>1. Extracted(io[n].merges[k][2], n, io[n].merges[k][1])
    BY <1>2 DEF RequestInv
  <2> QED
    BY <1>2, <2>1 DEF Extracted, PortsKept
<1>3. ASSUME app[n].step = "request", app'[n] = app[n]
      PROVE  Extracted(app[n].port, n, app[n].name)'
  <2>1. Extracted(app[n].port, n, app[n].name)
    BY <1>3 DEF RequestInv
  <2> QED
    BY <1>3, <2>1 DEF Extracted, PortsKept
<1> QED
  BY <1>1, <1>2, <1>3 DEF RequestInv

LEMMA MessageStays ==
    ASSUME PortsKept, NEW i, NEW n, NEW m, MessageInv(i, n, m)
    PROVE  MessageInv(i, n, m)'
<1>1. ASSUME m.type = "RequestPortMerge" PROVE Extracted(m.connector, Other(i, n), m.name)'
  BY <1>1, ExtractedKept DEF MessageInv
<1>2. ASSUME m.type = "ResponsePortMerge"
      PROVE  /\ Match(m.port, m.connector)' /\ Points(m.port, m.connector)'
             /\ Owner(m.connector) = n /\ Owner(m.port) = Other(i, n)
  <2>1. /\ Match(m.port, m.connector) /\ Points(m.port, m.connector)
        /\ Owner(m.connector) = n /\ Owner(m.port) = Other(i, n)
    BY <1>2 DEF MessageInv
  <2> QED
    BY <2>1, MatchKept, MatchFacts, PointsKept
<1> QED
  BY <1>1, <1>2 DEF MessageInv


LEMMA ChanStays ==
    ASSUME PortsKept, ChanInv, UNCHANGED chan
    PROVE  ChanInv'
<1>1. ASSUME NEW e \in End, NEW k \in 1 .. Len(chan[e])
      PROVE  MessageInv(e[1], e[2], chan[e][k])'
  <2>1. PICK m : m = chan[e][k]
    OBVIOUS
  <2>2. MessageInv(e[1], e[2], m)'
    BY <2>1, MessageStays DEF ChanInv
  <2> QED
    BY <2>1, <2>2 DEF MessageInv
<1> QED
  BY <1>1 DEF ChanInv

LEMMA ChanSent ==
    ASSUME TypeOK, PortsKept, ChanInv, NEW e \in End, NEW u \in Message,
           chan' = [chan EXCEPT ![e] = Append(@, u)],
           MessageInv(e[1], e[2], u)'
    PROVE  ChanInv'
<1>1. ASSUME NEW f \in End, NEW k \in 1 .. Len(chan'[f])
      PROVE  MessageInv(f[1], f[2], chan[f][k])'
  <2>1. PICK m : m = chan'[f][k]
    OBVIOUS
  <2>2. MessageInv(f[1], f[2], m)'
    <3>1. \/ k \in 1 .. Len(chan[f]) /\ m = chan[f][k]
          \/ f = e /\ m = u
      BY <2>1, SentAt
    <3> QED
      BY <3>1, MessageStays DEF ChanInv
  <2> QED
    BY <2>1, <2>2 DEF MessageInv
<1> QED
  BY <1>1 DEF ChanInv

LEMMA ChanTaken ==
    ASSUME TypeOK, PortsKept, ChanInv, NEW i \in Inv, NEW n \in Node, <<i, n>> \in End,
           chan[<<i, n>>] # <<>>, Pop(i, n)
    PROVE  ChanInv'
<1>1. ASSUME NEW f \in End, NEW k \in 1 .. Len(chan'[f])
      PROVE  MessageInv(f[1], f[2], chan[f][k])'
  <2>1. PICK m : m = chan'[f][k]
    OBVIOUS
  <2>2. \E l \in 1 .. Len(chan[f]) : m = chan[f][l]
    BY <2>1, TookAt
  <2>3. MessageInv(f[1], f[2], m)'
    BY <2>2, MessageStays DEF ChanInv
  <2> QED
    BY <2>1, <2>3 DEF MessageInv
<1> QED
  BY <1>1 DEF ChanInv

\* The head of a channel is known.
LEMMA ChanHead ==
    ASSUME TypeOK, ChanInv, NEW i \in Inv, NEW n \in Node, <<i, n>> \in End,
           chan[<<i, n>>] # <<>>, NEW m, m = Head(chan[<<i, n>>])
    PROVE  m \in Message /\ MessageInv(i, n, m)
<1>1. chan[<<i, n>>] \in Seq(Message)
  BY DEF TypeOK, NodeTypeOK
<1>2. /\ Head(chan[<<i, n>>]) = chan[<<i, n>>][1] /\ 1 \in 1 .. Len(chan[<<i, n>>])
      /\ Head(chan[<<i, n>>]) \in Message
  BY <1>1, EmptySeq, LenProperties, HeadTailProperties
<1>3. MessageInv(<<i, n>>[1], <<i, n>>[2], chan[<<i, n>>][1])
  BY <1>2 DEF ChanInv
<1> QED
  BY <1>2, <1>3

LEMMA WaitsKept ==
    ASSUME PortsKept, NEW p, NEW i \in Inv, NEW name, Waits(p, i, name),
           p \in ports', p \notin pipes'
    PROVE  Waits(p, i, name)'
BY DEF Waits, PortsKept

LEMMA AttachedStays ==
    ASSUME PortsKept, AttachedInv, UNCHANGED attached,
           \A i \in Inv, name \in Name, p \in Port :
               attached[<<i, name>>] = p /\ Waits(p, i, name) => p \in ports' /\ p \notin pipes'
    PROVE  AttachedInv'
BY WaitsKept DEF AttachedInv

LEMMA ReservedStays ==
    ASSUME TypeOK, PortsKept, ReservedInv,
           \A n \in Node, k \in NodeName, name \in Name :
               ReservedPort(n, k, name)' \in {ReservedPort(n, k, name), None},
           \A i \in Inv, name \in Name, p \in Port :
               p[1] \in made /\ attached'[<<i, name>>] = p => attached[<<i, name>>] = p,
           \A n \in Node, k \in NodeName, name \in Name, p \in Port, i \in Inv :
               ReservedPort(n, k, name)' = p /\ ReservedFor(p, i, n, k, name)
               => p \in ports' /\ p \notin pipes'
    PROVE  ReservedInv'
<1> SUFFICES ASSUME NEW n \in Node, NEW k \in NodeName, NEW name \in Name, NEW p \in Port,
                    ReservedPort(n, k, name)' = p
             PROVE  \E i \in Inv : ReservedFor(p, i, n, k, name)'
  BY DEF ReservedInv
<1>1. ReservedPort(n, k, name) = p
  BY NoneFacts
<1>2. PICK i \in Inv : ReservedFor(p, i, n, k, name)
  BY <1>1 DEF ReservedInv
<1>3. Waits(p, i, name)'
  BY <1>2, WaitsKept DEF ReservedFor
<1>4. attached'[<<i, name>>] # p
  BY <1>2 DEF ReservedFor, Waits
<1>5. k = i => ReservedPort(n, inviteeOf[i], name)' # p
  <2>1. inviteeOf[i] \in NodeName
    BY InvFacts DEF NodeName
  <2> QED
    BY <1>2, <2>1, NoneFacts DEF ReservedFor
<1> QED
  BY <1>2, <1>3, <1>4, <1>5 DEF ReservedFor

-----------------------------------------------------------------------------
(* Steps that leave the ports alone.                                         *)

LEMMA AsideKept ==
    ASSUME UNCHANGED <<ports, peerNode, peerPort, made, offeredBy, nameOf>>,
           \A n, m \in Node : IsPeer(n, m) => IsPeer(n, m)'
    PROVE  PortsKept /\ \A c \in Call : PairKept(c)
BY DEF PortsKept, PairKept

\* Attached and reserved ports may change hands.
LEMMA PortsApart ==
    ASSUME TypeOK, PortsInv,
           UNCHANGED <<ports, peerNode, peerPort, peerMap, made, offeredBy, nameOf>>,
           \A n, m \in Node : IsPeer(n, m) => IsPeer(n, m)',
           \A n \in Node : \/ io'[n] = io[n]
                           \/ /\ io[n].step # "store_port"
                              /\ io'[n].step \notin {"store_port", "respond"},
           \A n \in Node : RequestInv(n)',
           AttachedInv', ReservedInv', PipesInv', ChanInv', NothingPending'
    PROVE  PortsInv'
<1>1. PortsKept /\ \A c \in Call : PairKept(c)
  BY AsideKept
<1>2. ASSUME NEW c \in Call PROVE PairInv(c)' /\ OfferInv(c)'
  <2>1. Half(c) => io'[callNode[c]] = io[callNode[c]]
    BY PairFacts DEF Half
  <2>2. PairInv(c) /\ OfferInv(c)
    BY DEF PortsInv
  <2> QED
    BY <1>1, <2>1, <2>2, PairStays, OfferStays
<1>3. ASSUME NEW n \in Node PROVE IoInv(n)'
  <2>1. CASE io'[n] = io[n]
    <3>1. IoInv(n)
      BY DEF PortsInv
    <3>2. io[n].step = "store_port" => PairKept(io[n].local[1])
      <4>1. SUFFICES ASSUME io[n].step = "store_port" PROVE io[n].local[1] \in Call
        BY <1>1
      <4>2. io[n].local \in Port
        BY <4>1 DEF TypeOK, NodeTypeOK, IoState
      <4> QED
        BY <4>2, PairFacts
    <3> QED
      BY <1>1, <2>1, <3>1, <3>2, IoStays
  <2>2. CASE io'[n].step \notin {"store_port", "respond"}
    BY <2>2 DEF IoInv
  <2> QED
    BY <2>1, <2>2
<1>4. PeerMapInv'
  BY DEF PortsInv, PeerMapInv
<1> QED
  BY <1>2, <1>3, <1>4 DEF PortsInv

LEMMA PortsAside ==
    ASSUME TypeOK, PortsInv,
           UNCHANGED <<ports, peerNode, peerPort, peerMap, made, offeredBy, nameOf, attached,
                       reserved, pipes>>,
           \A n, m \in Node : IsPeer(n, m) => IsPeer(n, m)',
           \A n \in Node : \/ io'[n] = io[n]
                           \/ /\ io[n].step # "store_port"
                              /\ io'[n].step \notin {"store_port", "respond"},
           \A n \in Node : RequestInv(n)',
           \A n \in Node : \/ app'[n] = app[n]
                           \/ app'[n].step = "write" =>
                                app'[n].from[1] \in made /\ Owner(app'[n].from) = n,
           ChanInv', NothingPending'
    PROVE  PortsInv'
<1>1. PortsKept
  BY AsideKept
<1>2. AttachedInv'
  BY <1>1, AttachedStays DEF PortsInv, Waits
<1>3. ReservedInv'
  BY <1>1, ReservedStays DEF PortsInv, ReservedFor, Waits, ReservedPort
<1>4. PipesInv'
  BY DEF PortsInv, PipesInv
<1> QED
  BY <1>2, <1>3, <1>4, PortsApart

\* Nothing happens but that a message is taken, and perhaps an offer looked at.
LEMMA PortsTake ==
    ASSUME TypeOK, PortsInv, NEW i \in Inv, NEW n \in Node, <<i, n>> \in End,
           chan[<<i, n>>] # <<>>, Pop(i, n), io[n] = Idle,
           UNCHANGED <<ports, peerNode, peerPort, peerMap, made, offeredBy, nameOf, attached,
                       reserved, pipes, peers, pendingMerges, pendingPeerMsgs, app>>,
           \A m \in Node : io'[m] = io[m] \/ (m = n /\ io'[m].step \in {"accept", "add_peer"})
    PROVE  PortsInv'
<1>1. \A m, k \in Node : IsPeer(m, k) => IsPeer(m, k)'
  BY DEF IsPeer
<1>2. PortsKept
  BY <1>1, AsideKept
<1>3. ChanInv'
  BY <1>2, ChanTaken DEF PortsInv
<1>4. \A m \in Node : RequestInv(m)'
  BY <1>2, RequestStays DEF PortsInv
<1>5. NothingPending'
  BY DEF PortsInv, NothingPending
<1>6. \A m \in Node : \/ io'[m] = io[m]
                      \/ io[m].step # "store_port" /\ io'[m].step \notin {"store_port", "respond"}
  BY DEF Idle
<1> QED
  BY <1>1, <1>3, <1>4, <1>5, <1>6, PortsAside

\* A message is sent, and threads go on.
LEMMA PortsSend ==
    ASSUME TypeOK, PortsInv, NEW e \in End, NEW m \in Message,
           chan' = [chan EXCEPT ![e] = Append(@, m)], MessageInv(e[1], e[2], m),
           UNCHANGED <<ports, peerNode, peerPort, peerMap, made, offeredBy, nameOf, attached,
                       reserved, pipes, peers, pendingMerges, pendingPeerMsgs>>,
           \A k \in Node : \/ io'[k] = io[k]
                           \/ io[k].step # "store_port" /\ io'[k].step \notin {"store_port", "respond"},
           \A k \in Node : RequestInv(k)',
           \A k \in Node : app'[k] = app[k] \/ app'[k] = Idle
    PROVE  PortsInv'
<1>1. \A j, k \in Node : IsPeer(j, k) => IsPeer(j, k)'
  BY DEF IsPeer
<1>2. PortsKept
  BY <1>1, AsideKept
<1>3. MessageInv(e[1], e[2], m)'
  BY <1>2, MessageStays
<1>4. ChanInv'
  BY <1>2, <1>3, ChanSent DEF PortsInv
<1>5. NothingPending'
  BY DEF PortsInv, NothingPending
<1>6. \A k \in Node : app'[k] = app[k] \/ app'[k].step # "write"
  BY DEF Idle
<1> QED
  BY <1>1, <1>4, <1>5, <1>6, PortsAside

LEMMA PortsSendAccept ==
    ASSUME TypeOK, HandshakeInv, PortsInv, NEW n \in Node, IoSendAccept(n), UNCHANGED coreVars
    PROVE  PortsInv'
<1>1. PICK i \in Inv : i = io[n].token
  BY DEF IoSendAccept, IoAt, TypeOK, NodeTypeOK, IoState
<1>2. /\ io[n].step = "accept" /\ inviteeOf[i] = n /\ inviterChan[n] = i
  BY <1>1 DEF IoSendAccept, IoAt, HandshakeInv, HandlesOffer
<1>3. /\ chan' = [chan EXCEPT ![<<i, inviterOf[i]>>] = Append(@, Answer(i))]
      /\ io'[n].step = "add_peer"
      /\ \A m \in Node \ {n} : io'[m] = io[m]
      /\ UNCHANGED <<portVars, peers, pendingMerges, pendingPeerMsgs, reserved, app>>
  BY <1>1, <1>2, InvFacts DEF IoSendAccept, SendTo, GoIo, Answer, TypeOK, NodeTypeOK
<1>4. <<i, inviterOf[i]>> \in End /\ Answer(i) \in Message
  BY EndPair, InvFacts DEF Answer, Message
<1>5. MessageInv(<<i, inviterOf[i]>>[1], <<i, inviterOf[i]>>[2], Answer(i))
  BY DEF MessageInv, Answer
<1>6. PortsKept
  BY <1>3, AsideKept DEF portVars, coreVars, IsPeer
<1>7. \A k \in Node : RequestInv(k)'
  BY <1>3, <1>6, RequestStays DEF PortsInv
<1> QED
  BY <1>2, <1>3, <1>4, <1>5, <1>7, PortsSend DEF portVars, coreVars

\* AddPeer sends nothing, for nothing waits for a new peer.
LEMMA NothingFlushed ==
    ASSUME TypeOK, NothingPending, NEW n \in Node, NEW node \in NodeName, NEW i \in Inv,
           AddPeer(n, node, i)
    PROVE  NothingPending' /\ AddPeerFlush(n, node) = <<>>
BY DEF NothingPending, AddPeer, AddPeerFlush, TypeOK, NodeTypeOK

LEMMA AddPeerSilent ==
    ASSUME TypeOK, HandshakeInv, PortsInv, NEW n \in Node, IoAddPeer(n)
    PROVE  NothingPending' /\ UNCHANGED chan
<1>1. PICK i \in Inv : i = io[n].token
  BY DEF IoAddPeer, IoAt, TypeOK, NodeTypeOK, IoState
<1> DEFINE a == inviterOf[i]
<1>2. /\ io[n].step = "add_peer" /\ inviteeOf[i] = n /\ a = io[n].inviter /\ inviterChan[n] = i
  BY <1>1 DEF IoAddPeer, IoAt, HandshakeInv, HandlesOffer
<1>3. AddPeer(n, a, i) /\ chan' = [chan EXCEPT ![<<i, a>>] = @ \o AddPeerFlush(n, a)]
  BY <1>1, <1>2, InvFacts DEF IoAddPeer
<1>4. a \in Node /\ a \in NodeName
  BY InvFacts DEF NodeName
<1>5. NothingPending' /\ AddPeerFlush(n, a) = <<>>
  BY <1>3, <1>4, NothingFlushed DEF PortsInv
<1>6. chan \in [Inv \X Node -> Seq(Message)]
  BY DEF TypeOK, NodeTypeOK
<1>7. chan[<<i, a>>] \o <<>> = chan[<<i, a>>]
  BY <1>4, <1>6
<1> QED
  BY <1>3, <1>5, <1>6, <1>7

LEMMA PortsAddPeer ==
    ASSUME TypeOK, HandshakeInv, PeersInv, PortsInv, NEW n \in Node, IoAddPeer(n),
           UNCHANGED coreVars
    PROVE  PortsInv'
<1>1. PICK i \in Inv : i = io[n].token
  BY DEF IoAddPeer, IoAt, TypeOK, NodeTypeOK, IoState
<1> DEFINE a == inviterOf[i]
<1>2. /\ io[n].step = "add_peer" /\ inviteeOf[i] = n /\ a = io[n].inviter /\ inviterChan[n] = i
  BY <1>1 DEF IoAddPeer, IoAt, HandshakeInv, HandlesOffer
<1>3. /\ AddPeer(n, a, i)
      /\ chan' = [chan EXCEPT ![<<i, a>>] = @ \o AddPeerFlush(n, a)]
      /\ \A m \in Node \ {n} : io'[m] = io[m]
      /\ io'[n].step = "take"
      /\ UNCHANGED <<portVars, pendingMerges, reserved, app>>
  BY <1>1, <1>2, InvFacts DEF IoAddPeer, GoIo, TypeOK, NodeTypeOK
<1>4. a \in Node /\ a # n /\ Other(i, n) = a /\ <<i, n>> \in End /\ a \in NodeName
  BY <1>2, InvFacts DEF End, NodeName
<1>5. \A m, k \in Node : IsPeer(m, k) => IsPeer(m, k)'
  BY <1>3, <1>4, PeerEnds
<1>6. NothingPending' /\ UNCHANGED chan
  BY AddPeerSilent
<1>8. PortsKept
  BY <1>3, <1>5, AsideKept DEF portVars, coreVars
<1>9. ChanInv' /\ \A k \in Node : RequestInv(k)'
  BY <1>3, <1>6, <1>8, ChanStays, RequestStays DEF PortsInv
<1> QED
  BY <1>2, <1>3, <1>5, <1>6, <1>9, PortsAside DEF portVars, coreVars

LEMMA PortsTakePending ==
    ASSUME TypeOK, PortsInv, NEW n \in Node, IoTakePending(n), UNCHANGED coreVars
    PROVE  PortsInv'
<1>1. /\ io[n].step = "take"
      /\ io'[n] = Flush(pendingMerges[n]) /\ \A k \in Node \ {n} : io'[k] = io[k]
      /\ pendingMerges'[n] = <<>>
      /\ \A k \in Node \ {n} : pendingMerges'[k] = pendingMerges[k]
      /\ UNCHANGED <<portVars, chan, peers, pendingPeerMsgs, reserved, app>>
  BY DEF IoTakePending, IoAt, GoIo, TypeOK, NodeTypeOK
<1>2. PortsKept
  BY <1>1, AsideKept DEF portVars, coreVars, IsPeer
<1>3. ASSUME NEW k \in Node, k # n PROVE RequestInv(k)'
  BY <1>1, <1>2, <1>3, RequestStays DEF PortsInv
<1>4. RequestInv(n)'
  <2>1. RequestInv(n)
    BY DEF PortsInv
  <2>2. ASSUME io'[n].step = "flush"
        PROVE  io'[n].merges = pendingMerges[n]
    BY <1>1, <2>2 DEF Flush, Idle
  <2>3. Len(<<>>) = 0
    OBVIOUS
  <2> QED
    BY <1>1, <1>2, <2>1, <2>2, <2>3 DEF RequestInv, Extracted, PortsKept
<1>5. ChanInv'
  BY <1>1, <1>2, ChanStays DEF PortsInv
<1>6. io'[n].step \notin {"store_port", "respond"}
  BY <1>1 DEF Flush, Idle
<1>7. \A k \in Node : RequestInv(k)'
  BY <1>3, <1>4
<1>8. NothingPending' /\ \A j, k \in Node : IsPeer(j, k) => IsPeer(j, k)'
  BY <1>1 DEF PortsInv, NothingPending, IsPeer
<1> QED
  BY <1>1, <1>5, <1>6, <1>7, <1>8, PortsAside DEF portVars, coreVars

\* What a process asks for goes out on the channel of a peer.
LEMMA RequestGoesOut ==
    ASSUME TypeOK, HandshakeInv, NEW n \in Node, NEW i \in Inv, CanUse(n, i),
           NEW name \in Name, NEW q, Extracted(q, n, name),
           SendTo(i, n, RequestPortMerge(name, q))
    PROVE  \E e \in End, m \in Message :
               chan' = [chan EXCEPT ![e] = Append(@, m)] /\ MessageInv(e[1], e[2], m)
<1>1. PICK b \in Node : b = Other(i, n) /\ <<i, b>> \in End /\ Other(i, b) = n
  <2>1. <<i, n>> \in End
    BY CanUseFacts
  <2>2. Other(i, n) \in Node /\ <<i, Other(i, n)>> \in End /\ Other(i, Other(i, n)) = n
    BY <2>1, EndPair
  <2> QED
    BY <2>2
<1>2. PICK m \in Message : m = RequestPortMerge(name, q)
  BY DEF RequestPortMerge, Message, Extracted
<1>3. MessageInv(i, b, m)
  BY <1>1, <1>2 DEF MessageInv, RequestPortMerge
<1>4. chan' = [chan EXCEPT ![<<i, b>>] = Append(@, m)]
  BY <1>1, <1>2 DEF SendTo
<1> QED
  BY <1>1, <1>3, <1>4

LEMMA PortsFlush ==
    ASSUME TypeOK, HandshakeInv, PortsInv, NEW n \in Node, IoFlush(n), UNCHANGED coreVars
    PROVE  PortsInv'
<1> DEFINE i == GetInviterChannel(n)
           s == io[n].merges
<1>1. /\ io[n].step = "flush"
      /\ UNCHANGED <<portVars, peers, pendingPeerMsgs, pendingMerges, reserved, app>>
  BY DEF IoFlush, IoAt
<1>2. s \in Seq(Name \X Port) /\ s # <<>>
  BY <1>1 DEF TypeOK, NodeTypeOK, IoState
<1>3. /\ Head(s) = s[1] /\ 1 \in 1 .. Len(s) /\ Head(s)[1] \in Name
      /\ Len(Tail(s)) = Len(s) - 1 /\ Len(s) \in Nat
      /\ \A k \in 1 .. Len(Tail(s)) : Tail(s)[k] = s[k + 1] /\ k + 1 \in 1 .. Len(s)
  <2> HIDE DEF s
  <2>1. Len(s) \in Nat /\ Len(s) # 0
    BY <1>2, EmptySeq, LenProperties
  <2>2. Head(s) = s[1] /\ Len(Tail(s)) = Len(s) - 1 /\ Head(s) \in Name \X Port
        /\ \A k \in 1 .. Len(Tail(s)) : Tail(s)[k] = s[k + 1]
    BY <1>2, HeadTailProperties
  <2> QED
    BY <2>1, <2>2
<1>4. PortsKept
  BY <1>1, AsideKept DEF portVars, coreVars, IsPeer
<1>5. CASE i = None
  <2>1. UNCHANGED <<chan, io>>
    BY <1>5 DEF IoFlush
  <2>2. ChanInv' /\ \A k \in Node : RequestInv(k)'
    BY <1>1, <1>4, <2>1, ChanStays, RequestStays DEF PortsInv
  <2>3. NothingPending' /\ \A j, k \in Node : IsPeer(j, k) => IsPeer(j, k)'
    BY <1>1 DEF PortsInv, NothingPending, IsPeer
  <2> QED
    BY <1>1, <2>1, <2>2, <2>3, PortsAside DEF portVars, coreVars
<1>6. CASE i # None
  <2>1. /\ SendTo(i, n, RequestPortMerge(Head(s)[1], Head(s)[2]))
        /\ io'[n] = Flush(Tail(s)) /\ \A k \in Node \ {n} : io'[k] = io[k]
    BY <1>6 DEF IoFlush, GoIo, TypeOK, NodeTypeOK
  <2>2. i \in Inv /\ CanUse(n, i)
    BY <1>6, InviterInPeers DEF CanUse
  <2>3. RequestInv(n)
    BY DEF PortsInv
  <2>4. Extracted(Head(s)[2], n, Head(s)[1])
    BY <1>1, <1>3, <2>3 DEF RequestInv
  <2>5. PICK e \in End, m \in Message :
            chan' = [chan EXCEPT ![e] = Append(@, m)] /\ MessageInv(e[1], e[2], m)
    <3> HIDE DEF i
    <3> QED
      BY <1>3, <2>1, <2>2, <2>4, RequestGoesOut
  <2>6. RequestInv(n)'
    <3>1. ASSUME io'[n].step = "flush"
          PROVE  io'[n].merges = Tail(s)
      <4> HIDE DEF s
      <4>1. Tail(s) # <<>>
        BY <2>1, <3>1 DEF Flush, Idle
      <4>2. io'[n] = [step |-> "flush", merges |-> Tail(s)]
        BY <2>1, <4>1 DEF Flush
      <4> QED
        BY <4>2
    <3>2. ASSUME NEW k \in 1 .. Len(Tail(s))
          PROVE  Extracted(Tail(s)[k][2], n, Tail(s)[k][1])
      BY <1>1, <1>3, <2>3 DEF RequestInv
    <3>3. ASSUME NEW t, t = Tail(s), io'[n].step = "flush", NEW k \in 1 .. Len(io'[n].merges)
          PROVE  Extracted(io[n].merges[k][2], n, io[n].merges[k][1])'
      <4>1. io'[n].merges = t /\ Extracted(t[k][2], n, t[k][1])
        BY <3>1, <3>2, <3>3
      <4> QED
        BY <1>4, <4>1 DEF Extracted, PortsKept
    <3>4. PICK t : t = Tail(s)
      OBVIOUS
    <3> QED
      BY <1>1, <1>4, <2>3, <3>3, <3>4 DEF RequestInv, Extracted, PortsKept
  <2>7. \A k \in Node : RequestInv(k)'
    BY <1>1, <1>4, <2>1, <2>6, RequestStays DEF PortsInv
  <2>8. io'[n].step \notin {"store_port", "respond"}
    BY <2>1 DEF Flush, Idle
  <2>9. \A k \in Node : \/ io'[k] = io[k]
                        \/ io[k].step # "store_port" /\ io'[k].step \notin {"store_port", "respond"}
    BY <1>1, <2>1, <2>8
  <2> HIDE DEF s, i
  <2> QED
    BY <1>1, <2>5, <2>7, <2>9, PortsSend DEF portVars, coreVars
<1> QED
  BY <1>5, <1>6

LEMMA PortsRespond ==
    ASSUME TypeOK, HandshakeInv, PeersInv, PortsInv, NEW n \in Node, IoRespond(n),
           UNCHANGED coreVars
    PROVE  PortsInv'
<1>1. PICK s : s = io[n]
  OBVIOUS
<1>2. /\ s.step = "respond"
      /\ UNCHANGED <<portVars, peers, pendingPeerMsgs, pendingMerges, reserved, app>>
  BY <1>1 DEF IoRespond, IoAt
<1>3. /\ Match(s.local, s.port) /\ Points(s.local, s.port) /\ Owner(s.local) = n
      /\ s.node = Owner(s.port) /\ IsPeer(n, s.node)
  BY <1>1, <1>2 DEF PortsInv, IoInv
<1>4. PICK i \in Inv : i = peers[<<n, s.node>>] /\ <<i, n>> \in End /\ s.node = Other(i, n)
  <2>1. s.node \in NodeName /\ peers[<<n, s.node>>] # None
    BY <1>3 DEF IsPeer, NodeName
  <2> QED
    BY <2>1 DEF PeersInv, PeersAreEnds, End
<1>5. PICK m \in Message : m = [type |-> "ResponsePortMerge", connector |-> s.port, port |-> s.local]
  BY <1>3, MatchFacts DEF Message, PortName
<1>6. <<i, s.node>> \in End /\ Other(i, s.node) = n
  <2>1. <<i, Other(i, n)>> \in End /\ Other(i, Other(i, n)) = n
    BY <1>4, EndPair
  <2> QED
    BY <1>4, <2>1
<1>7. chan' = [chan EXCEPT ![<<i, s.node>>] = Append(@, m)] /\ io' = [io EXCEPT ![n] = Idle]
  BY <1>1, <1>4, <1>5, NoneFacts DEF IoRespond, SendTo, GoIo
<1>8. MessageInv(i, s.node, m)
  BY <1>3, <1>5, <1>6 DEF MessageInv
<1>9. PortsKept
  BY <1>2, AsideKept DEF portVars, coreVars, IsPeer
<1>10. /\ \A k \in Node : io'[k] = io[k] \/ (k = n /\ io'[k] = Idle)
       /\ Idle.step = "idle"
  BY <1>7 DEF Idle, TypeOK, NodeTypeOK
<1>11. \A k \in Node : RequestInv(k)'
  BY <1>2, <1>9, <1>10, RequestStays DEF PortsInv
<1>12. PICK e \in End : e = <<i, s.node>>
  BY <1>6
<1>13. chan' = [chan EXCEPT ![e] = Append(@, m)] /\ MessageInv(e[1], e[2], m)
  BY <1>7, <1>8, <1>12
<1>14. \A k \in Node : \/ io'[k] = io[k]
                       \/ io[k].step # "store_port" /\ io'[k].step \notin {"store_port", "respond"}
  BY <1>1, <1>2, <1>10
<1> QED
  BY <1>2, <1>11, <1>13, <1>14, PortsSend DEF portVars, coreVars

LEMMA PortsSendRequest ==
    ASSUME TypeOK, HandshakeInv, PortsInv, NEW n \in Node, CoreSendRequest(n)
    PROVE  PortsInv'
<1>1. /\ app[n].step = "request"
      /\ SendTo(app[n].channel, n, RequestPortMerge(app[n].name, app[n].port))
      /\ app' = [app EXCEPT ![n] = Idle]
      /\ UNCHANGED <<portVars, peers, pendingPeerMsgs, pendingMerges, reserved, io, coreVars>>
  BY DEF CoreSendRequest, SendRequest, AppAt, GoApp
<1>2. app[n].channel \in Inv /\ app[n].name \in Name /\ CanUse(n, app[n].channel)
  BY <1>1 DEF TypeOK, NodeTypeOK, AppState, CanUse
<1>3. RequestInv(n)
  BY DEF PortsInv
<1>4. Extracted(app[n].port, n, app[n].name)
  BY <1>1, <1>3 DEF RequestInv
<1>5. PICK e \in End, m \in Message :
          chan' = [chan EXCEPT ![e] = Append(@, m)] /\ MessageInv(e[1], e[2], m)
  BY <1>1, <1>2, <1>4, RequestGoesOut
<1>6. PortsKept
  BY <1>1, AsideKept DEF portVars, coreVars, IsPeer
<1>7. \A k \in Node : app'[k] = app[k] \/ app'[k] = Idle
  BY <1>1 DEF TypeOK, NodeTypeOK
<1>8. \A k \in Node : RequestInv(k)'
  BY <1>1, <1>6, <1>7, RequestStays DEF PortsInv, Idle
<1> QED
  BY <1>1, <1>5, <1>7, <1>8, PortsSend DEF portVars, coreVars

\* A port that was made belongs to its own node or points at a peer.
LEMMA PeerOfPort ==
    ASSUME PortsInv, NEW p \in Port, p[1] \in made
    PROVE  peerNode[p] = Owner(p) \/ IsPeer(Owner(p), peerNode[p])
<1>1. PICK c \in Call : c = p[1] /\ (p = Port0(c) \/ p = Port1(c))
  BY PairFacts
<1>2. PairInv(c) /\ c \in made /\ Owner(p) = callNode[c] /\ callNode[c] \in Node
  BY <1>1, PairFacts DEF PortsInv
<1>3. CASE p = Port1(c)
  BY <1>2, <1>3, PairFacts DEF PairInv, Points
<1>4. CASE p = Port0(c)
  <2>1. CASE Paired(c)
    BY <1>2, <1>4, <2>1, PairFacts DEF Paired, Points
  <2>2. CASE Half(c)
    <3>1. PICK s : s = io[callNode[c]]
      OBVIOUS
    <3>2. s.step = "store_port" /\ peerNode[p] = s.node
      BY <1>4, <2>2, <3>1 DEF Half
    <3>3. IsPeer(callNode[c], s.node)
      BY <1>2, <3>1, <3>2 DEF PortsInv, IoInv
    <3> QED
      BY <1>2, <3>2, <3>3
  <2>3. CASE Joined(c)
    BY <1>2, <1>4, <2>3 DEF Joined, Points
  <2> QED
    BY <1>2, <2>1, <2>2, <2>3 DEF PairInv
<1> QED
  BY <1>1, <1>3, <1>4

\* A call, or a step of a thread, that sends nothing.
LEMMA PortsQuiet ==
    ASSUME TypeOK, PortsInv,
           UNCHANGED <<ports, peerNode, peerPort, peerMap, made, offeredBy, nameOf, attached,
                       reserved, pipes, peers, chan, pendingMerges, pendingPeerMsgs, io>>,
           \A n \in Node : \/ app'[n] = app[n]
                           \/ app'[n] = Idle
                           \/ /\ app'[n].step = "write"
                              /\ app'[n].from[1] \in made /\ Owner(app'[n].from) = n
    PROVE  PortsInv'
<1>1. \A n, m \in Node : IsPeer(n, m) => IsPeer(n, m)'
  BY DEF IsPeer
<1>2. PortsKept
  BY <1>1, AsideKept
<1>3. \A n \in Node : RequestInv(n)'
  BY <1>2, RequestStays DEF PortsInv, Idle
<1>4. ChanInv' /\ NothingPending'
  BY <1>2, ChanStays DEF PortsInv, NothingPending
<1>5. \A n \in Node : \/ app'[n] = app[n]
                      \/ app'[n].step = "write" =>
                           app'[n].from[1] \in made /\ Owner(app'[n].from) = n
  BY DEF Idle
<1> QED
  BY <1>1, <1>3, <1>4, <1>5, PortsAside

LEMMA PortsForward ==
    ASSUME TypeOK, HandshakeInv, PeersInv, PortsInv, NEW n \in Node, WriteForward(n)
    PROVE  PortsInv'
<1>1. PICK w : w = app[n]
  OBVIOUS
<1>2. PICK node : node = peerNode[w.from]
  OBVIOUS
<1>3. /\ w.step = "write" /\ w.from \in Port /\ w.to \in PortName /\ w.data \in Msg
      /\ node \in NodeName
  BY <1>1, <1>2 DEF WriteForward, AppAt, AppState, TypeOK, NodeTypeOK, PortsTypeOK
<1>4. /\ w.from[1] \in made /\ Owner(w.from) = n
      /\ node = n \/ IsPeer(n, node)
  BY <1>1, <1>2, <1>3, PeerOfPort DEF PortsInv, PipesInv
<1>5. PICK m \in Message :
          m = [type |-> "UserMessage", from |-> w.from, to |-> w.to, data |-> w.data]
  BY <1>3 DEF Message
<1>6. /\ ForwardEvent(n, node, m)
      /\ app' = [app EXCEPT ![n] = Idle]
      /\ UNCHANGED <<portVars, peers, reserved, pendingMerges, io, coreVars>>
  BY <1>1, <1>2, <1>5 DEF WriteForward, GoApp
<1>7. \A k \in Node : app'[k] = app[k] \/ app'[k] = Idle
  BY <1>6 DEF TypeOK, NodeTypeOK
<1>8. CASE node = n
  <2>1. UNCHANGED <<chan, pendingPeerMsgs>>
    BY <1>6, <1>8 DEF ForwardEvent
  <2> QED
    BY <1>6, <1>7, <2>1, PortsQuiet DEF portVars, coreVars
<1>9. CASE IsPeer(n, node)
  <2>1. PICK i \in Inv : i = peers[<<n, node>>] /\ <<i, n>> \in End /\ node = Other(i, n)
    BY <1>3, <1>9 DEF IsPeer, PeersInv, PeersAreEnds, End
  <2>2. PICK e \in End : e = <<i, node>>
    <3>1. <<i, Other(i, n)>> \in End
      BY <2>1, EndPair
    <3> QED
      BY <2>1, <3>1
  <2>3. chan' = [chan EXCEPT ![e] = Append(@, m)] /\ UNCHANGED pendingPeerMsgs
    BY <1>6, <1>9, <2>1, <2>2, NoneFacts DEF ForwardEvent, SendTo, IsPeer
  <2>4. MessageInv(e[1], e[2], m)
    BY <1>5 DEF MessageInv
  <2>5. PortsKept
    BY <1>6, AsideKept DEF portVars, coreVars, IsPeer
  <2>6. \A k \in Node : RequestInv(k)'
    BY <1>6, <1>7, <2>5, RequestStays DEF PortsInv, Idle
  <2> QED
    BY <1>6, <1>7, <2>3, <2>4, <2>6, PortsSend DEF portVars, coreVars
<1> QED
  BY <1>4, <1>8, <1>9

LEMMA PortsUserMessage ==
    ASSUME TypeOK, PortsInv, NEW i \in Inv, NEW n \in Node, <<i, n>> \in End,
           HandleAcceptInvitee(i, n) \/ HandleUserMessage(i, n), UNCHANGED coreVars
    PROVE  PortsInv'
<1>1. Pop(i, n) /\ io[n] = Idle /\ chan[<<i, n>>] # <<>>
  BY DEF HandleAcceptInvitee, HandleUserMessage, Receive
<1>2. UNCHANGED <<ports, peerNode, peerPort, peerMap, made, offeredBy, nameOf, attached,
                  reserved, pipes, peers, pendingMerges, pendingPeerMsgs, app>>
  BY DEF HandleAcceptInvitee, HandleUserMessage, AcceptMessage, portVars, coreVars
<1>3. \A m \in Node : io'[m] = io[m] \/ (m = n /\ io'[m].step \in {"accept", "add_peer"})
  BY DEF HandleAcceptInvitee, HandleUserMessage, GoIo, TypeOK, NodeTypeOK
<1> QED
  BY <1>1, <1>2, <1>3, PortsTake

LEMMA PortsWrite ==
    ASSUME TypeOK, PortsInv, NEW p \in Port, NEW m \in Msg, Write(p, m)
    PROVE  PortsInv'
<1>1. /\ p \in pipes
      /\ app' = [app EXCEPT ![Owner(p)] = [step |-> "write", from |-> p, to |-> peerPort[p],
                                           data |-> m]]
      /\ UNCHANGED <<ports, peerNode, peerPort, peerMap, made, offeredBy, nameOf, attached,
                     reserved, pipes, peers, chan, pendingMerges, pendingPeerMsgs, io>>
  BY DEF Write, GoApp, portVars
<1>2. p[1] \in made
  BY <1>1 DEF PortsInv, PipesInv
<1>3. \A n \in Node : \/ app'[n] = app[n]
                      \/ /\ app'[n].step = "write"
                         /\ app'[n].from[1] \in made /\ Owner(app'[n].from) = n
  BY <1>1, <1>2 DEF TypeOK, NodeTypeOK
<1> QED
  BY <1>1, <1>3, PortsQuiet

-----------------------------------------------------------------------------
(* Steps that change ports.                                                  *)

\* A new pair disturbs no other one.
LEMMA CreateKept ==
    ASSUME TypeOK, PortsInv, NEW c \in Call, c \notin made, made' = made \cup {c},
           CreatePortPair(c), UNCHANGED peers,
           \A p \in Port : p[1] # c => offeredBy'[p] = offeredBy[p] /\ nameOf'[p] = nameOf[p]
    PROVE  /\ PortsKept /\ PairInv(c)' /\ PeerMapInv'
           /\ \A d \in Call : d # c => PairKept(d)
<1>1. /\ ports' = ports \cup {Port0(c), Port1(c)}
      /\ \A p \in Port : p[1] # c => peerNode'[p] = peerNode[p] /\ peerPort'[p] = peerPort[p]
      /\ \A p \in Port : p[1] = c => peerNode'[p] = callNode[c] /\ peerPort'[p] = Sibling(p)
  BY DEF CreatePortPair
<1>2. PortsKept
  BY <1>1 DEF PortsKept, IsPeer
<1>3. ASSUME NEW d \in Call, d # c PROVE PairKept(d)
  BY <1>1, <1>3, PairFacts DEF PairKept
<1>4. PairInv(c)'
  BY <1>1, PairFacts DEF PairInv, Points, Paired
<1>5. PeerMapInv'
  <2>1. /\ peerMap' = peerMap \cup { <<callNode[c], callNode[c], Port1(c), Port0(c)>>,
                                     <<callNode[c], callNode[c], Port0(c), Port1(c)>> }
    BY DEF CreatePortPair
  <2> QED
    BY <2>1, PairFacts DEF PortsInv, PeerMapInv
<1> QED
  BY <1>2, <1>3, <1>4, <1>5

LEMMA PortsCreate ==
    ASSUME TypeOK, PortsInv, NEW c \in Call, c \notin made, made' = made \cup {c},
           CreatePortPair(c),
           \A p \in Port : p[1] # c => offeredBy'[p] = offeredBy[p] /\ nameOf'[p] = nameOf[p],
           UNCHANGED <<chan, peers, reserved, pendingPeerMsgs, io>>,
           pipes' \subseteq pipes \cup {Port0(c)},
           \A i \in Inv, name \in Name : attached'[<<i, name>>] \in {attached[<<i, name>>], Port1(c)},
           \A i \in Inv, name \in Name : attached'[<<i, name>>] = Port1(c) => Waits(Port1(c), i, name)',
           OfferInv(c)', \A n \in Node : RequestInv(n)',
           \A n \in Node : app'[n] = app[n] \/ app'[n].step # "write"
    PROVE  PortsInv'
<1>1. /\ PortsKept /\ PairInv(c)' /\ PeerMapInv'
      /\ \A d \in Call : d # c => PairKept(d)
  BY CreateKept
<1>2. ASSUME NEW d \in Call PROVE PairInv(d)' /\ OfferInv(d)'
  <2>1. CASE d # c
    <3>1. PairInv(d) /\ OfferInv(d) /\ io'[callNode[d]] = io[callNode[d]]
      BY DEF PortsInv
    <3> QED
      BY <1>1, <2>1, <3>1, PairStays, OfferStays
  <2> QED
    BY <1>1, <2>1
<1>3. ports \subseteq ports'
  BY DEF CreatePortPair
<1>4. ASSUME NEW p \in Port, NEW i \in Inv, NEW name, Waits(p, i, name)
      PROVE  p \in ports' /\ p \notin pipes' /\ p # Port1(c)
  BY <1>3, <1>4, PairFacts DEF Waits
<1>5. AttachedInv'
  <2>1. ASSUME NEW i \in Inv, NEW name \in Name, NEW p \in Port, attached'[<<i, name>>] = p
        PROVE  Waits(p, i, name)'
    <3>1. CASE p = Port1(c)
      BY <2>1, <3>1
    <3>2. CASE p # Port1(c)
      <4>1. Waits(p, i, name)
        BY <2>1, <3>2 DEF PortsInv, AttachedInv
      <4> QED
        BY <1>1, <1>4, <4>1, WaitsKept
    <3> QED
      BY <3>1, <3>2
  <2> QED
    BY <2>1 DEF AttachedInv
<1>6. ReservedInv'
  <2>1. \A n \in Node, k \in NodeName, name \in Name :
            ReservedPort(n, k, name)' = ReservedPort(n, k, name)
    BY DEF ReservedPort
  <2>2. \A i \in Inv, name \in Name, p \in Port :
            p[1] \in made /\ attached'[<<i, name>>] = p => attached[<<i, name>>] = p
    BY PairFacts
  <2>3. \A n \in Node, k \in NodeName, name \in Name, p \in Port, i \in Inv :
            ReservedFor(p, i, n, k, name) => p \in ports' /\ p \notin pipes'
    BY <1>4 DEF ReservedFor
  <2> QED
    BY <1>1, <2>1, <2>2, <2>3, ReservedStays DEF PortsInv
<1>7. ASSUME NEW n \in Node PROVE IoInv(n)'
  <2>1. IoInv(n)
    BY DEF PortsInv
  <2>2. ASSUME io[n].step = "store_port" PROVE PairKept(io[n].local[1])
    <3>1. io[n].local[1] \in made /\ io[n].local \in Port
      BY <2>1, <2>2 DEF IoInv, TypeOK, NodeTypeOK, IoState
    <3> QED
      BY <1>1, <3>1, PairFacts
  <2> QED
    BY <1>1, <2>1, <2>2, IoStays
<1>8. ChanInv' /\ NothingPending'
  BY <1>1, ChanStays DEF PortsInv, NothingPending
<1>9. PipesInv'
  BY PairFacts DEF PortsInv, PipesInv
<1> QED
  BY <1>1, <1>2, <1>5, <1>6, <1>7, <1>8, <1>9 DEF PortsInv

LEMMA PortsAttach ==
    ASSUME TypeOK, PortsInv, NEW c \in Call, NEW i \in Inv, NEW name \in Name, Attach(c, i, name)
    PROVE  PortsInv' /\ PortsKept
<1>1. /\ callNode[c] = inviterOf[i] /\ c \notin made /\ made' = made \cup {c} /\ CreatePortPair(c)
      /\ UNCHANGED <<chan, peers, reserved, pendingPeerMsgs, pendingMerges, io, app>>
  BY DEF Attach, nodeVars
<1>2. /\ attached \in [Inv \X Name -> PortName] /\ pipes \subseteq Port
      /\ nameOf \in [Port -> Name \cup {None}] /\ offeredBy \in [Port -> Inv \cup {None}]
  BY DEF TypeOK, CoreTypeOK
<1>3. \A p \in Port : p[1] # c => offeredBy'[p] = offeredBy[p] /\ nameOf'[p] = nameOf[p]
  BY <1>2, PairFacts DEF Attach
<1>4. Port1(c) \notin pipes /\ Fresh(c)
  BY <1>1, PairFacts DEF PortsInv, PipesInv, PairInv
<1>5. PortsKept
  BY <1>1, <1>3, CreateKept
<1>6. \A n \in Node : RequestInv(n)'
  BY <1>1, <1>5, RequestStays DEF PortsInv
<1>7. CASE attached[<<i, name>>] = None
  <2>1. /\ attached' = [attached EXCEPT ![<<i, name>>] = Port1(c)]
        /\ nameOf' = [nameOf EXCEPT ![Port0(c)] = name, ![Port1(c)] = name]
        /\ offeredBy' = [offeredBy EXCEPT ![Port0(c)] = i, ![Port1(c)] = i]
        /\ pipes' = pipes \cup {Port0(c)}
    BY <1>7 DEF Attach, GetHandle
  <2>2. \A p \in {Port0(c), Port1(c)} : nameOf'[p] = name /\ offeredBy'[p] = i
    BY <1>2, <2>1, PairFacts
  <2>3. OfferInv(c)'
    BY <1>1, <2>2 DEF OfferInv
  <2>4. /\ \A j \in Inv, m \in Name : attached'[<<j, m>>] \in {attached[<<j, m>>], Port1(c)}
        /\ attached'[<<i, name>>] = Port1(c)
        /\ \A j \in Inv, m \in Name :
             <<j, m>> # <<i, name>> => attached'[<<j, m>>] = attached[<<j, m>>]
    BY <1>2, <2>1
  <2>5. ASSUME NEW j \in Inv, NEW m \in Name, attached'[<<j, m>>] = Port1(c)
        PROVE  Waits(Port1(c), j, m)'
    <3>1. attached[<<j, m>>] # Port1(c)
      BY <1>1, PairFacts DEF PortsInv, AttachedInv, Waits
    <3>2. j = i /\ m = name
      BY <2>4, <2>5, <3>1
    <3>3. Port1(c) \in ports' /\ Port1(c) \notin pipes'
      BY <1>1, <1>4, <2>1, PairFacts DEF CreatePortPair
    <3> QED
      BY <1>1, <2>2, <3>2, <3>3, PairFacts DEF Waits
  <2> QED
    BY <1>1, <1>3, <1>5, <1>6, <2>1, <2>3, <2>4, <2>5, PortsCreate
<1>8. CASE attached[<<i, name>>] # None
  <2>1. UNCHANGED <<attached, pipes, nameOf, offeredBy>>
    BY <1>8 DEF Attach
  <2>2. OfferInv(c)'
    BY <1>4, <2>1 DEF OfferInv, Fresh
  <2>3. \A j \in Inv, m \in Name : attached'[<<j, m>>] # Port1(c)
    BY <1>1, <2>1, PairFacts DEF PortsInv, AttachedInv, Waits
  <2> QED
    BY <1>1, <1>3, <1>5, <1>6, <2>1, <2>2, <2>3, PortsCreate
<1> QED
  BY <1>7, <1>8

LEMMA PortsExtract ==
    ASSUME TypeOK, PortsInv, NEW c \in Call, NEW i \in Inv, NEW name \in Name, Extract(c, i, name)
    PROVE  PortsInv' /\ PortsKept
<1>1. PICK n \in Node : n = callNode[c]
  BY PairFacts
<1>2. /\ c \notin made /\ made' = made \cup {c} /\ CreatePortPair(c)
      /\ pipes' = pipes \cup {Port0(c)}
      /\ nameOf' = [nameOf EXCEPT ![Port0(c)] = name]
      /\ MergePortIntoInviter(n, name, Port0(c))
      /\ UNCHANGED <<chan, peers, reserved, pendingPeerMsgs, io, attached, offeredBy>>
  BY <1>1 DEF Extract, GetHandle
<1>3. /\ nameOf'[Port0(c)] = name
      /\ \A p \in Port : p[1] # c => offeredBy'[p] = offeredBy[p] /\ nameOf'[p] = nameOf[p]
  BY <1>2, PairFacts DEF TypeOK, CoreTypeOK
<1>4. Fresh(c)
  BY <1>2 DEF PortsInv, PairInv
<1>5. PortsKept
  BY <1>2, <1>3, CreateKept
<1>6. OfferInv(c)'
  BY <1>2, <1>4 DEF OfferInv, Fresh
<1>7. \A j \in Inv, m \in Name : attached'[<<j, m>>] # Port1(c)
  BY <1>2, PairFacts DEF PortsInv, AttachedInv, Waits
<1>8. Extracted(Port0(c), n, name)'
  BY <1>1, <1>2, <1>3, <1>4, PairFacts DEF Extracted, Fresh
<1>9. /\ \A k \in Node \ {n} : pendingMerges'[k] = pendingMerges[k] /\ app'[k] = app[k]
      /\ \/ pendingMerges'[n] = Append(pendingMerges[n], <<name, Port0(c)>>) /\ app'[n] = app[n]
         \/ /\ pendingMerges'[n] = pendingMerges[n]
            /\ app'[n].step = "request" /\ app'[n].name = name /\ app'[n].port = Port0(c)
  <2>1. app \in [Node -> AppState] /\ pendingMerges \in [Node -> Seq(Name \X Port)]
    BY DEF TypeOK, NodeTypeOK
  <2> QED
    BY <1>2, <2>1 DEF MergePortIntoInviter, GoApp
<1>10. ASSUME NEW k \in Node, k # n PROVE RequestInv(k)'
  BY <1>2, <1>5, <1>9, <1>10, RequestStays DEF PortsInv
<1>11. RequestInv(n)'
  <2>1. RequestInv(n) /\ io'[n] = io[n]
    BY <1>2 DEF PortsInv
  <2>2. ASSUME NEW k \in 1 .. Len(pendingMerges'[n])
        PROVE  Extracted(pendingMerges[n][k][2], n, pendingMerges[n][k][1])'
    <3>1. PICK x : x = pendingMerges'[n][k]
      OBVIOUS
    <3>2. (k \in 1 .. Len(pendingMerges[n]) /\ x = pendingMerges[n][k]) \/ x = <<name, Port0(c)>>
      <4>1. pendingMerges[n] \in Seq(Name \X Port) /\ <<name, Port0(c)>> \in Name \X Port
        BY PairFacts DEF TypeOK, NodeTypeOK
      <4> DEFINE s == pendingMerges[n]
                 t == Append(s, <<name, Port0(c)>>)
      <4>2. /\ Len(s) \in Nat /\ Len(t) = Len(s) + 1 /\ t[Len(s) + 1] = <<name, Port0(c)>>
            /\ \A l \in 1 .. Len(s) : t[l] = s[l]
        BY <4>1, AppendProperties, LenProperties
      <4> HIDE DEF s, t
      <4>3. pendingMerges'[n] = t \/ pendingMerges'[n] = s
        BY <1>9 DEF s, t
      <4>4. CASE pendingMerges'[n] = s
        BY <3>1, <4>4 DEF s
      <4>5. CASE pendingMerges'[n] = t
        BY <2>2, <3>1, <4>2, <4>5 DEF s
      <4> QED
        BY <4>3, <4>4, <4>5
    <3>3. Extracted(x[2], n, x[1])'
      <4>1. CASE x = <<name, Port0(c)>>
        BY <1>8, <4>1 DEF Extracted
      <4>2. CASE k \in 1 .. Len(pendingMerges[n]) /\ x = pendingMerges[n][k]
        <5>1. Extracted(x[2], n, x[1])
          BY <2>1, <4>2 DEF RequestInv
        <5> QED
          BY <1>5, <5>1, ExtractedKept
      <4> QED
        BY <3>2, <4>1, <4>2
    <3> QED
      BY <3>1, <3>3 DEF Extracted
  <2>3. ASSUME io'[n].step = "flush", NEW k \in 1 .. Len(io'[n].merges)
        PROVE  Extracted(io[n].merges[k][2], n, io[n].merges[k][1])'
    BY <1>5, <2>1, <2>3 DEF RequestInv, Extracted, PortsKept
  <2>4. ASSUME app'[n].step = "request"
        PROVE  Extracted(app[n].port, n, app[n].name)'
    <3>1. CASE app'[n] = app[n]
      BY <1>5, <2>1, <2>4, <3>1 DEF RequestInv, Extracted, PortsKept
    <3>2. CASE app'[n].port = Port0(c) /\ app'[n].name = name
      <4>1. PICK p : p = Port0(c) /\ app'[n].port = p
        BY <3>2
      <4>2. Extracted(p, n, name)'
        BY <1>8, <4>1 DEF Extracted
      <4> QED
        BY <3>2, <4>1, <4>2 DEF Extracted, Owner
    <3>3. app'[n] # app[n] => app'[n].port = Port0(c) /\ app'[n].name = name
      BY <1>9
    <3> QED
      BY <3>1, <3>2, <3>3
  <2> QED
    BY <2>2, <2>3, <2>4 DEF RequestInv
<1>12. \A k \in Node : RequestInv(k)'
  BY <1>10, <1>11
<1>13. ASSUME NEW k \in Node PROVE app'[k] = app[k] \/ app'[k].step # "write"
  <2>1. CASE app'[k] = app[k]
    BY <2>1
  <2>2. CASE k = n /\ app'[n] # app[n]
    BY <1>9, <2>2
  <2> QED
    BY <1>9, <2>1, <2>2
<1> QED
  BY <1>2, <1>3, <1>5, <1>6, <1>7, <1>12, <1>13, PortsCreate

\* A port waits for one invitation under one name, and a reserved one for its own key.
LEMMA WaitsOnce ==
    ASSUME NEW p, NEW i, NEW j, NEW l, NEW m, Waits(p, i, l), Waits(p, j, m)
    PROVE  i = j /\ l = m
BY DEF Waits

LEMMA PortsSendInvitation ==
    ASSUME TypeOK, HandshakeInv, PortsInv, NEW i \in Inv, CoreSendInvitation(i)
    PROVE  PortsInv' /\ PortsKept
<1>1. PICK n \in Node : n = inviterOf[i]
  BY InvFacts
<1>2. /\ reserved' = [reserved EXCEPT ![<<n, i>>] = [m \in Name |-> attached[<<i, m>>]]]
      /\ attached' = [e \in Inv \X Name |-> IF e[1] = i THEN None ELSE attached[e]]
      /\ chan' = [chan EXCEPT ![<<i, inviteeOf[i]>>] = Append(@, Offer(i))]
      /\ UNCHANGED <<portVars, peers, pendingPeerMsgs, pendingMerges, io, app,
                     made, pipes, nameOf, offeredBy>>
  BY <1>1, InvFacts DEF CoreSendInvitation, SendInvitation, SendTo, Offer
<1>3. /\ \A j \in Inv, m \in Name : attached'[<<j, m>>] \in {attached[<<j, m>>], None}
      /\ \A m \in Name : attached'[<<i, m>>] = None
  BY <1>2
<1>4. \A j, k \in Node : IsPeer(j, k) => IsPeer(j, k)'
  BY <1>2 DEF IsPeer
<1>5. PortsKept
  BY <1>2, <1>4, AsideKept DEF portVars
<1>6. AttachedInv'
  <2>1. ASSUME NEW j \in Inv, NEW m \in Name, NEW p \in Port, attached'[<<j, m>>] = p
        PROVE  Waits(p, j, m)'
    <3>1. Waits(p, j, m)
      BY <1>3, <2>1, NoneFacts DEF PortsInv, AttachedInv
    <3> QED
      BY <1>2, <3>1 DEF Waits, portVars
  <2> QED
    BY <2>1 DEF AttachedInv
<1>7. /\ \A k \in Node, l \in NodeName, m \in Name :
           <<k, l>> # <<n, i>> => ReservedPort(k, l, m)' = ReservedPort(k, l, m)
      /\ \A m \in Name : ReservedPort(n, i, m)' \in {None, attached[<<i, m>>]}
  <2>1. reserved \in [Node \X NodeName -> PortMap \cup {None}] /\ i \in NodeName
    BY DEF TypeOK, NodeTypeOK, NodeName
  <2> QED
    BY <1>2, <2>1 DEF ReservedPort
<1>8. ReservedInv'
  <2> SUFFICES ASSUME NEW k \in Node, NEW l \in NodeName, NEW m \in Name, NEW p \in Port,
                      ReservedPort(k, l, m)' = p
               PROVE  \E j \in Inv : ReservedFor(p, j, k, l, m)'
    BY DEF ReservedInv
  <2>1. inviteeOf[i] \in NodeName /\ inviteeOf[i] \in Node /\ inviteeOf[i] # i
    BY InvFacts, NoneFacts DEF NodeName
  <2>2. CASE <<k, l>> = <<n, i>>
    <3>1. attached[<<i, m>>] = p
      BY <1>7, <2>2, NoneFacts
    <3>2. Waits(p, i, m)
      BY <3>1 DEF PortsInv, AttachedInv
    <3>3. ReservedPort(n, inviteeOf[i], m) # p
      <4>1. ASSUME ReservedPort(n, inviteeOf[i], m) = p PROVE FALSE
        <5>1. PICK j \in Inv : ReservedFor(p, j, n, inviteeOf[i], m)
          BY <2>1, <4>1 DEF PortsInv, ReservedInv
        <5>2. j = i
          BY <3>2, <5>1, WaitsOnce DEF ReservedFor
        <5> QED
          BY <3>1, <5>1, <5>2 DEF ReservedFor
      <4> QED
        BY <4>1
    <3>4. ReservedPort(n, inviteeOf[i], m)' # p
      BY <1>7, <2>1, <3>3
    <3>5. Waits(p, i, m)'
      BY <1>2, <3>2 DEF Waits, portVars
    <3> QED
      BY <1>1, <1>3, <2>2, <3>4, <3>5, NoneFacts DEF ReservedFor
  <2>3. CASE <<k, l>> # <<n, i>>
    <3>1. PICK j \in Inv : ReservedFor(p, j, k, l, m)
      BY <1>7, <2>3 DEF PortsInv, ReservedInv
    <3>2. Waits(p, j, m)'
      BY <1>2, <3>1 DEF ReservedFor, Waits, portVars
    <3>3. attached'[<<j, m>>] # p
      BY <1>3, <3>1, NoneFacts DEF ReservedFor
    <3>4. l = j => ReservedPort(k, inviteeOf[j], m)' # p
      <4>1. inviteeOf[j] \in NodeName /\ inviteeOf[j] # i
        BY InvFacts, NoneFacts DEF NodeName
      <4> QED
        BY <1>7, <3>1, <4>1 DEF ReservedFor
    <3> QED
      BY <3>1, <3>2, <3>3, <3>4 DEF ReservedFor
  <2> QED
    BY <2>2, <2>3
<1>9. PICK e \in End : e = <<i, inviteeOf[i]>>
  BY EndPair
<1>10. PICK u \in Message : u = Offer(i)
  BY InvFacts DEF Offer, Message
<1>11. ChanInv'
  <2>1. MessageInv(e[1], e[2], u)'
    BY <1>10 DEF MessageInv, Offer
  <2>2. chan' = [chan EXCEPT ![e] = Append(@, u)]
    BY <1>2, <1>9, <1>10
  <2> QED
    BY <1>5, <2>1, <2>2, ChanSent DEF PortsInv
<1>12. \A k \in Node : RequestInv(k)'
  BY <1>2, <1>5, RequestStays DEF PortsInv
<1>13. PipesInv' /\ NothingPending'
  BY <1>2 DEF PortsInv, PipesInv, NothingPending
<1> QED
  BY <1>2, <1>4, <1>5, <1>6, <1>8, <1>11, <1>12, <1>13, PortsApart DEF portVars

LEMMA PortsExtractLocal ==
    ASSUME TypeOK, PortsInv, NEW i \in Inv, NEW name \in Name, ExtractLocal(i, name)
    PROVE  PortsInv' /\ PortsKept
<1>1. PICK p \in Port : p = attached[<<i, name>>]
  BY DEF ExtractLocal, TypeOK, CoreTypeOK, PortName
<1>2. /\ attached' = [attached EXCEPT ![<<i, name>>] = None]
      /\ pipes' = pipes \cup {p}
      /\ UNCHANGED <<portVars, nodeVars, made, nameOf, offeredBy>>
  BY <1>1 DEF ExtractLocal, GetHandle
<1>3. /\ \A j \in Inv, m \in Name : attached'[<<j, m>>] \in {attached[<<j, m>>], None}
      /\ attached'[<<i, name>>] = None
  BY <1>2 DEF TypeOK, CoreTypeOK
<1>4. \A j, k \in Node : IsPeer(j, k) => IsPeer(j, k)'
  BY <1>2 DEF IsPeer, nodeVars
<1>5. PortsKept
  BY <1>2, <1>4, AsideKept DEF portVars
<1>6. Waits(p, i, name)
  BY <1>1 DEF PortsInv, AttachedInv
<1>7. ASSUME NEW q \in Port, NEW j \in Inv, NEW m \in Name, Waits(q, j, m), q # p
      PROVE  Waits(q, j, m)'
  BY <1>2, <1>7 DEF Waits, portVars
<1>8. AttachedInv'
  <2>1. ASSUME NEW j \in Inv, NEW m \in Name, NEW q \in Port, attached'[<<j, m>>] = q
        PROVE  Waits(q, j, m)'
    <3>1. attached[<<j, m>>] = q /\ Waits(q, j, m)
      BY <1>3, <2>1, NoneFacts DEF PortsInv, AttachedInv
    <3>2. q # p
      BY <1>3, <1>6, <2>1, <3>1, WaitsOnce, NoneFacts
    <3> QED
      BY <1>7, <3>1, <3>2
  <2> QED
    BY <2>1 DEF AttachedInv
<1>9. ReservedInv'
  <2> SUFFICES ASSUME NEW k \in Node, NEW l \in NodeName, NEW m \in Name, NEW q \in Port,
                      ReservedPort(k, l, m)' = q
               PROVE  \E j \in Inv : ReservedFor(q, j, k, l, m)'
    BY DEF ReservedInv
  <2>1. \A x \in NodeName : ReservedPort(k, x, m)' = ReservedPort(k, x, m)
    BY <1>2 DEF ReservedPort, nodeVars
  <2>2. PICK j \in Inv : ReservedFor(q, j, k, l, m)
    BY <2>1 DEF PortsInv, ReservedInv
  <2>3. q # p
    BY <1>1, <1>6, <2>2, WaitsOnce DEF ReservedFor
  <2>4. Waits(q, j, m)' /\ attached'[<<j, m>>] # q
    BY <1>3, <1>7, <2>2, <2>3, NoneFacts DEF ReservedFor
  <2>5. l = j => ReservedPort(k, inviteeOf[j], m)' # q
    <3>1. inviteeOf[j] \in NodeName
      BY InvFacts DEF NodeName
    <3> QED
      BY <2>1, <2>2, <3>1 DEF ReservedFor
  <2> QED
    BY <2>2, <2>4, <2>5 DEF ReservedFor
<1>10. ChanInv' /\ NothingPending'
  BY <1>2, <1>5, ChanStays DEF PortsInv, NothingPending, nodeVars
<1>11. \A k \in Node : RequestInv(k)'
  BY <1>2, <1>5, RequestStays DEF PortsInv, nodeVars
<1>12. PipesInv'
  BY <1>2, <1>6 DEF PortsInv, PipesInv, Waits, nodeVars
<1> QED
  BY <1>2, <1>4, <1>5, <1>8, <1>9, <1>10, <1>11, <1>12, PortsApart DEF portVars, nodeVars

\* The entry of an invitation moves under the invitee's name, unless there is one.
LEMMA ReservedMoves ==
    ASSUME TypeOK, PortsInv, NEW i \in Inv, NEW n \in Node, n = inviterOf[i],
           reserved' = MoveReserved(n, i, inviteeOf[i]),
           UNCHANGED <<ports, made, nameOf, offeredBy, attached, pipes>>
    PROVE  ReservedInv'
<1>1. PICK b \in Node : b = inviteeOf[i] /\ b # i /\ b \in NodeName /\ i \in NodeName
  BY InvFacts, NoneFacts DEF NodeName
<1>2. /\ \A k \in Node, l \in NodeName, m \in Name :
           <<k, l>> \notin {<<n, i>>, <<n, b>>} => ReservedPort(k, l, m)' = ReservedPort(k, l, m)
      /\ \A m \in Name : ReservedPort(n, i, m)' = None
      /\ \A m \in Name : ReservedPort(n, b, m)' \in {ReservedPort(n, b, m), ReservedPort(n, i, m)}
  <2>1. reserved \in [Node \X NodeName -> PortMap \cup {None}]
    BY DEF TypeOK, NodeTypeOK
  <2>2. /\ \A k \in Node, l \in NodeName :
             <<k, l>> \notin {<<n, i>>, <<n, b>>} => reserved'[<<k, l>>] = reserved[<<k, l>>]
        /\ reserved'[<<n, i>>] = None
        /\ reserved'[<<n, b>>] \in {reserved[<<n, b>>], reserved[<<n, i>>]}
    BY <1>1, <2>1 DEF MoveReserved
  <2> QED
    BY <2>2 DEF ReservedPort
<1> SUFFICES ASSUME NEW k \in Node, NEW l \in NodeName, NEW m \in Name, NEW p \in Port,
                    ReservedPort(k, l, m)' = p
             PROVE  \E j \in Inv : ReservedFor(p, j, k, l, m)'
  BY DEF ReservedInv
<1>3. \A j \in Inv : Waits(p, j, m) => Waits(p, j, m)' /\ attached'[<<j, m>>] = attached[<<j, m>>]
  BY DEF Waits
<1>4. <<k, l>> # <<n, i>>
  BY <1>2, NoneFacts
<1>5. ASSUME ReservedPort(n, i, m) = p
      PROVE  ReservedFor(p, i, n, i, m)
  <2>1. PICK j \in Inv : ReservedFor(p, j, n, i, m)
    BY <1>1, <1>5 DEF PortsInv, ReservedInv
  <2>2. inviteeOf[j] # i
    BY InvFacts, NoneFacts
  <2> QED
    BY <2>1, <2>2 DEF ReservedFor
<1>6. CASE <<k, l>> = <<n, b>> /\ ReservedPort(n, i, m) = p
  <2>1. ReservedFor(p, i, n, i, m)
    BY <1>5, <1>6
  <2> QED
    BY <1>1, <1>3, <1>6, <2>1 DEF ReservedFor
<1>7. CASE ReservedPort(k, l, m) = p
  <2>1. PICK j \in Inv : ReservedFor(p, j, k, l, m)
    BY <1>7 DEF PortsInv, ReservedInv
  <2>2. ASSUME l = j PROVE ReservedPort(k, inviteeOf[j], m)' # p
    <3>1. inviteeOf[j] \in NodeName /\ inviteeOf[j] # i
      BY InvFacts, NoneFacts DEF NodeName
    <3>2. ReservedPort(k, inviteeOf[j], m) # p
      BY <2>1, <2>2 DEF ReservedFor
    <3>3. ASSUME k = n, ReservedPort(n, i, m) = p PROVE FALSE
      <4>1. ReservedFor(p, i, n, i, m)
        BY <1>5, <3>3
      <4>2. i = j
        BY <2>1, <4>1, WaitsOnce DEF ReservedFor
      <4> QED
        BY <1>4, <2>2, <3>3, <4>2
    <3>4. CASE <<k, inviteeOf[j]>> = <<n, b>>
      BY <1>2, <3>2, <3>3, <3>4
    <3>5. CASE <<k, inviteeOf[j]>> # <<n, b>>
      <4>1. <<k, inviteeOf[j]>> # <<n, i>>
        BY <3>1
      <4> QED
        BY <1>2, <3>1, <3>2, <3>5, <4>1
    <3> QED
      BY <3>4, <3>5
  <2> QED
    BY <1>3, <2>1, <2>2 DEF ReservedFor
<1> QED
  BY <1>2, <1>4, <1>6, <1>7

LEMMA InviterAcceptPops ==
    ASSUME TypeOK, HandshakeInv, PortsInv, NEW i \in Inv, NEW n \in Node, <<i, n>> \in End,
           HandleAcceptInvitation(i, n)
    PROVE  NothingPending' /\ Pop(i, n) /\ chan[<<i, n>>] # <<>>
<1>1. PICK b \in Node : b = inviteeOf[i] /\ b \in NodeName
  BY InvFacts DEF NodeName
<1>2. /\ AddPeer(n, b, i)
      /\ chan' = [Popped(i, n) EXCEPT ![<<i, b>>] = @ \o AddPeerFlush(n, b)]
  BY <1>1, InviterAcceptStep
<1>3. NothingPending' /\ AddPeerFlush(n, b) = <<>>
  BY <1>1, <1>2, NothingFlushed DEF PortsInv
<1>4. PICK f : f = Popped(i, n)
  OBVIOUS
<1>5. f \in [Inv \X Node -> Seq(Message)] /\ chan[<<i, n>>] # <<>>
  <2>1. chan \in [Inv \X Node -> Seq(Message)] /\ chan[<<i, n>>] # <<>>
    BY DEF HandleAcceptInvitation, Receive, TypeOK, NodeTypeOK
  <2>2. Tail(chan[<<i, n>>]) \in Seq(Message)
    BY <2>1, HeadTailProperties
  <2> QED
    BY <1>4, <2>1, <2>2 DEF Popped
<1>6. f[<<i, b>>] \o <<>> = f[<<i, b>>]
  BY <1>5
<1> QED
  BY <1>2, <1>3, <1>4, <1>5, <1>6 DEF Pop

LEMMA PortsInviterAccept ==
    ASSUME TypeOK, HandshakeInv, PeersInv, PortsInv, NEW i \in Inv, NEW n \in Node,
           <<i, n>> \in End, HandleAcceptInvitation(i, n), UNCHANGED coreVars
    PROVE  PortsInv' /\ PortsKept
<1>1. PICK b \in Node : b = inviteeOf[i]
  BY InvFacts
<1>2. /\ n = inviterOf[i] /\ AddPeer(n, b, i)
      /\ chan' = [Popped(i, n) EXCEPT ![<<i, b>>] = @ \o AddPeerFlush(n, b)]
      /\ reserved' = MoveReserved(n, i, inviteeOf[i])
      /\ UNCHANGED <<portVars, pendingMerges, io, app>>
  BY <1>1, InviterAcceptStep
<1>3. b # n /\ Other(i, n) = b /\ b \in NodeName
  BY <1>1, <1>2, InvFacts DEF NodeName
<1>4. \A j, k \in Node : IsPeer(j, k) => IsPeer(j, k)'
  BY <1>2, <1>3, PeerEnds
<1>5. PortsKept
  BY <1>2, <1>4, AsideKept DEF portVars, coreVars
<1>6. NothingPending' /\ Pop(i, n) /\ chan[<<i, n>>] # <<>>
  BY InviterAcceptPops
<1>8. ChanInv' /\ \A k \in Node : RequestInv(k)'
  BY <1>2, <1>5, <1>6, ChanTaken, RequestStays DEF PortsInv
<1>9. ReservedInv'
  BY <1>2, ReservedMoves DEF portVars, coreVars
<1>10. AttachedInv' /\ PipesInv'
  BY <1>2, <1>5, AttachedStays DEF PortsInv, Waits, PipesInv, portVars, coreVars
<1>11. UNCHANGED <<ports, peerNode, peerPort, peerMap, made, offeredBy, nameOf, io>>
  BY <1>2 DEF portVars, coreVars
<1> QED
  BY <1>4, <1>5, <1>6, <1>8, <1>9, <1>10, <1>11, PortsApart

\* What a handler takes from a channel besides the handshake's messages comes from a peer.
LEMMA FromPeer ==
    ASSUME TypeOK, HandshakeInv, PeersInv, NEW i \in Inv, NEW n \in Node, <<i, n>> \in End,
           chan[<<i, n>>] # <<>>, Head(chan[<<i, n>>]).type \in Later, io[n] = Idle
    PROVE  Done(i) /\ remote[<<i, n>>] = Other(i, n) /\ IsPeer(n, Other(i, n))
<1>1. Done(i)
  <2>1. ASSUME n = inviteeOf[i], Offered(i) PROVE FALSE
    <3>1. Head(chan[<<i, n>>]) = Offer(i)
      BY <2>1, OfferedHead DEF ToInvitee
    <3> QED
      BY <3>1 DEF Offer, Later
  <2>2. ASSUME n = inviterOf[i], Answered(i) PROVE FALSE
    BY <2>2 DEF Answered, ToInviter, Answer, Later
  <2> QED
    BY <2>1, <2>2, HeadTraffic
<1>2. remote[<<i, n>>] = Other(i, n)
  <2>1. InviteeKnows(i)
    BY DEF PeersInv
  <2> QED
    BY <1>1, <2>1, InvFacts DEF InviteeKnows, Done, End
<1>3. Other(i, n) \in Node
  BY EndPair
<1>4. RemoteIsPeer(<<i, n>>[1], <<i, n>>[2])
  BY DEF PeersInv
<1> QED
  BY <1>1, <1>2, <1>3, <1>4 DEF RemoteIsPeer, Idle

\* The first store of MergePorts erases port1 and points port0 at another node.
LEMMA MergeBegins ==
    ASSUME TypeOK, PortsInv, NEW c \in Call, c \in made, Paired(c), NEW node,
           StoreNode(Port1(c), node), UNCHANGED <<made, offeredBy, nameOf, peers>>
    PROVE  /\ PortsKept /\ \A d \in Call : d # c => PairKept(d)
           /\ ports' = ports \ {Port1(c)} /\ Port0(c) \in ports'
           /\ Points(Port1(c), Port0(c))'
           /\ peerNode'[Port0(c)] = node /\ peerPort'[Port0(c)] = Port1(c)
           /\ peerMap' \subseteq peerMap
<1>1. /\ Port0(c) \in ports /\ Points(Port1(c), Port0(c)) /\ Points(Port0(c), Port1(c))
  BY DEF PortsInv, PairInv, Paired
<1>2. Registered(Owner(Port1(c)), peerPort[Port1(c)]) /\ peerPort[Port1(c)] = Port0(c)
  BY <1>1, PairFacts DEF Registered, Points
<1>3. /\ ports' = ports \ {Port1(c)} /\ UNCHANGED peerPort
      /\ peerMap' \subseteq peerMap
      /\ peerNode' = [peerNode EXCEPT ![Port0(c)] = node]
  BY <1>2 DEF StoreNode
<1>4. /\ peerNode'[Port0(c)] = node
      /\ \A p \in Port : p # Port0(c) => peerNode'[p] = peerNode[p]
  BY <1>3, PairFacts DEF TypeOK, PortsTypeOK
<1>5. PortsKept
  <2>1. ASSUME NEW p \in Port, peerPort[p][2] = 0
        PROVE  p # Port0(c)
    BY <1>1, <2>1, PairFacts DEF Points
  <2>2. \A n, m \in Node : IsPeer(n, m) => IsPeer(n, m)'
    BY DEF IsPeer
  <2>3. UNCHANGED peerPort
    BY <1>3
  <2> QED
    BY <1>4, <2>1, <2>2, <2>3 DEF PortsKept
<1>6. ASSUME NEW d \in Call, d # c PROVE PairKept(d)
  BY <1>3, <1>4, <1>6, PairFacts DEF PairKept
<1>7. Port0(c) \in ports'
  BY <1>1, <1>3, PairFacts
<1>8. Points(Port1(c), Port0(c))'
  BY <1>1, <1>3, <1>4, PairFacts DEF Points
<1> QED
  BY <1>1, <1>3, <1>4, <1>5, <1>6, <1>7, <1>8 DEF Points

\* A handler takes a request or an answer, and begins to merge the pair of c.
LEMMA PortsMerge ==
    ASSUME TypeOK, PortsInv, NEW i \in Inv, NEW n \in Node, <<i, n>> \in End,
           chan[<<i, n>>] # <<>>, Pop(i, n), io[n] = Idle,
           NEW c \in Call, c \in made, callNode[c] = n, Paired(c), NEW node,
           StoreNode(Port1(c), node), IsPeer(n, node),
           NEW s, io' = [io EXCEPT ![n] = s],
           s.step = "store_port", s.local = Port0(c), s.node = node, s.port \in Port,
           Owner(s.port) = node,
           IF s.respond THEN Match(Port0(c), s.port)
                        ELSE Match(s.port, Port0(c)) /\ Points(s.port, Port0(c)),
           UNCHANGED <<peers, pendingPeerMsgs, pendingMerges, app, made, offeredBy, nameOf, pipes,
                       attached>>,
           \A j \in Inv, m \in Name : attached[<<j, m>>] = Port1(c) => ~ Waits(Port1(c), j, m),
           ReservedInv'
    PROVE  PortsInv' /\ PortsKept
<1>1. /\ PortsKept /\ \A d \in Call : d # c => PairKept(d)
      /\ ports' = ports \ {Port1(c)} /\ Port0(c) \in ports'
      /\ Points(Port1(c), Port0(c))'
      /\ peerNode'[Port0(c)] = node /\ peerPort'[Port0(c)] = Port1(c)
      /\ peerMap' \subseteq peerMap
  BY MergeBegins
<1>2. io'[n] = s /\ \A k \in Node : k # n => io'[k] = io[k]
  BY DEF TypeOK, NodeTypeOK
<1>3. Half(c)'
  BY <1>1, <1>2 DEF Half
<1>4. ASSUME NEW d \in Call PROVE PairInv(d)' /\ OfferInv(d)'
  <2>1. PairInv(d) /\ OfferInv(d)
    BY DEF PortsInv
  <2>2. CASE d = c
    BY <1>1, <1>3, <2>1, <2>2 DEF PairInv, OfferInv
  <2>3. CASE d # c
    <3>1. Half(d) => io'[callNode[d]] = io[callNode[d]]
      BY <1>2, PairFacts DEF Half, Idle
    <3> QED
      BY <1>1, <2>1, <2>3, <3>1, PairStays, OfferStays
  <2> QED
    BY <2>2, <2>3
<1>5. IoInv(n)'
  <2>1. s.local[1] = c /\ s.local[2] = 0 /\ Owner(s.local) = n
    BY PairFacts
  <2>2. IsPeer(n, node)' /\ node \in Node
    BY <1>1 DEF PortsKept, IsPeer
  <2>3. s.respond => Match(s.local, s.port)'
    BY <1>1, MatchKept
  <2>4. ~ s.respond => Match(s.port, s.local)' /\ Points(s.port, s.local)'
    BY <1>1, MatchKept, MatchFacts, PointsKept
  <2> QED
    BY <1>2, <1>3, <2>1, <2>2, <2>3, <2>4 DEF IoInv
<1>6. ASSUME NEW k \in Node, k # n PROVE IoInv(k)'
  <2>1. IoInv(k)
    BY DEF PortsInv
  <2>2. ASSUME io[k].step = "store_port" PROVE PairKept(io[k].local[1])
    <3>1. io[k].local \in Port /\ Owner(io[k].local) = k
      BY <2>1, <2>2 DEF IoInv, TypeOK, NodeTypeOK, IoState
    <3>2. io[k].local[1] \in Call /\ io[k].local[1] # c
      BY <1>6, <3>1, PairFacts DEF Owner
    <3> QED
      BY <1>1, <3>2
  <2> QED
    BY <1>1, <1>2, <1>6, <2>1, <2>2, IoStays
<1>7. \A k \in Node : IoInv(k)' /\ RequestInv(k)'
  <2>1. \A k \in Node : RequestInv(k)'
    BY <1>1, <1>2, RequestStays DEF PortsInv
  <2> QED
    BY <1>5, <1>6, <2>1
<1>8. AttachedInv'
  BY <1>1, AttachedStays DEF PortsInv, Waits
<1>9. ChanInv' /\ PeerMapInv' /\ PipesInv' /\ NothingPending'
  BY <1>1, ChanTaken DEF PortsInv, PeerMapInv, PipesInv, NothingPending
<1> QED
  BY <1>1, <1>4, <1>7, <1>8, <1>9 DEF PortsInv

\* The reserved port of a request is port1 of a pair that nothing has merged yet, attached
\* to an invitation of the peer that asks.
LEMMA ReservedFacts ==
    ASSUME TypeOK, PortsInv, NEW n \in Node, NEW from \in Node, NEW name \in Name,
           NEW p \in Port, ReservedPort(n, from, name) = p, io[n] = Idle
    PROVE  \E c \in Call, j \in Inv :
             /\ c \in made /\ p = Port1(c) /\ callNode[c] = n /\ Paired(c)
             /\ ReservedFor(p, j, n, from, name) /\ inviteeOf[j] = from
             /\ offeredBy[Port0(c)] = j /\ nameOf[Port0(c)] = name
<1>1. PICK j \in Inv : ReservedFor(p, j, n, from, name)
  BY DEF PortsInv, ReservedInv, NodeName
<1>2. PICK c \in Call : c = p[1] /\ p = Port1(c)
  BY <1>1, PairFacts DEF ReservedFor, Waits
<1>3. c \in made /\ p \in ports /\ offeredBy[p] = j /\ nameOf[p] = name
  BY <1>1, <1>2 DEF ReservedFor, Waits
<1>4. PairInv(c) /\ OfferInv(c)
  BY DEF PortsInv
<1>5. Paired(c)
  BY <1>2, <1>3, <1>4 DEF PairInv, Half, Joined
<1>6. offeredBy[Port0(c)] = j /\ nameOf[Port0(c)] = name /\ callNode[c] = n
  BY <1>1, <1>2, <1>3, <1>4, NoneFacts DEF OfferInv, ReservedFor
<1>7. inviteeOf[j] = from
  BY <1>1, NoneFacts DEF ReservedFor
<1> QED
  BY <1>1, <1>2, <1>3, <1>5, <1>6, <1>7

\* The port that is merged leaves its entry, and was nowhere else.
LEMMA ReservedTaken ==
    ASSUME TypeOK, PortsInv, PortsKept, NEW n \in Node, NEW from \in Node, NEW name \in Name,
           NEW p \in Port, ReservedPort(n, from, name) = p,
           NEW j \in Inv, ReservedFor(p, j, n, from, name), inviteeOf[j] = from,
           reserved' = TakeReserved(n, from, name),
           ports' = ports \ {p}, UNCHANGED <<attached, pipes>>
    PROVE  ReservedInv'
<1>1. from \in NodeName /\ Name # {}
  BY DEF NodeName
<1>2. /\ \A k \in Node, l \in NodeName, m \in Name :
           ReservedPort(k, l, m)' \in {ReservedPort(k, l, m), None}
      /\ ReservedPort(n, from, name)' = None
  <2>1. reserved \in [Node \X NodeName -> PortMap \cup {None}]
    BY DEF TypeOK, NodeTypeOK
  <2>2. reserved[<<n, from>>] \in PortMap /\ reserved[<<n, from>>] # None
    BY <1>1, <2>1, NoneFacts DEF ReservedPort
  <2>3. PICK left : left = [reserved[<<n, from>>] EXCEPT ![name] = None]
    OBVIOUS
  <2>4. /\ \A m \in Name : left[m] \in {reserved[<<n, from>>][m], None}
        /\ left[name] = None
    BY <2>2, <2>3 DEF PortMap
  <2>5. /\ \A k \in Node, l \in NodeName :
             <<k, l>> # <<n, from>> => reserved'[<<k, l>>] = reserved[<<k, l>>]
        /\ reserved'[<<n, from>>] \in {left, None}
    BY <1>1, <2>1, <2>3 DEF TakeReserved
  <2>6. ASSUME NEW m \in Name
        PROVE  /\ ReservedPort(n, from, m)' \in {ReservedPort(n, from, m), None}
               /\ m = name => ReservedPort(n, from, m)' = None
    BY <2>2, <2>4, <2>5 DEF ReservedPort
  <2>7. ASSUME NEW k \in Node, NEW l \in NodeName, NEW m \in Name, <<k, l>> # <<n, from>>
        PROVE  ReservedPort(k, l, m)' = ReservedPort(k, l, m)
    BY <2>5, <2>7 DEF ReservedPort
  <2> QED
    BY <2>6, <2>7
<1>3. ASSUME NEW k \in Node, NEW l \in NodeName, NEW m \in Name, NEW r \in Port, NEW x \in Inv,
             ReservedPort(k, l, m)' = r, ReservedFor(r, x, k, l, m)
      PROVE  r \in ports' /\ r \notin pipes'
  <2>1. ASSUME r = p PROVE FALSE
    <3>1. x = j /\ m = name /\ k = n
      BY <1>3, <2>1, WaitsOnce DEF ReservedFor
    <3>2. ReservedPort(k, l, m) = p
      BY <1>2, <1>3, <2>1, NoneFacts
    <3> QED
      BY <1>2, <1>3, <2>1, <3>1, <3>2, NoneFacts DEF ReservedFor
  <2> QED
    BY <1>3, <2>1 DEF ReservedFor, Waits
<1>4. \A i \in Inv, m \in Name, r \in Port :
          r[1] \in made /\ attached'[<<i, m>>] = r => attached[<<i, m>>] = r
  OBVIOUS
<1> QED
  BY <1>2, <1>3, <1>4, ReservedStays DEF PortsInv

\* OnRequestPortMerge ignores a request, or begins to merge the pair that the name is
\* reserved for with the connector of a peer.
LEMMA RequestMerge ==
    ASSUME TypeOK, HandshakeInv, PeersInv, PortsInv, NEW i \in Inv, NEW n \in Node,
           <<i, n>> \in End, HandleRequestPortMerge(i, n), UNCHANGED coreVars,
           NEW m, m = Head(chan[<<i, n>>]), NEW from, from = Other(i, n)
    PROVE  /\ Pop(i, n) /\ io[n] = Idle /\ chan[<<i, n>>] # <<>> /\ m.type = "RequestPortMerge"
           /\ UNCHANGED <<peers, pendingPeerMsgs, pendingMerges, app, made, offeredBy, nameOf,
                          pipes, attached>>
           /\ from \in Node /\ IsPeer(n, from)
           /\ m.connector \in Port /\ m.name \in Name /\ Extracted(m.connector, from, m.name)
           /\ \/ UNCHANGED <<portVars, reserved, io>>
              \/ \E c \in Call, j \in Inv :
                   /\ c \in made /\ callNode[c] = n /\ Paired(c)
                   /\ ReservedPort(n, from, m.name) = Port1(c)
                   /\ ReservedFor(Port1(c), j, n, from, m.name) /\ inviteeOf[j] = from
                   /\ offeredBy[Port0(c)] = j /\ nameOf[Port0(c)] = m.name
                   /\ reserved' = TakeReserved(n, from, m.name)
                   /\ StoreNode(Port1(c), from)
                   /\ io' = [io EXCEPT ![n] =
                               [step |-> "store_port", local |-> Port0(c), node |-> from,
                                port |-> m.connector, respond |-> TRUE]]
<1>1. /\ Pop(i, n) /\ io[n] = Idle /\ chan[<<i, n>>] # <<>> /\ m.type = "RequestPortMerge"
      /\ UNCHANGED <<peers, pendingPeerMsgs, pendingMerges, app, made, offeredBy, nameOf,
                     pipes, attached>>
  BY DEF HandleRequestPortMerge, Receive, coreVars
<1>2. from \in Node /\ remote[<<i, n>>] = from /\ IsPeer(n, from)
  <2>1. Other(i, n) \in Node
    BY EndPair
  <2> QED
    BY <1>1, <2>1, FromPeer DEF Later
<1>3. m.connector \in Port /\ m.name \in Name /\ Extracted(m.connector, from, m.name)
  <2>1. m \in Message /\ MessageInv(i, n, m)
    BY <1>1, ChanHead DEF PortsInv
  <2> QED
    BY <1>1, <2>1 DEF Message, MessageInv
<1>4. PICK p : p = ReservedPort(n, from, m.name)
  OBVIOUS
<1>5. CASE p = None
  <2>1. UNCHANGED <<portVars, reserved, io>>
    BY <1>2, <1>4, <1>5 DEF HandleRequestPortMerge
  <2> QED
    BY <1>1, <1>2, <1>3, <2>1
<1>6. CASE p # None
  <2>1. p \in Port
    BY <1>2, <1>3, <1>4, <1>6 DEF ReservedPort, TypeOK, NodeTypeOK, PortMap, NodeName, PortName
  <2>2. PICK c \in Call, j \in Inv :
          /\ c \in made /\ p = Port1(c) /\ callNode[c] = n /\ Paired(c)
          /\ ReservedFor(p, j, n, from, m.name) /\ inviteeOf[j] = from
          /\ offeredBy[Port0(c)] = j /\ nameOf[Port0(c)] = m.name
    BY <1>1, <1>2, <1>3, <1>4, <2>1, ReservedFacts
  <2>3. peerPort[p] = Port0(c) /\ Registered(n, Port0(c))
    BY <2>2, PairFacts DEF PortsInv, PairInv, Points, Registered
  <2>4. /\ reserved' = TakeReserved(n, from, m.name)
        /\ StoreNode(Port1(c), from)
        /\ io' = [io EXCEPT ![n] = [step |-> "store_port", local |-> Port0(c), node |-> from,
                                    port |-> m.connector, respond |-> TRUE]]
    BY <1>2, <1>4, <1>6, <2>2, <2>3 DEF HandleRequestPortMerge, GoIo
  <2> QED
    BY <1>1, <1>2, <1>3, <1>4, <2>2, <2>4
<1> QED
  BY <1>5, <1>6

LEMMA PortsRequestPortMerge ==
    ASSUME TypeOK, HandshakeInv, PeersInv, PortsInv, NEW i \in Inv, NEW n \in Node,
           <<i, n>> \in End, HandleRequestPortMerge(i, n), UNCHANGED coreVars
    PROVE  PortsInv' /\ PortsKept
<1>1. PICK m, from : m = Head(chan[<<i, n>>]) /\ from = Other(i, n)
  OBVIOUS
<1>2. /\ Pop(i, n) /\ io[n] = Idle /\ chan[<<i, n>>] # <<>> /\ from \in Node /\ IsPeer(n, from)
      /\ UNCHANGED <<peers, pendingPeerMsgs, pendingMerges, app, made, offeredBy, nameOf, pipes,
                     attached>>
      /\ m.connector \in Port /\ m.name \in Name /\ Extracted(m.connector, from, m.name)
  BY <1>1, RequestMerge
<1>3. CASE UNCHANGED <<portVars, reserved, io>>
  <2>1. PortsKept
    BY <1>2, <1>3, AsideKept DEF portVars, IsPeer
  <2> QED
    BY <1>2, <1>3, <2>1, PortsTake DEF portVars
<1>4. ASSUME NEW c \in Call, NEW j \in Inv,
             c \in made, callNode[c] = n, Paired(c), ReservedPort(n, from, m.name) = Port1(c),
             ReservedFor(Port1(c), j, n, from, m.name), inviteeOf[j] = from,
             offeredBy[Port0(c)] = j, nameOf[Port0(c)] = m.name,
             reserved' = TakeReserved(n, from, m.name), StoreNode(Port1(c), from),
             io' = [io EXCEPT ![n] = [step |-> "store_port", local |-> Port0(c), node |-> from,
                                      port |-> m.connector, respond |-> TRUE]]
      PROVE  PortsInv' /\ PortsKept
  <2>1. PICK s : s = [step |-> "store_port", local |-> Port0(c), node |-> from,
                      port |-> m.connector, respond |-> TRUE]
    OBVIOUS
  <2>2. Match(Port0(c), m.connector)
    BY <1>2, <1>4, PairFacts, NoneFacts DEF Match
  <2>3. PortsKept /\ ports' = ports \ {Port1(c)}
    BY <1>2, <1>4, MergeBegins
  <2>4. ReservedInv'
    <3>1. UNCHANGED <<attached, pipes>> /\ Port1(c) \in Port
      BY <1>2, PairFacts
    <3> QED
      BY <1>2, <1>4, <2>3, <3>1, ReservedTaken
  <2>5. \A x \in Inv, y \in Name : attached[<<x, y>>] = Port1(c) => ~ Waits(Port1(c), x, y)
    BY <1>4, WaitsOnce DEF ReservedFor
  <2>6. /\ io' = [io EXCEPT ![n] = s] /\ s.step = "store_port" /\ s.local = Port0(c)
        /\ s.node = from /\ s.port = m.connector /\ s.respond
    BY <1>4, <2>1
  <2>7. Owner(s.port) = from /\ s.port \in Port /\ Match(Port0(c), s.port)
    BY <1>2, <2>2, <2>6 DEF Extracted
  <2> QED
    BY <1>2, <1>4, <2>4, <2>5, <2>6, <2>7, PortsMerge
<1> QED
  BY <1>1, <1>3, <1>4, RequestMerge

\* OnResponsePortMerge begins to merge the pair of the connector with the granted port, or
\* finds no entry in peer_port_maps_.
LEMMA ResponseMerge ==
    ASSUME TypeOK, HandshakeInv, PeersInv, PortsInv, NEW i \in Inv, NEW n \in Node,
           <<i, n>> \in End, HandleResponsePortMerge(i, n), UNCHANGED coreVars,
           NEW m, m = Head(chan[<<i, n>>]), NEW from, from = Other(i, n)
    PROVE  /\ Pop(i, n) /\ io[n] = Idle /\ chan[<<i, n>>] # <<>> /\ m.type = "ResponsePortMerge"
           /\ UNCHANGED <<peers, pendingPeerMsgs, pendingMerges, app, reserved, made, offeredBy,
                          nameOf, pipes, attached>>
           /\ from \in Node /\ IsPeer(n, from)
           /\ Match(m.port, m.connector) /\ Points(m.port, m.connector)
           /\ Owner(m.connector) = n /\ Owner(m.port) = from
           /\ \/ UNCHANGED <<portVars, io>>
              \/ \E c \in Call :
                   /\ c \in made /\ callNode[c] = n /\ Paired(c) /\ m.connector = Port0(c)
                   /\ offeredBy[Port0(c)] = None
                   /\ StoreNode(Port1(c), from)
                   /\ io' = [io EXCEPT ![n] =
                               [step |-> "store_port", local |-> Port0(c), node |-> from,
                                port |-> m.port, respond |-> FALSE]]
<1>1. /\ Pop(i, n) /\ io[n] = Idle /\ chan[<<i, n>>] # <<>> /\ m.type = "ResponsePortMerge"
      /\ UNCHANGED <<peers, pendingPeerMsgs, pendingMerges, app, reserved, made, offeredBy,
                     nameOf, pipes, attached>>
  BY DEF HandleResponsePortMerge, Receive, coreVars
<1>2. from \in Node /\ remote[<<i, n>>] = from /\ IsPeer(n, from)
  <2>1. Other(i, n) \in Node
    BY EndPair
  <2> QED
    BY <1>1, <2>1, FromPeer DEF Later
<1>3. /\ Match(m.port, m.connector) /\ Points(m.port, m.connector)
      /\ Owner(m.connector) = n /\ Owner(m.port) = from
  <2>1. MessageInv(i, n, m)
    BY <1>1, ChanHead DEF PortsInv
  <2> QED
    BY <1>1, <2>1 DEF MessageInv
<1>4. PICK c \in Call : /\ c \in made /\ m.connector = Port0(c) /\ callNode[c] = n
                        /\ offeredBy[Port0(c)] = None
  BY <1>3, MatchFacts DEF Owner
<1>5. PairInv(c) /\ Port0(c) \in ports
  BY <1>4 DEF PortsInv, PairInv
<1>6. Registered(n, m.connector)
  BY <1>4, <1>5, PairFacts DEF Registered
<1>7. PICK peer : peer = ConnectorPeer(n, m.connector)
  OBVIOUS
<1>8. CASE peer = None
  <2>1. UNCHANGED <<portVars, io>>
    BY <1>6, <1>7, <1>8 DEF HandleResponsePortMerge
  <2> QED
    BY <1>1, <1>2, <1>3, <2>1
<1>9. CASE peer # None
  <2>1. peer = Port1(c) /\ peerPort[Port0(c)] = Port1(c)
    <3>1. <<n, n, Port0(c), peer>> \in peerMap /\ peer = peerPort[Port0(c)]
      BY <1>4, <1>7, <1>9 DEF ConnectorPeer
    <3> QED
      BY <3>1, PairFacts DEF PortsInv, PeerMapInv
  <2>2. Paired(c)
    <3>1. ~ Joined(c)
      <4>1. ASSUME Joined(c) PROVE FALSE
        <5>1. Match(Port1(c), Port0(c)) \/ Match(Port0(c), Port1(c)) \/ Match(Port1(c), Port0(c))
          BY <2>1, <4>1 DEF Joined
        <5> QED
          BY <5>1, MatchFacts, PairFacts
      <4> QED
        BY <4>1
    <3>2. ~ Half(c)
      BY <1>1, <1>4 DEF Half, Idle
    <3> QED
      BY <1>4, <1>5, <3>1, <3>2 DEF PairInv
  <2>3. peerPort[Port1(c)] = Port0(c) /\ Registered(n, Port0(c))
    BY <1>4, <1>5, <1>6 DEF PairInv, Points
  <2>4. /\ StoreNode(Port1(c), from)
        /\ io' = [io EXCEPT ![n] = [step |-> "store_port", local |-> Port0(c), node |-> from,
                                    port |-> m.port, respond |-> FALSE]]
    BY <1>2, <1>6, <1>7, <1>9, <2>1, <2>3 DEF HandleResponsePortMerge, GoIo
  <2> QED
    BY <1>1, <1>2, <1>3, <1>4, <2>2, <2>4
<1> QED
  BY <1>8, <1>9

LEMMA PortsResponsePortMerge ==
    ASSUME TypeOK, HandshakeInv, PeersInv, PortsInv, NEW i \in Inv, NEW n \in Node,
           <<i, n>> \in End, HandleResponsePortMerge(i, n), UNCHANGED coreVars
    PROVE  PortsInv' /\ PortsKept
<1>1. PICK m, from : m = Head(chan[<<i, n>>]) /\ from = Other(i, n)
  OBVIOUS
<1>2. /\ Pop(i, n) /\ io[n] = Idle /\ chan[<<i, n>>] # <<>> /\ from \in Node /\ IsPeer(n, from)
      /\ UNCHANGED <<peers, pendingPeerMsgs, pendingMerges, app, reserved, made, offeredBy,
                     nameOf, pipes, attached>>
      /\ Match(m.port, m.connector) /\ Points(m.port, m.connector) /\ Owner(m.port) = from
  BY <1>1, ResponseMerge
<1>3. CASE UNCHANGED <<portVars, io>>
  <2>1. PortsKept
    BY <1>2, <1>3, AsideKept DEF portVars, IsPeer
  <2> QED
    BY <1>2, <1>3, <2>1, PortsTake DEF portVars
<1>4. ASSUME NEW c \in Call,
             c \in made, callNode[c] = n, Paired(c), m.connector = Port0(c),
             offeredBy[Port0(c)] = None, StoreNode(Port1(c), from),
             io' = [io EXCEPT ![n] = [step |-> "store_port", local |-> Port0(c), node |-> from,
                                      port |-> m.port, respond |-> FALSE]]
      PROVE  PortsInv' /\ PortsKept
  <2>1. PICK s : s = [step |-> "store_port", local |-> Port0(c), node |-> from,
                      port |-> m.port, respond |-> FALSE]
    OBVIOUS
  <2>2. /\ io' = [io EXCEPT ![n] = s] /\ s.step = "store_port" /\ s.local = Port0(c)
        /\ s.node = from /\ s.port = m.port /\ ~ s.respond
    BY <1>4, <2>1
  <2>3. /\ Match(s.port, Port0(c)) /\ Points(s.port, Port0(c)) /\ s.port \in Port
        /\ Owner(s.port) = from
    BY <1>2, <1>4, <2>2, MatchFacts
  <2>4. PortsKept /\ ports' = ports \ {Port1(c)}
    BY <1>2, <1>4, MergeBegins
  <2>5. \A x \in Inv : \A y : ~ Waits(Port1(c), x, y)
    <3>1. OfferInv(c)
      BY DEF PortsInv
    <3> QED
      BY <1>4, <3>1, NoneFacts DEF OfferInv, Waits
  <2>6. ReservedInv'
    <3>1. \A k \in Node, l \in NodeName, y \in Name : ReservedPort(k, l, y)' = ReservedPort(k, l, y)
      BY <1>2 DEF ReservedPort
    <3>2. ASSUME NEW k \in Node, NEW l \in NodeName, NEW y \in Name, NEW r \in Port, NEW x \in Inv,
                 ReservedFor(r, x, k, l, y)
          PROVE  r \in ports' /\ r \notin pipes'
      <4>1. r # Port1(c)
        BY <2>5, <3>2 DEF ReservedFor
      <4> QED
        BY <1>2, <2>4, <3>2, <4>1 DEF ReservedFor, Waits
    <3> QED
      BY <1>2, <2>4, <3>1, <3>2, ReservedStays DEF PortsInv
  <2> QED
    BY <1>2, <1>4, <2>2, <2>3, <2>5, <2>6, PortsMerge
<1> QED
  BY <1>1, <1>3, <1>4, ResponseMerge

\* The second store of MergePorts joins the pair.
LEMMA PortsStorePort ==
    ASSUME TypeOK, PortsInv, NEW n \in Node, IoStorePort(n), UNCHANGED coreVars
    PROVE  PortsInv' /\ PortsKept
<1>1. PICK s : s = io[n]
  OBVIOUS
<1>2. /\ s.step = "store_port"
      /\ StorePort(s.local, s.node, s.port)
      /\ io' = [io EXCEPT ![n] =
                  IF s.respond
                    THEN [step |-> "respond", local |-> s.local, node |-> s.node, port |-> s.port]
                    ELSE Idle]
      /\ UNCHANGED <<chan, peers, pendingPeerMsgs, pendingMerges, reserved, app>>
  BY <1>1 DEF IoStorePort, IoAt, GoIo
<1>3. /\ s.port \in Port /\ s.local[1] \in made /\ Half(s.local[1])
      /\ Owner(s.local) = n /\ s.local[2] = 0
      /\ s.node = Owner(s.port) /\ IsPeer(n, s.node)
      /\ s.respond => Match(s.local, s.port)
      /\ ~ s.respond => Match(s.port, s.local) /\ Points(s.port, s.local)
  BY <1>1, <1>2 DEF PortsInv, IoInv
<1>4. PICK c \in Call : /\ c \in made /\ s.local = Port0(c) /\ callNode[c] = n /\ Half(c)
                        /\ Port0(c) \in Port
  <2>1. s.local \in Port
    BY <1>1, <1>2 DEF TypeOK, NodeTypeOK, IoState
  <2> QED
    BY <1>3, <2>1, PairFacts
<1>5. PairInv(c) /\ OfferInv(c)
  BY DEF PortsInv
<1>6. /\ Port0(c) \in ports /\ Points(Port1(c), Port0(c)) /\ Port1(c) \notin ports
      /\ peerNode[Port0(c)] = s.node /\ peerPort[Port0(c)] = Port1(c)
  BY <1>1, <1>4, <1>5 DEF PairInv, Half
<1>7. /\ peerPort' = [peerPort EXCEPT ![Port0(c)] = s.port]
      /\ peerMap' = peerMap \cup {<<n, s.node, s.port, Port0(c)>>}
      /\ UNCHANGED <<ports, peerNode>>
  BY <1>2, <1>3, <1>4, NoneFacts, PairFacts DEF StorePort
<1>8. /\ peerPort'[Port0(c)] = s.port
      /\ \A p \in Port : p # Port0(c) => peerPort'[p] = peerPort[p]
  BY <1>4, <1>7 DEF TypeOK, PortsTypeOK
<1>9. PortsKept
  <2>1. ASSUME NEW p \in Port, peerPort[p][2] = 0
        PROVE  p # Port0(c)
    BY <1>6, <2>1, PairFacts
  <2>2. \A j, m \in Node : IsPeer(j, m) => IsPeer(j, m)'
    BY <1>2 DEF IsPeer
  <2>3. UNCHANGED <<made, offeredBy, nameOf, peerNode>>
    BY <1>7 DEF coreVars
  <2> QED
    BY <1>8, <2>1, <2>2, <2>3 DEF PortsKept
<1>10. ASSUME NEW d \in Call, d # c PROVE PairKept(d)
  BY <1>7, <1>8, <1>10, PairFacts DEF PairKept, coreVars
<1>11. IsPeer(n, s.node)' /\ s.node # n
  BY <1>3, <1>9 DEF PortsKept, IsPeer
<1>12. Points(Port0(c), s.port)'
  BY <1>3, <1>6, <1>7, <1>8 DEF Points
<1>13. Joined(c)'
  <2>1. offeredBy'[Port0(c)] = offeredBy[Port0(c)]
    BY DEF coreVars
  <2>2. CASE s.respond
    <3>1. Match(Port0(c), s.port)' /\ offeredBy[Port0(c)] # None
      BY <1>3, <1>4, <1>9, <2>2, MatchKept, MatchFacts
    <3> QED
      BY <1>3, <1>4, <1>6, <1>7, <1>8, <1>11, <1>12, <2>1, <3>1 DEF Joined
  <2>3. CASE ~ s.respond
    <3>1. /\ Match(s.port, Port0(c))' /\ Points(s.port, Port0(c))' /\ offeredBy[Port0(c)] = None
      BY <1>3, <1>4, <1>9, <2>3, MatchKept, MatchFacts, PointsKept
    <3> QED
      BY <1>3, <1>4, <1>6, <1>7, <1>8, <1>11, <1>12, <2>1, <3>1 DEF Joined
  <2> QED
    BY <2>2, <2>3
<1>14. ASSUME NEW d \in Call PROVE PairInv(d)' /\ OfferInv(d)'
  <2>1. PairInv(d) /\ OfferInv(d)
    BY DEF PortsInv
  <2>2. CASE d = c
    <3>1. Points(Port1(c), Port0(c))'
      BY <1>6, <1>7, <1>8, PairFacts DEF Points
    <3>2. Port0(c) \in ports' /\ c \in made'
      BY <1>4, <1>6, <1>7 DEF coreVars
    <3> QED
      BY <1>13, <2>1, <2>2, <3>1, <3>2 DEF PairInv, OfferInv, coreVars
  <2>3. CASE d # c
    <3>1. Half(d) => io'[callNode[d]] = io[callNode[d]]
      <4>1. ASSUME Half(d) PROVE callNode[d] # n
        BY <1>1, <1>4, <2>3, <4>1, PairFacts DEF Half
      <4> QED
        BY <1>2, <4>1, PairFacts DEF TypeOK, NodeTypeOK
    <3> QED
      BY <1>9, <1>10, <2>1, <2>3, <3>1, PairStays, OfferStays
  <2> QED
    BY <2>2, <2>3
<1>15. IoInv(n)'
  <2>1. PICK t : t = io'[n]
    OBVIOUS
  <2>2. CASE ~ s.respond
    BY <1>2, <2>2 DEF IoInv, Idle, TypeOK, NodeTypeOK
  <2>3. CASE s.respond
    <3>1. /\ t.step = "respond" /\ t.local = s.local /\ t.node = s.node /\ t.port = s.port
      BY <1>2, <2>1, <2>3 DEF TypeOK, NodeTypeOK
    <3>2. Match(t.local, t.port)'
      BY <1>3, <1>9, <2>3, <3>1, MatchKept
    <3>3. Points(t.local, t.port)'
      BY <1>4, <1>12, <3>1 DEF Points
    <3>4. Owner(t.local) = n /\ t.node = Owner(t.port) /\ IsPeer(n, t.node)'
      BY <1>3, <1>11, <3>1 DEF IsPeer
    <3> QED
      BY <2>1, <3>1, <3>2, <3>3, <3>4 DEF IoInv
  <2> QED
    BY <2>2, <2>3
<1>16. ASSUME NEW k \in Node, k # n PROVE IoInv(k)'
  <2>1. IoInv(k)
    BY DEF PortsInv
  <2>2. ASSUME io[k].step = "store_port" PROVE PairKept(io[k].local[1])
    <3>1. io[k].local \in Port /\ Owner(io[k].local) = k
      BY <2>1, <2>2 DEF IoInv, TypeOK, NodeTypeOK, IoState
    <3>2. io[k].local[1] \in Call /\ io[k].local[1] # c
      BY <1>4, <1>16, <3>1, PairFacts DEF Owner
    <3> QED
      BY <1>10, <3>2
  <2>3. io'[k] = io[k]
    BY <1>2, <1>16 DEF TypeOK, NodeTypeOK
  <2> QED
    BY <1>9, <2>1, <2>2, <2>3, IoStays
<1>17. ASSUME NEW k \in Node PROVE RequestInv(k)'
  <2>1. io'[k] = io[k] \/ io'[k].step # "flush"
    BY <1>2 DEF Idle, TypeOK, NodeTypeOK
  <2> QED
    BY <1>2, <1>9, <2>1, RequestStays DEF PortsInv
<1>18. AttachedInv' /\ ReservedInv'
  <2>1. UNCHANGED <<ports, pipes, attached, reserved>>
    BY <1>2, <1>7 DEF coreVars
  <2> QED
    BY <1>9, <2>1, AttachedStays, ReservedStays DEF PortsInv, ReservedFor, Waits, ReservedPort
<1>19. ChanInv' /\ PipesInv' /\ NothingPending'
  BY <1>2, <1>9, ChanStays DEF PortsInv, PipesInv, NothingPending, coreVars
<1>20. PeerMapInv'
  BY <1>7, <1>11 DEF PortsInv, PeerMapInv
<1>21. \A k \in Node : IoInv(k)'
  BY <1>15, <1>16
<1> QED
  BY <1>9, <1>14, <1>17, <1>18, <1>19, <1>20, <1>21 DEF PortsInv

LEMMA PortsStart == Init => PortsInv
<1> SUFFICES ASSUME Init PROVE PortsInv
  OBVIOUS
<1>1. \A c \in Call : PairInv(c) /\ OfferInv(c)
  BY PairFacts DEF Init, PortsInit, PairInv, OfferInv, Fresh
<1>2. AttachedInv /\ ReservedInv
  BY NoneFacts DEF Init, NodeInit, AttachedInv, ReservedInv, ReservedPort
<1>3. \A n \in Node : IoInv(n) /\ RequestInv(n)
  <2>1. Len(<<>>) = 0
    OBVIOUS
  <2> QED
    BY <2>1 DEF Init, NodeInit, IoInv, RequestInv, Idle
<1>4. ChanInv
  <2>1. Len(<<>>) = 0
    OBVIOUS
  <2>2. \A e \in End : chan[e] = <<>>
    BY DEF Init, NodeInit, End
  <2> QED
    BY <2>1, <2>2 DEF ChanInv
<1>5. PeerMapInv /\ PipesInv /\ NothingPending
  BY DEF Init, PortsInit, NodeInit, PeerMapInv, PipesInv, NothingPending, Idle
<1> QED
  BY <1>1, <1>2, <1>3, <1>4, <1>5 DEF PortsInv

LEMMA PortsStep ==
    ASSUME TypeOK, HandshakeInv, PeersInv, PortsInv, [Next]_vars
    PROVE  PortsInv'
<1>1. ASSUME NEW e \in End, Handle(e[1], e[2]), UNCHANGED coreVars
      PROVE  PortsInv'
  <2>1. e[1] \in Inv /\ e[2] \in Node /\ <<e[1], e[2]>> \in End
    BY DEF End
  <2> QED
    BY <1>1, <2>1, PortsUserMessage, PortsInviterAccept, PortsRequestPortMerge,
       PortsResponsePortMerge DEF Handle
<1>2. ASSUME NEW n \in Node, IoContinue(n), UNCHANGED coreVars
      PROVE  PortsInv'
  BY <1>2, PortsSendAccept, PortsAddPeer, PortsTakePending, PortsFlush, PortsStorePort,
     PortsRespond DEF IoContinue
<1>3. ASSUME App
      PROVE  PortsInv'
  <2>1. ASSUME NEW i \in Inv, CoreAcceptInvitation(i)
        PROVE  PortsInv'
    BY <2>1, PortsQuiet DEF CoreAcceptInvitation, AcceptInvitation, portVars, coreVars
  <2>2. ASSUME NEW p \in Port, Read(p)
        PROVE  PortsInv'
    BY <2>2, PortsQuiet DEF Read, GetNextMessage, nodeVars
  <2> QED
    BY <1>3, <2>1, <2>2, PortsAttach, PortsSendInvitation, PortsExtractLocal, PortsExtract,
       PortsSendRequest, PortsWrite, PortsForward DEF App
<1>4. CASE UNCHANGED vars
  BY <1>4, PortsQuiet DEF vars, portVars, nodeVars, coreVars
<1> QED
  BY <1>1, <1>2, <1>3, <1>4 DEF Next, Io

\* Every pair of ports is fresh, a pair, between the two stores of MergePorts, or joined
\* to the other end that the handshake and the merge requests stand for, whatever the two
\* threads of every process are in the middle of.
THEOREM PortsCorrect == Spec => []PortsInv
<1>1. Init => PortsInv
  BY PortsStart
<1>2. TypeOK /\ HandshakeInv /\ PeersInv /\ PortsInv /\ [Next]_vars => PortsInv'
  BY PortsStep
<1> QED
  BY <1>1, <1>2, TypeCorrect, HandshakeCorrect, PeersCorrect, PTL DEF Spec

-----------------------------------------------------------------------------
(* What follows.                                                             *)

\* A port is linked when the second store has joined its pair; it is then port0.
LEMMA LinkedJoined ==
    ASSUME TypeOK, PortsInv, NEW p \in Port
    PROVE  Linked(p) <=> p[1] \in made /\ p[2] = 0 /\ Joined(p[1])
<1>1. PICK c \in Call : c = p[1] /\ (p = Port0(c) \/ p = Port1(c))
  BY PairFacts
<1>2. PairInv(c)
  BY DEF PortsInv
<1>3. CASE c \notin made
  BY <1>1, <1>2, <1>3 DEF PairInv, Fresh, Linked
<1>4. CASE c \in made /\ p = Port1(c)
  BY <1>1, <1>2, <1>4, PairFacts DEF PairInv, Points, Linked
<1>5. CASE c \in made /\ p = Port0(c)
  <2>1. Paired(c) => ~ Linked(p) /\ ~ Joined(c)
    BY <1>5, PairFacts DEF Paired, Points, Linked, Joined
  <2>2. Half(c) => ~ Linked(p) /\ ~ Joined(c)
    <3>1. ASSUME Half(c), Joined(c) PROVE FALSE
      <4>1. Match(p, Port1(c)) \/ Match(Port1(c), p)
        BY <1>5, <3>1 DEF Half, Joined
      <4> QED
        BY <4>1, MatchFacts, PairFacts
    <3>2. Half(c) => ~ Linked(p)
      BY <1>5, PairFacts DEF Half, Linked
    <3> QED
      BY <3>1, <3>2
  <2>3. ASSUME Joined(c) PROVE Linked(p)
    <3>1. PICK q : q = peerPort[p]
      OBVIOUS
    <3>2. peerNode[p] = Owner(q) /\ IsPeer(callNode[c], Owner(q))
      BY <1>5, <2>3, <3>1 DEF Joined, Points
    <3>3. Match(p, q) \/ Match(q, p)
      BY <1>5, <2>3, <3>1 DEF Joined
    <3>4. q # Port1(c)
      BY <3>3, MatchFacts, PairFacts
    <3>5. Owner(q) \notin {None, callNode[c]}
      BY <3>2, NoneFacts DEF IsPeer
    <3> QED
      BY <1>5, <3>1, <3>2, <3>4, <3>5, PairFacts DEF Linked
  <2> QED
    BY <1>1, <1>2, <1>5, <2>1, <2>2, <2>3, PairFacts DEF PairInv
<1> QED
  BY <1>1, <1>3, <1>4, <1>5, PairFacts


LEMMA AddPeerKept ==
    ASSUME TypeOK, HandshakeInv, PeersInv, PortsInv, NEW n \in Node, IoAddPeer(n),
           UNCHANGED coreVars
    PROVE  PortsKept
<1>1. PICK i \in Inv : i = io[n].token
  BY DEF IoAddPeer, IoAt, TypeOK, NodeTypeOK, IoState
<1>2. io[n].step = "add_peer" /\ inviteeOf[i] = n /\ inviterOf[i] = io[n].inviter /\ inviterChan[n] = i
  BY <1>1 DEF IoAddPeer, IoAt, HandshakeInv, HandlesOffer
<1>3. AddPeer(n, inviterOf[i], i) /\ UNCHANGED portVars
  BY <1>1, <1>2, InvFacts DEF IoAddPeer
<1>4. inviterOf[i] \in Node /\ inviterOf[i] # n /\ Other(i, n) = inviterOf[i] /\ <<i, n>> \in End
  BY <1>2, InvFacts DEF End
<1>5. \A m, k \in Node : IsPeer(m, k) => IsPeer(m, k)'
  BY <1>3, <1>4, PeerEnds
<1> QED
  BY <1>3, <1>5, AsideKept DEF portVars, coreVars

LEMMA SetKept ==
    ASSUME UNCHANGED <<ports, peerNode, peerPort, made, offeredBy, nameOf, peers>>
    PROVE  PortsKept
BY AsideKept DEF IsPeer

\* No step changes a joined end, the name or the offer of a port, or forgets a peer.
LEMMA PortsKeptStep ==
    ASSUME TypeOK, HandshakeInv, PeersInv, PortsInv, [Next]_vars
    PROVE  PortsKept
<1>1. ASSUME NEW e \in End, Handle(e[1], e[2]), UNCHANGED coreVars
      PROVE  PortsKept
  <2>1. e[1] \in Inv /\ e[2] \in Node /\ <<e[1], e[2]>> \in End
    BY DEF End
  <2>2. HandleAcceptInvitee(e[1], e[2]) \/ HandleUserMessage(e[1], e[2]) => PortsKept
    BY <1>1, SetKept DEF HandleAcceptInvitee, HandleUserMessage, AcceptMessage, portVars, coreVars
  <2> QED
    BY <1>1, <2>1, <2>2, PortsInviterAccept, PortsRequestPortMerge, PortsResponsePortMerge DEF Handle
<1>2. ASSUME NEW n \in Node, IoContinue(n), UNCHANGED coreVars
      PROVE  PortsKept
  <2>1. IoSendAccept(n) \/ IoTakePending(n) \/ IoFlush(n) \/ IoRespond(n) => PortsKept
    BY <1>2, SetKept DEF IoSendAccept, IoTakePending, IoFlush, IoRespond, portVars, coreVars
  <2> QED
    BY <1>2, <2>1, AddPeerKept, PortsStorePort DEF IoContinue
<1>3. ASSUME App
      PROVE  PortsKept
  <2>1. ASSUME NEW i \in Inv, CoreAcceptInvitation(i) PROVE PortsKept
    BY <2>1, SetKept DEF CoreAcceptInvitation, AcceptInvitation, portVars, coreVars
  <2>2. ASSUME NEW n \in Node, CoreSendRequest(n) \/ WriteForward(n) PROVE PortsKept
    BY <2>2, SetKept DEF CoreSendRequest, SendRequest, WriteForward, portVars, coreVars
  <2>3. ASSUME NEW p \in Port, NEW m \in Msg, Write(p, m) PROVE PortsKept
    BY <2>3, SetKept DEF Write, portVars
  <2>4. ASSUME NEW p \in Port, Read(p) PROVE PortsKept
    BY <2>4, SetKept DEF Read, GetNextMessage, nodeVars
  <2> QED
    BY <1>3, <2>1, <2>2, <2>3, <2>4, PortsAttach, PortsSendInvitation, PortsExtractLocal,
       PortsExtract DEF App
<1>4. CASE UNCHANGED vars
  BY <1>4, SetKept DEF vars, portVars, nodeVars, coreVars
<1> QED
  BY <1>1, <1>2, <1>3, <1>4 DEF Next, Io

\* The port that a linked port points to is port0 of its pair.
LEMMA LinkedPeer ==
    ASSUME TypeOK, PortsInv, NEW p \in Port, Linked(p)
    PROVE  LET q == peerPort[p]
           IN  /\ p[1] \in made /\ q \in Port /\ q[2] = 0 /\ q[1] \in made
               /\ Points(p, q) /\ IsPeer(Owner(p), Owner(q))
               /\ offeredBy[p] # None => Match(p, q)
               /\ offeredBy[p] = None => Match(q, p) /\ Points(q, p)
<1>1. p[1] \in made /\ p[2] = 0 /\ Joined(p[1]) /\ p = Port0(p[1])
  BY LinkedJoined, PairFacts
<1>2. PICK q : q = peerPort[p]
  OBVIOUS
<1>3. /\ Points(p, q) /\ IsPeer(Owner(p), Owner(q))
      /\ offeredBy[p] # None => Match(p, q)
      /\ offeredBy[p] = None => Match(q, p) /\ Points(q, p)
  BY <1>1, <1>2 DEF Joined, Owner
<1>4. q \in Port /\ q[2] = 0 /\ q[1] \in made
  BY <1>3, MatchFacts
<1> QED
  BY <1>1, <1>2, <1>3, <1>4

\* UpdatePortPeerAddress moves an end once and for all: an address that both stores have
\* written is written no more, by no handler, call or retried merge.
THEOREM LinkStableCorrect == Spec => LinkStable
<1>1. TypeOK /\ HandshakeInv /\ PeersInv /\ PortsInv /\ [Next]_vars =>
        [\A p \in Port : Linked(p) => peerNode'[p] = peerNode[p] /\ peerPort'[p] = peerPort[p]]_vars
  <2> SUFFICES ASSUME TypeOK, HandshakeInv, PeersInv, PortsInv, [Next]_vars, NEW p \in Port, Linked(p)
               PROVE  peerNode'[p] = peerNode[p] /\ peerPort'[p] = peerPort[p]
    OBVIOUS
  <2>1. p[1] \in made /\ peerPort[p] \in Port /\ peerPort[p][2] = 0
    BY LinkedPeer
  <2>2. PortsKept
    BY PortsKeptStep
  <2> QED
    BY <2>1, <2>2 DEF PortsKept
<1> QED
  BY <1>1, TypeCorrect, HandshakeCorrect, PeersCorrect, PortsCorrect, PTL DEF Spec, LinkStable

\* SendPeerEvent always finds the channel of the process a port points to, even while the
\* IO thread is between the two stores of a merge, so nothing ever waits in
\* pending_peer_messages_.
THEOREM PeerKnownCorrect == Spec => []PeerKnown
<1>1. PortsInv => PeerKnown
  <2> SUFFICES ASSUME PortsInv PROVE PeerKnown
    OBVIOUS
  <2>1. ASSUME NEW p \in Port
        PROVE  peerNode[p] \in {None, Owner(p)} \/ peers[<<Owner(p), peerNode[p]>>] # None
    <3>1. CASE p[1] \in made
      BY <3>1, PeerOfPort DEF IsPeer
    <3>2. CASE p[1] \notin made
      <4>1. PairInv(p[1]) /\ p \in {Port0(p[1]), Port1(p[1])}
        BY PairFacts DEF PortsInv
      <4> QED
        BY <3>2, <4>1 DEF PairInv, Fresh
    <3> QED
      BY <3>1, <3>2
  <2> QED
    BY <2>1 DEF PeerKnown, PortsInv, NothingPending
<1> QED
  BY <1>1, PortsCorrect, PTL

=============================================================================
