---------------------------- MODULE HandshakeProofs ----------------------------
(***************************************************************************)
(* Proofs about Core, for any number of processes, invitations,            *)
(* extractions and messages: the type invariant first, then the handshake  *)
(* invariant, and with it AcceptFirst and NoMergeForgotten.                *)
(***************************************************************************)
EXTENDS Handshake, SequenceTheorems, TLAPS

-----------------------------------------------------------------------------
(* Facts about the constants and the operators.                              *)

LEMMA PortFacts ==
    /\ \A c \in Call : Port0(c) \in Port /\ Port1(c) \in Port /\ callNode[c] \in Node
    /\ \A p \in Port : Owner(p) \in Node /\ Sibling(p) \in Port /\ Sibling(p) # p
    /\ \A p \in Port : p[1] \in Call
BY PortsAssumption DEF Port, Port0, Port1, Owner, Sibling

LEMMA EndFacts ==
    \A i \in Inv, n \in Node : /\ Other(i, n) \in Node
                               /\ inviterOf[i] \in Node
                               /\ inviteeOf[i] \in Node
BY InvitationAssumption DEF Other

LEMMA EndType == \A e \in End : e[1] \in Inv /\ e[2] \in Node
BY DEF End

\* Sending, receiving and flushing keep the type of the channels.
LEMMA AppendChan ==
    ASSUME chan \in [Inv \X Node -> Seq(Message)],
           NEW i \in Inv \cup {None}, NEW n \in Node, NEW m \in Message
    PROVE  [chan EXCEPT ![<<i, Other(i, n)>>] = Append(@, m)] \in [Inv \X Node -> Seq(Message)]
<1>1. CASE <<i, Other(i, n)>> \in Inv \X Node
  <2>1. chan[<<i, Other(i, n)>>] \in Seq(Message)
    BY <1>1
  <2>2. Append(chan[<<i, Other(i, n)>>], m) \in Seq(Message)
    BY <2>1, AppendProperties
  <2> QED
    BY <2>2
<1>2. CASE <<i, Other(i, n)>> \notin Inv \X Node
  BY <1>2
<1> QED
  BY <1>1, <1>2

LEMMA TailChan ==
    ASSUME chan \in [Inv \X Node -> Seq(Message)],
           NEW i \in Inv, NEW n \in Node, chan[<<i, n>>] # <<>>
    PROVE  /\ [chan EXCEPT ![<<i, n>>] = Tail(@)] \in [Inv \X Node -> Seq(Message)]
           /\ Head(chan[<<i, n>>]) \in Message
<1>1. chan[<<i, n>>] \in Seq(Message)
  OBVIOUS
<1>2. Tail(chan[<<i, n>>]) \in Seq(Message) /\ Head(chan[<<i, n>>]) \in Message
  BY <1>1, HeadTailProperties
<1> QED
  BY <1>2

-----------------------------------------------------------------------------
(* Type correctness.                                                         *)

LEMMA TypeInit == Init => TypeOK
<1>1. \A S : <<>> \in Seq(S)
  BY EmptySeq
<1> QED
  BY <1>1 DEF Init, PortsInit, NodeInit, TypeOK, PortsTypeOK, NodeTypeOK, CoreTypeOK,
       NodeName, PortName, IoState, AppState, Idle

LEMMA TypeAcceptInvitee ==
    ASSUME TypeOK, NEW i \in Inv, NEW n \in Node,
           HandleAcceptInvitee(i, n), UNCHANGED coreVars
    PROVE  TypeOK'
<1> DEFINE m == Head(chan[<<i, n>>])
<1>1. chan' \in [Inv \X Node -> Seq(Message)] /\ m \in Message
  BY TailChan DEF HandleAcceptInvitee, Receive, Pop, Popped, TypeOK, NodeTypeOK
<1>2. m.inviter \in Node /\ m.token \in Inv
  BY <1>1 DEF Message, HandleAcceptInvitee, Receive
<1>3. io' \in [Node -> IoState] /\ inviterName' \in [Node -> Node \cup {None}]
  BY <1>2 DEF HandleAcceptInvitee, GoIo, IoState, TypeOK, NodeTypeOK
<1> QED
  BY <1>1, <1>3 DEF HandleAcceptInvitee, TypeOK, PortsTypeOK, NodeTypeOK, CoreTypeOK,
       portVars, coreVars

LEMMA TypeSendAccept ==
    ASSUME TypeOK, NEW n \in Node, IoSendAccept(n), UNCHANGED coreVars
    PROVE  TypeOK'
<1> DEFINE i == inviterChan[n]
<1>1. io[n].inviter \in Node /\ io[n].token \in Inv /\ i \in Inv \cup {None}
  BY DEF IoSendAccept, IoAt, IoState, TypeOK, NodeTypeOK
<1>2. [type |-> "AcceptInvitation", token |-> io[n].token, invitee |-> n] \in Message
  BY <1>1 DEF Message
<1>3. chan' \in [Inv \X Node -> Seq(Message)]
  BY <1>1, <1>2, AppendChan DEF IoSendAccept, SendTo, TypeOK, NodeTypeOK
<1>4. io' \in [Node -> IoState]
  BY <1>1 DEF IoSendAccept, IoAt, GoIo, IoState, TypeOK, NodeTypeOK
<1>5. remote' \in [Inv \X Node -> NodeName]
  BY <1>1 DEF IoSendAccept, NodeName, TypeOK, NodeTypeOK
<1> QED
  BY <1>3, <1>4, <1>5 DEF IoSendAccept, TypeOK, PortsTypeOK, NodeTypeOK, CoreTypeOK,
       portVars, coreVars

LEMMA TypeAddPeer ==
    ASSUME TypeOK, NEW n \in Node, IoAddPeer(n), UNCHANGED coreVars
    PROVE  TypeOK'
<1> DEFINE i == inviterChan[n]
<1>1. io[n].inviter \in Node /\ i \in Inv \cup {None}
  BY DEF IoAddPeer, IoAt, IoState, TypeOK, NodeTypeOK
<1>2. AddPeerFlush(n, io[n].inviter) \in Seq(Message)
  BY <1>1, EmptySeq DEF AddPeerFlush, NodeName, TypeOK, NodeTypeOK
<1>3. chan' \in [Inv \X Node -> Seq(Message)]
  <2>1. chan' = [chan EXCEPT ![<<i, Other(i, n)>>] = @ \o AddPeerFlush(n, io[n].inviter)]
    BY DEF IoAddPeer
  <2>2. CASE <<i, Other(i, n)>> \in Inv \X Node
    <3>1. chan[<<i, Other(i, n)>>] \o AddPeerFlush(n, io[n].inviter) \in Seq(Message)
      BY <1>2, <2>2, ConcatProperties DEF TypeOK, NodeTypeOK
    <3> QED
      BY <2>1, <3>1 DEF TypeOK, NodeTypeOK
  <2>3. CASE <<i, Other(i, n)>> \notin Inv \X Node
    BY <2>1, <2>3 DEF TypeOK, NodeTypeOK
  <2> QED
    BY <2>2, <2>3
<1>4. io' \in [Node -> IoState]
  BY DEF IoAddPeer, GoIo, IoState, TypeOK, NodeTypeOK
<1>5. remote' \in [Inv \X Node -> NodeName]
  BY <1>1 DEF IoAddPeer, NodeName, TypeOK, NodeTypeOK
<1>6. /\ peers' \in [Node \X NodeName -> Inv \cup {None}]
      /\ pendingPeerMsgs' \in [Node \X NodeName -> Seq(Message)]
  BY <1>1, EmptySeq DEF IoAddPeer, AddPeer, TypeOK, NodeTypeOK
<1> QED
  BY <1>3, <1>4, <1>5, <1>6 DEF IoAddPeer, TypeOK, PortsTypeOK, NodeTypeOK, CoreTypeOK,
       portVars, coreVars

LEMMA FlushType == ASSUME NEW s \in Seq(Name \X Port) PROVE Flush(s) \in IoState
BY DEF Flush, Idle, IoState

LEMMA TypeTakePending ==
    ASSUME TypeOK, NEW n \in Node, IoTakePending(n), UNCHANGED coreVars
    PROVE  TypeOK'
<1>1. io' \in [Node -> IoState] /\ pendingMerges' \in [Node -> Seq(Name \X Port)]
  BY FlushType, EmptySeq DEF IoTakePending, GoIo, TypeOK, NodeTypeOK
<1> QED
  BY <1>1 DEF IoTakePending, TypeOK, PortsTypeOK, NodeTypeOK, CoreTypeOK, portVars, coreVars

LEMMA TypeFlush ==
    ASSUME TypeOK, NEW n \in Node, IoFlush(n), UNCHANGED coreVars
    PROVE  TypeOK'
<1> DEFINE i == GetInviterChannel(n)
           request == Head(io[n].merges)
<1>1. io[n].merges \in Seq(Name \X Port) /\ io[n].merges # <<>>
  BY DEF IoFlush, IoAt, IoState, TypeOK, NodeTypeOK
<1>2. request \in Name \X Port /\ Tail(io[n].merges) \in Seq(Name \X Port)
  BY <1>1, HeadTailProperties
<1>3. i \in Inv \cup {None}
  BY DEF GetInviterChannel, NodeName, TypeOK, NodeTypeOK
<1>4. RequestPortMerge(request[1], request[2]) \in Message
  BY <1>2 DEF RequestPortMerge, Message
<1>5. chan' \in [Inv \X Node -> Seq(Message)]
  <2>1. CASE i = None
    BY <2>1 DEF IoFlush, TypeOK, NodeTypeOK
  <2>2. CASE i # None
    <3>1. SendTo(i, n, RequestPortMerge(request[1], request[2]))
      BY <2>2 DEF IoFlush
    <3>2. chan \in [Inv \X Node -> Seq(Message)]
      BY DEF TypeOK, NodeTypeOK
    <3> QED
      BY <1>3, <1>4, <3>1, <3>2, AppendChan DEF SendTo
  <2> QED
    BY <2>1, <2>2
<1>6. io' \in [Node -> IoState]
  BY <1>2, FlushType DEF IoFlush, GoIo, TypeOK, NodeTypeOK
<1>7. crashed' \in [Node -> CrashCause \cup {"no"}]
  BY DEF IoFlush, Die, CrashCause, TypeOK, NodeTypeOK
<1> QED
  BY <1>5, <1>6, <1>7 DEF IoFlush, TypeOK, PortsTypeOK, NodeTypeOK, CoreTypeOK, portVars, coreVars

LEMMA TypeAcceptInvitation ==
    ASSUME TypeOK, NEW i \in Inv, NEW n \in Node,
           HandleAcceptInvitation(i, n), UNCHANGED coreVars
    PROVE  TypeOK'
<1> DEFINE m    == Head(chan[<<i, n>>])
           from == remote[<<i, n>>]
           popped == Popped(i, n)
<1>1. popped \in [Inv \X Node -> Seq(Message)] /\ m \in Message
  BY TailChan DEF HandleAcceptInvitation, Receive, Popped, TypeOK, NodeTypeOK
<1>2. m.invitee \in Node /\ m.token \in Inv /\ from \in NodeName
  BY <1>1 DEF Message, HandleAcceptInvitation, Receive, TypeOK, NodeTypeOK
<1>3. CASE from \in pendingInv /\ m.token = from
  <2>1. AddPeerFlush(n, m.invitee) \in Seq(Message) /\ Other(i, n) \in Node
    BY <1>2, EmptySeq, EndFacts DEF AddPeerFlush, NodeName, TypeOK, NodeTypeOK
  <2>2. chan' \in [Inv \X Node -> Seq(Message)]
    <3>1. chan' = [popped EXCEPT ![<<i, Other(i, n)>>] = @ \o AddPeerFlush(n, m.invitee)]
      BY <1>3 DEF HandleAcceptInvitation
    <3>2. popped[<<i, Other(i, n)>>] \in Seq(Message)
      BY <1>1, <2>1
    <3>3. popped[<<i, Other(i, n)>>] \o AddPeerFlush(n, m.invitee) \in Seq(Message)
      BY <3>2, <2>1, ConcatProperties
    <3> QED
      BY <1>1, <3>1, <3>3
  <2>3. reserved' \in [Node \X NodeName -> PortMap \cup {None}]
    <3>1. m.invitee \in NodeName /\ reserved[<<n, from>>] \in PortMap \cup {None}
      BY <1>2 DEF NodeName, TypeOK, NodeTypeOK
    <3> DEFINE copied == [reserved EXCEPT ![<<n, m.invitee>>] =
                            IF @ = None THEN reserved[<<n, from>>] ELSE @]
    <3>2. copied \in [Node \X NodeName -> PortMap \cup {None}]
      BY <3>1 DEF TypeOK, NodeTypeOK
    <3>3. reserved' = [copied EXCEPT ![<<n, from>>] = None]
      BY <1>3 DEF HandleAcceptInvitation, MoveReserved
    <3> HIDE DEF copied
    <3> QED
      BY <3>2, <3>3
  <2>4. /\ peers' \in [Node \X NodeName -> Inv \cup {None}]
        /\ pendingPeerMsgs' \in [Node \X NodeName -> Seq(Message)]
    <3>1. AddPeer(n, m.invitee, i)
      BY <1>3 DEF HandleAcceptInvitation
    <3>2. /\ peers \in [Node \X NodeName -> Inv \cup {None}]
          /\ pendingPeerMsgs \in [Node \X NodeName -> Seq(Message)]
      BY DEF TypeOK, NodeTypeOK
    <3>3. <<>> \in Seq(Message)
      BY EmptySeq
    <3> QED
      BY <3>1, <3>2, <3>3 DEF AddPeer
  <2>5. /\ remote' \in [Inv \X Node -> NodeName]
        /\ pendingInv' \subseteq Inv
        /\ crashed' \in [Node -> CrashCause \cup {"no"}]
    BY <1>2, <1>3 DEF HandleAcceptInvitation, DieIf, Die, CrashCause, NodeName, TypeOK, NodeTypeOK
  <2> QED
    BY <1>3, <2>2, <2>3, <2>4, <2>5 DEF HandleAcceptInvitation, TypeOK, PortsTypeOK, NodeTypeOK,
         CoreTypeOK, coreVars
<1>4. CASE ~ (from \in pendingInv /\ m.token = from)
  <2>1. DropPeer(n, from) /\ chan' = popped /\ UNCHANGED remote
    BY <1>4 DEF HandleAcceptInvitation, Pop
  <2>2. /\ peers' \in [Node \X NodeName -> Inv \cup {None}]
        /\ pendingPeerMsgs' \in [Node \X NodeName -> Seq(Message)]
        /\ pendingInv' \subseteq Inv
        /\ reserved' \in [Node \X NodeName -> PortMap \cup {None}]
        /\ crashed' \in [Node -> CrashCause \cup {"no"}]
        /\ ports' \subseteq Port
    BY <2>1, EmptySeq DEF DropPeer, DieIf, Die, CrashCause, TypeOK, NodeTypeOK, PortsTypeOK
  <2> QED
    BY <1>1, <2>1, <2>2 DEF HandleAcceptInvitation, TypeOK, PortsTypeOK, NodeTypeOK,
         CoreTypeOK, coreVars
<1> QED
  BY <1>3, <1>4

\* The fragments of Ports keep the types of the ports.
LEMMA TypeStoreNode ==
    ASSUME PortsTypeOK, NEW p \in Port, NEW node \in NodeName, StoreNode(p, node)
    PROVE  PortsTypeOK'
BY DEF StoreNode, PortsTypeOK

LEMMA TypeStore ==
    ASSUME PortsTypeOK, NEW p \in Port, NEW node \in NodeName, NEW port \in PortName,
           StorePort(p, node, port)
    PROVE  PortsTypeOK'
<1>1. Owner(p) \in Node
  BY PortFacts
<1>2. peerMap' \subseteq Node \X NodeName \X Port \X Port
  BY <1>1 DEF StorePort, PortsTypeOK, PortName
<1> QED
  BY <1>2 DEF StorePort, PortsTypeOK

LEMMA TypeRequestPortMerge ==
    ASSUME TypeOK, NEW i \in Inv, NEW n \in Node,
           HandleRequestPortMerge(i, n), UNCHANGED coreVars
    PROVE  TypeOK'
<1> DEFINE m        == Head(chan[<<i, n>>])
           from     == remote[<<i, n>>]
           attached0 == ReservedPort(n, from, m.name)
           local    == peerPort[attached0]
<1>1. chan' \in [Inv \X Node -> Seq(Message)] /\ m \in Message
  BY TailChan DEF HandleRequestPortMerge, Receive, Pop, Popped, TypeOK, NodeTypeOK
<1>2. m.connector \in Port /\ m.name \in Name /\ from \in NodeName
  BY <1>1 DEF Message, HandleRequestPortMerge, Receive, TypeOK, NodeTypeOK
<1>3. CASE attached0 = None
  BY <1>1, <1>3 DEF HandleRequestPortMerge, TypeOK, PortsTypeOK, NodeTypeOK, CoreTypeOK,
       coreVars, portVars
<1>4. CASE attached0 # None
  <2>1. /\ reserved[<<n, from>>] \in PortMap
        /\ attached0 \in Port
        /\ local \in PortName
    <3>1. reserved[<<n, from>>] \in PortMap
      BY <1>2, <1>4 DEF ReservedPort, TypeOK, NodeTypeOK
    <3>2. attached0 = reserved[<<n, from>>][m.name]
      BY <1>4 DEF ReservedPort
    <3>3. attached0 \in Port
      BY <1>2, <1>4, <3>1, <3>2 DEF PortMap, PortName
    <3> QED
      BY <3>1, <3>3 DEF TypeOK, PortsTypeOK
  <2>2. reserved' \in [Node \X NodeName -> PortMap \cup {None}]
    <3>1. [reserved[<<n, from>>] EXCEPT ![m.name] = None] \in PortMap
      BY <2>1 DEF PortMap, PortName
    <3> QED
      BY <1>2, <1>4, <3>1 DEF HandleRequestPortMerge, TakeReserved, TypeOK, NodeTypeOK
  <2>3. PortsTypeOK'
    BY <1>2, <1>4, <2>1, TypeStoreNode DEF HandleRequestPortMerge, TypeOK
  <2>4. io' \in [Node -> IoState]
    <3>1. CASE Registered(n, local)
      <4>1. local \in Port
        BY <3>1 DEF Registered, TypeOK, PortsTypeOK
      <4>2. io' = [io EXCEPT ![n] = [step |-> "store_port", local |-> local, node |-> from,
                                    port |-> m.connector, respond |-> TRUE]]
        BY <1>4, <3>1 DEF HandleRequestPortMerge, GoIo
      <4> QED
        BY <1>2, <4>1, <4>2 DEF IoState, PortName, TypeOK, NodeTypeOK
    <3>2. CASE ~ Registered(n, local)
      <4>1. io' = [io EXCEPT ![n] = [step |-> "respond", local |-> local, node |-> from,
                                    port |-> m.connector]]
        BY <1>4, <3>2 DEF HandleRequestPortMerge, GoIo
      <4> QED
        BY <1>2, <2>1, <4>1 DEF IoState, PortName, TypeOK, NodeTypeOK
    <3> QED
      BY <3>1, <3>2
  <2> QED
    BY <1>1, <2>2, <2>3, <2>4 DEF HandleRequestPortMerge, TypeOK, NodeTypeOK, CoreTypeOK, coreVars
<1> QED
  BY <1>3, <1>4

LEMMA TypeIoStorePort ==
    ASSUME TypeOK, NEW n \in Node, IoStorePort(n), UNCHANGED coreVars
    PROVE  TypeOK'
<1>1. io[n] \in [step : {"store_port"}, local : Port, node : NodeName, port : PortName,
                 respond : BOOLEAN]
  BY DEF IoStorePort, IoAt, IoState, TypeOK, NodeTypeOK
<1>2. PortsTypeOK'
  BY <1>1, TypeStore DEF IoStorePort, TypeOK
<1>3. io' \in [Node -> IoState]
  <2>1. CASE io[n].respond
    <3>1. io' = [io EXCEPT ![n] = [step |-> "respond", local |-> io[n].local,
                                  node |-> io[n].node, port |-> io[n].port]]
      BY <2>1 DEF IoStorePort, GoIo
    <3> QED
      BY <1>1, <3>1 DEF IoState, PortName, TypeOK, NodeTypeOK
  <2>2. CASE ~ io[n].respond
    BY <2>2 DEF IoStorePort, GoIo, Idle, IoState, TypeOK, NodeTypeOK
  <2> QED
    BY <2>1, <2>2
<1> QED
  BY <1>2, <1>3 DEF IoStorePort, TypeOK, NodeTypeOK, CoreTypeOK, coreVars

LEMMA TypeRespond ==
    ASSUME TypeOK, NEW n \in Node, IoRespond(n), UNCHANGED coreVars
    PROVE  TypeOK'
<1> DEFINE i == peers[<<n, io[n].node>>]
<1>1. io[n].local \in PortName /\ io[n].node \in NodeName /\ io[n].port \in PortName
  BY DEF IoRespond, IoAt, IoState, TypeOK, NodeTypeOK
<1>2. i \in Inv \cup {None}
  BY <1>1 DEF TypeOK, NodeTypeOK
<1>3. [type |-> "ResponsePortMerge", connector |-> io[n].port, port |-> io[n].local] \in Message
  BY <1>1 DEF Message
<1>4. chan' \in [Inv \X Node -> Seq(Message)]
  <2>1. chan \in [Inv \X Node -> Seq(Message)]
    BY DEF TypeOK, NodeTypeOK
  <2>2. CASE i = None
    BY <2>1, <2>2 DEF IoRespond
  <2>3. CASE i # None
    <3>1. SendTo(i, n, [type |-> "ResponsePortMerge", connector |-> io[n].port,
                        port |-> io[n].local])
      BY <2>3 DEF IoRespond
    <3> QED
      BY <1>2, <1>3, <2>1, <3>1, AppendChan DEF SendTo
  <2> QED
    BY <2>2, <2>3
<1>5. io' \in [Node -> IoState] /\ crashed' \in [Node -> CrashCause \cup {"no"}]
  <2>1. CASE i = None
    BY <2>1 DEF IoRespond, Die, CrashCause, TypeOK, NodeTypeOK
  <2>2. CASE i # None
    <3>1. GoIo(n, Idle) /\ UNCHANGED crashed
      BY <2>2 DEF IoRespond
    <3> QED
      BY <3>1 DEF GoIo, Idle, IoState, TypeOK, NodeTypeOK
  <2> QED
    BY <2>1, <2>2
<1> QED
  BY <1>4, <1>5 DEF IoRespond, TypeOK, PortsTypeOK, NodeTypeOK, CoreTypeOK, portVars, coreVars

LEMMA TypeResponsePortMerge ==
    ASSUME TypeOK, NEW i \in Inv, NEW n \in Node,
           HandleResponsePortMerge(i, n), UNCHANGED coreVars
    PROVE  TypeOK'
<1> DEFINE m    == Head(chan[<<i, n>>])
           peer == ConnectorPeer(n, m.connector)
           from == remote[<<i, n>>]
<1>1. chan' \in [Inv \X Node -> Seq(Message)] /\ m \in Message
  BY TailChan DEF HandleResponsePortMerge, Receive, Pop, Popped, TypeOK, NodeTypeOK
<1>2. m.connector \in PortName /\ m.port \in PortName /\ from \in NodeName
  BY <1>1 DEF Message, HandleResponsePortMerge, Receive, TypeOK, NodeTypeOK
<1>3. PortsTypeOK' /\ io' \in [Node -> IoState] /\ crashed' \in [Node -> CrashCause \cup {"no"}]
  <2>1. CASE ~ Registered(n, m.connector)
    BY <2>1 DEF HandleResponsePortMerge, portVars, TypeOK, NodeTypeOK, PortsTypeOK
  <2>2. CASE Registered(n, m.connector) /\ peer = None
    BY <2>2 DEF HandleResponsePortMerge, Die, CrashCause, portVars, TypeOK, NodeTypeOK, PortsTypeOK
  <2>3. CASE Registered(n, m.connector) /\ peer # None
    <3>1. peer \in Port
      BY <2>3 DEF ConnectorPeer, TypeOK, PortsTypeOK
    <3>2. PortsTypeOK'
      BY <1>2, <2>3, <3>1, TypeStoreNode DEF HandleResponsePortMerge, TypeOK
    <3>3. CASE Registered(n, peerPort[peer])
      <4>1. peerPort[peer] \in Port
        BY <3>3 DEF Registered, TypeOK, PortsTypeOK
      <4>2. io' = [io EXCEPT ![n] = [step |-> "store_port", local |-> peerPort[peer],
                                    node |-> from, port |-> m.port, respond |-> FALSE]]
        BY <2>3, <3>3 DEF HandleResponsePortMerge, GoIo
      <4>3. io' \in [Node -> IoState]
        BY <1>2, <4>1, <4>2 DEF IoState, TypeOK, NodeTypeOK
      <4> QED
        BY <2>3, <3>2, <4>3 DEF HandleResponsePortMerge, TypeOK, NodeTypeOK
    <3>4. CASE ~ Registered(n, peerPort[peer])
      <4>1. io' = [io EXCEPT ![n] = Idle]
        BY <2>3, <3>4 DEF HandleResponsePortMerge, GoIo
      <4> QED
        BY <2>3, <3>2, <4>1 DEF HandleResponsePortMerge, Idle, IoState, TypeOK, NodeTypeOK
    <3> QED
      BY <3>3, <3>4
  <2> QED
    BY <2>1, <2>2, <2>3
<1> QED
  BY <1>1, <1>3 DEF HandleResponsePortMerge, TypeOK, NodeTypeOK, CoreTypeOK, coreVars

LEMMA TypeUserMessage ==
    ASSUME TypeOK, NEW i \in Inv, NEW n \in Node,
           HandleUserMessage(i, n), UNCHANGED coreVars
    PROVE  TypeOK'
<1> DEFINE m == Head(chan[<<i, n>>])
<1>1. chan' \in [Inv \X Node -> Seq(Message)] /\ m \in Message
  BY TailChan DEF HandleUserMessage, Receive, Pop, Popped, TypeOK, NodeTypeOK
<1>2. m.to \in PortName /\ m.data \in Msg
  BY <1>1 DEF Message, HandleUserMessage, Receive
<1>3. PortsTypeOK' /\ crashed' \in [Node -> CrashCause \cup {"no"}]
  <2>1. CASE Registered(n, m.to)
    <3>1. m.to \in Port /\ queue[m.to] \in Seq(Msg)
      BY <2>1 DEF Registered, TypeOK, PortsTypeOK
    <3>2. Append(queue[m.to], m.data) \in Seq(Msg)
      BY <1>2, <3>1, AppendProperties
    <3> QED
      BY <2>1, <3>2 DEF HandleUserMessage, AcceptMessage, TypeOK, NodeTypeOK, PortsTypeOK
  <2>2. CASE ~ Registered(n, m.to)
    BY <2>2 DEF HandleUserMessage, Die, CrashCause, portVars, TypeOK, NodeTypeOK, PortsTypeOK
  <2> QED
    BY <2>1, <2>2
<1> QED
  BY <1>1, <1>3 DEF HandleUserMessage, TypeOK, NodeTypeOK, CoreTypeOK, coreVars

-----------------------------------------------------------------------------
(* The same for the API calls.                                               *)

LEMMA TypeCreatePortPair ==
    ASSUME PortsTypeOK, NEW c \in Call, CreatePortPair(c)
    PROVE  PortsTypeOK'
<1>1. callNode[c] \in NodeName /\ Port0(c) \in Port /\ Port1(c) \in Port /\ callNode[c] \in Node
  BY PortFacts DEF NodeName
<1>2. \A p \in Port : Sibling(p) \in PortName
  BY PortFacts DEF PortName
<1>3. peerNode' \in [Port -> NodeName] /\ peerPort' \in [Port -> PortName]
  BY <1>1, <1>2 DEF CreatePortPair, PortsTypeOK
<1>4. peerMap' \subseteq Node \X NodeName \X Port \X Port
  BY <1>1 DEF CreatePortPair, PortsTypeOK
<1>5. ports' \subseteq Port /\ queue' \in [Port -> Seq(Msg)]
  BY <1>1 DEF CreatePortPair, PortsTypeOK
<1> QED
  BY <1>3, <1>4, <1>5 DEF PortsTypeOK

LEMMA TypeAttach ==
    ASSUME TypeOK, NEW c \in Call, NEW i \in Inv, NEW name \in Name, Attach(c, i, name)
    PROVE  TypeOK'
<1>1. PortsTypeOK'
  BY TypeCreatePortPair DEF Attach, TypeOK
<1>2. Port0(c) \in Port /\ Port1(c) \in Port
  BY PortFacts
<1>3. /\ attached' \in [Inv \X Name -> PortName]
      /\ nameOf' \in [Port -> Name \cup {None}]
      /\ offeredBy' \in [Port -> Inv \cup {None}]
      /\ pipes' \subseteq Port
  <2>1. CASE attached[<<i, name>>] = None
    BY <1>2, <2>1 DEF Attach, GetHandle, PortName, TypeOK, CoreTypeOK
  <2>2. CASE attached[<<i, name>>] # None
    BY <2>2 DEF Attach, TypeOK, CoreTypeOK
  <2> QED
    BY <2>1, <2>2
<1> QED
  BY <1>1, <1>3 DEF Attach, TypeOK, NodeTypeOK, CoreTypeOK, nodeVars

LEMMA TypeSendInvitation ==
    ASSUME TypeOK, NEW i \in Inv, CoreSendInvitation(i)
    PROVE  TypeOK'
<1> DEFINE n == inviterOf[i]
           portMap == [m \in Name |-> attached[<<i, m>>]]
<1>1. SendInvitation(i, portMap) /\ n \in Node
  BY EndFacts, InvitationAssumption DEF CoreSendInvitation
<1>2. portMap \in PortMap
  BY DEF PortMap, TypeOK, CoreTypeOK
<1>3. reserved' \in [Node \X NodeName -> PortMap \cup {None}]
  <2> HIDE DEF portMap
  <2> QED
    BY <1>1, <1>2 DEF SendInvitation, TypeOK, NodeTypeOK
<1>4. [type |-> "AcceptInvitee", inviter |-> n, token |-> i] \in Message
  BY <1>1 DEF Message
<1>5. chan' \in [Inv \X Node -> Seq(Message)]
  BY <1>1, <1>4, AppendChan DEF SendInvitation, SendTo, TypeOK, NodeTypeOK
<1>6. remote' \in [Inv \X Node -> NodeName] /\ pendingInv' \subseteq Inv
  BY <1>1 DEF SendInvitation, NodeName, TypeOK, NodeTypeOK
<1>7. attached' \in [Inv \X Name -> PortName]
  BY DEF CoreSendInvitation, TypeOK, CoreTypeOK, PortName
<1> QED
  BY <1>1, <1>3, <1>5, <1>6, <1>7
  DEF SendInvitation, CoreSendInvitation, TypeOK, PortsTypeOK, NodeTypeOK, CoreTypeOK, portVars

LEMMA TypeAcceptCall ==
    ASSUME TypeOK, NEW i \in Inv, CoreAcceptInvitation(i)
    PROVE  TypeOK'
<1>1. AcceptInvitation(i) /\ UNCHANGED coreVars /\ inviteeOf[i] \in Node
  BY InvitationAssumption DEF CoreAcceptInvitation
<1>2. /\ accepted' \subseteq Inv
      /\ inviterName' \in [Node -> Node \cup {None}]
      /\ inviterChan' \in [Node -> Inv \cup {None}]
      /\ crashed' \in [Node -> CrashCause \cup {"no"}]
  BY <1>1 DEF AcceptInvitation, DieIf, Die, CrashCause, TypeOK, NodeTypeOK
<1> QED
  BY <1>1, <1>2 DEF AcceptInvitation, TypeOK, PortsTypeOK, NodeTypeOK, CoreTypeOK,
       portVars, coreVars

LEMMA TypeExtractLocal ==
    ASSUME TypeOK, NEW i \in Inv, NEW name \in Name, ExtractLocal(i, name)
    PROVE  TypeOK'
<1>1. attached' \in [Inv \X Name -> PortName] /\ pipes' \subseteq Port
  BY DEF ExtractLocal, GetHandle, PortName, TypeOK, CoreTypeOK
<1> QED
  BY <1>1 DEF ExtractLocal, TypeOK, PortsTypeOK, NodeTypeOK, CoreTypeOK, portVars, nodeVars

LEMMA TypeExtract ==
    ASSUME TypeOK, NEW c \in Call, NEW i \in Inv, NEW name \in Name, Extract(c, i, name)
    PROVE  TypeOK'
<1> DEFINE n == callNode[c]
           ch == GetInviterChannel(n)
<1>1. PortsTypeOK'
  BY TypeCreatePortPair DEF Extract, TypeOK
<1>2. Port0(c) \in Port /\ n \in Node
  BY PortFacts
<1>3. MergePortIntoInviter(n, name, Port0(c))
  BY DEF Extract
<1>4. pendingMerges' \in [Node -> Seq(Name \X Port)] /\ app' \in [Node -> AppState]
  <2>1. CASE ch = None
    <3>1. pendingMerges[n] \in Seq(Name \X Port) /\ <<name, Port0(c)>> \in Name \X Port
      BY <1>2 DEF TypeOK, NodeTypeOK
    <3>2. Append(pendingMerges[n], <<name, Port0(c)>>) \in Seq(Name \X Port)
      BY <3>1, AppendProperties
    <3> QED
      BY <1>3, <2>1, <3>2 DEF MergePortIntoInviter, TypeOK, NodeTypeOK
  <2>2. CASE ch # None
    <3>1. ch \in Inv
      BY <1>2, <2>2 DEF GetInviterChannel, NodeName, TypeOK, NodeTypeOK
    <3> QED
      BY <1>2, <1>3, <2>2, <3>1 DEF MergePortIntoInviter, GoApp, AppState, TypeOK, NodeTypeOK
  <2> QED
    BY <2>1, <2>2
<1>5. pipes' \subseteq Port /\ nameOf' \in [Port -> Name \cup {None}] /\ made' \subseteq Call
  BY <1>2 DEF Extract, GetHandle, TypeOK, CoreTypeOK
<1> QED
  BY <1>1, <1>4, <1>5 DEF Extract, TypeOK, NodeTypeOK, CoreTypeOK

LEMMA TypeSendRequest ==
    ASSUME TypeOK, NEW n \in Node, CoreSendRequest(n)
    PROVE  TypeOK'
<1>1. app[n].channel \in Inv /\ app[n].name \in Name /\ app[n].port \in Port
  BY DEF CoreSendRequest, SendRequest, AppAt, AppState, TypeOK, NodeTypeOK
<1>2. RequestPortMerge(app[n].name, app[n].port) \in Message
  BY <1>1 DEF RequestPortMerge, Message
<1>3. chan' \in [Inv \X Node -> Seq(Message)]
  BY <1>1, <1>2, AppendChan DEF CoreSendRequest, SendRequest, SendTo, TypeOK, NodeTypeOK
<1>4. app' \in [Node -> AppState]
  BY DEF CoreSendRequest, SendRequest, GoApp, Idle, AppState, TypeOK, NodeTypeOK
<1> QED
  BY <1>3, <1>4 DEF CoreSendRequest, SendRequest, TypeOK, PortsTypeOK, NodeTypeOK, CoreTypeOK,
       portVars, coreVars

LEMMA TypeWrite ==
    ASSUME TypeOK, NEW p \in Port, NEW m \in Msg, Write(p, m)
    PROVE  TypeOK'
<1>1. written' \in [Msg -> PortName]
  BY DEF Write, PortName, TypeOK, CoreTypeOK
<1>2. peerPort[p] \in PortName
  BY DEF TypeOK, PortsTypeOK
<1>3. app' \in [Node -> AppState]
  BY <1>2 DEF Write, GoApp, AppState, TypeOK, NodeTypeOK
<1> QED
  BY <1>1, <1>3 DEF Write, TypeOK, PortsTypeOK, NodeTypeOK, CoreTypeOK, portVars

LEMMA TypeForward ==
    ASSUME TypeOK, NEW n \in Node, WriteForward(n)
    PROVE  TypeOK'
<1> DEFINE w    == app[n]
           node == peerNode[w.from]
           u    == [type |-> "UserMessage", from |-> w.from, to |-> w.to, data |-> w.data]
           ch   == peers[<<n, node>>]
<1>1. w.from \in Port /\ w.to \in PortName /\ w.data \in Msg
  BY DEF WriteForward, AppAt, AppState, TypeOK, NodeTypeOK
<1>2. u \in Message /\ node \in NodeName
  BY <1>1 DEF Message, TypeOK, PortsTypeOK
<1>3. ForwardEvent(n, node, u) /\ GoApp(n, Idle)
  BY DEF WriteForward
<1>4. /\ chan \in [Inv \X Node -> Seq(Message)]
      /\ pendingPeerMsgs \in [Node \X NodeName -> Seq(Message)]
      /\ ch \in Inv \cup {None}
  BY <1>2 DEF TypeOK, NodeTypeOK
<1>5. /\ chan' \in [Inv \X Node -> Seq(Message)]
      /\ pendingPeerMsgs' \in [Node \X NodeName -> Seq(Message)]
  <2> HIDE DEF u, node
  <2>1. CASE node = n
    BY <1>3, <1>4, <2>1 DEF ForwardEvent
  <2>2. CASE node # n /\ ch # None
    <3>1. SendTo(ch, n, u) /\ UNCHANGED pendingPeerMsgs
      BY <1>3, <2>2 DEF ForwardEvent
    <3> QED
      BY <1>2, <1>4, <3>1, AppendChan DEF SendTo
  <2>3. CASE node # n /\ ch = None
    <3>1. Append(pendingPeerMsgs[<<n, node>>], u) \in Seq(Message)
      BY <1>2, <1>4, AppendProperties
    <3> QED
      BY <1>3, <1>4, <2>3, <3>1 DEF ForwardEvent
  <2> QED
    BY <2>1, <2>2, <2>3
<1>6. app' \in [Node -> AppState]
  BY <1>3 DEF GoApp, Idle, AppState, TypeOK, NodeTypeOK
<1> QED
  BY <1>5, <1>6 DEF WriteForward, TypeOK, PortsTypeOK, NodeTypeOK, CoreTypeOK, portVars, coreVars

LEMMA TypeRead ==
    ASSUME TypeOK, NEW p \in Port, Read(p)
    PROVE  TypeOK'
<1>1. queue[p] \in Seq(Msg) /\ queue[p] # <<>>
  BY DEF Read, TypeOK, PortsTypeOK
<1>2. Len(queue[p]) \in Nat /\ Len(queue[p]) >= 1 /\ Len(queue[p]) \in 1 .. Len(queue[p])
  BY <1>1, EmptySeq, LenProperties
<1>3. Last(queue[p]) \in Msg
  BY <1>1, <1>2, ElementOfSeq DEF Last
<1>4. Front(queue[p]) \in Seq(Msg)
  BY <1>1, <1>2, SubSeqProperties DEF Front
<1>5. queue' \in [Port -> Seq(Msg)]
  BY <1>4 DEF Read, GetNextMessage, TypeOK, PortsTypeOK
<1>6. got' \in [Msg -> PortName]
  BY <1>3 DEF Read, PortName, TypeOK, CoreTypeOK
<1> QED
  BY <1>5, <1>6 DEF Read, GetNextMessage, TypeOK, PortsTypeOK, NodeTypeOK, CoreTypeOK, nodeVars

\* Every step of every thread keeps the types.
LEMMA TypeStep == TypeOK /\ [Next]_vars => TypeOK'
<1> SUFFICES ASSUME TypeOK, [Next]_vars
             PROVE  TypeOK'
  OBVIOUS
<1>1. ASSUME NEW e \in End, Handle(e[1], e[2]), UNCHANGED coreVars
      PROVE  TypeOK'
  BY <1>1, EndType, TypeAcceptInvitee, TypeAcceptInvitation, TypeRequestPortMerge,
     TypeResponsePortMerge, TypeUserMessage DEF Handle
<1>2. ASSUME NEW n \in Node, IoContinue(n), UNCHANGED coreVars
      PROVE  TypeOK'
  BY <1>2, TypeSendAccept, TypeAddPeer, TypeTakePending, TypeFlush, TypeIoStorePort, TypeRespond
  DEF IoContinue
<1>3. CASE App
  BY <1>3, TypeAttach, TypeSendInvitation, TypeAcceptCall, TypeExtractLocal, TypeExtract,
     TypeSendRequest, TypeWrite, TypeForward, TypeRead DEF App
<1>4. CASE UNCHANGED vars
  BY <1>4 DEF vars, portVars, nodeVars, coreVars, TypeOK, PortsTypeOK, NodeTypeOK, CoreTypeOK
<1> QED
  BY <1>1, <1>2, <1>3, <1>4 DEF Next, Io

\* The state of ports, controllers and applications has the types declared for it, for any
\* processes, invitations, calls, names and messages.
THEOREM TypeCorrect == Spec => []TypeOK
<1>1. Init => TypeOK
  BY TypeInit
<1>2. TypeOK /\ [Next]_vars => TypeOK'
  BY TypeStep
<1> QED
  BY <1>1, <1>2, PTL DEF Spec

-----------------------------------------------------------------------------
(* Sequences of later messages.                                              *)

LEMMA LaterNothing == LaterOnly(<<>>) /\ <<>> \in Seq(Message)
BY EmptySeq DEF LaterOnly

LEMMA LaterOne ==
    ASSUME NEW m \in Message, m.type \in Later
    PROVE  LaterOnly(<<m>>) /\ <<m>> \in Seq(Message)
<1>1. <<m>> \in Seq(Message) /\ Len(<<m>>) = 1 /\ <<m>>[1] = m
  OBVIOUS
<1> QED
  BY <1>1 DEF LaterOnly

LEMMA LaterTail ==
    ASSUME NEW s \in Seq(Message), s # <<>>, LaterOnly(s)
    PROVE  LaterOnly(Tail(s)) /\ Head(s).type \in Later
<1>1. Len(s) \in Nat /\ Len(s) # 0 /\ Len(Tail(s)) = Len(s) - 1 /\ Head(s) = s[1]
  BY EmptySeq, LenProperties, HeadTailProperties
<1>2. \A k \in 1 .. Len(Tail(s)) : Tail(s)[k] = s[k + 1] /\ k + 1 \in 1 .. Len(s)
  BY <1>1, HeadTailProperties
<1> QED
  BY <1>1, <1>2 DEF LaterOnly

LEMMA LaterConcat ==
    ASSUME NEW s \in Seq(Message), NEW t \in Seq(Message), LaterOnly(s), LaterOnly(t)
    PROVE  LaterOnly(s \o t)
<1>1. /\ Len(s) \in Nat /\ Len(t) \in Nat /\ Len(s \o t) = Len(s) + Len(t)
      /\ \A k \in 1 .. Len(s) + Len(t) : (s \o t)[k] = IF k <= Len(s) THEN s[k] ELSE t[k - Len(s)]
  BY LenProperties, ConcatProperties
<1>2. ASSUME NEW k \in 1 .. Len(s \o t)
      PROVE  (s \o t)[k].type \in Later
  <2>1. CASE k <= Len(s)
    BY <1>1, <2>1 DEF LaterOnly
  <2>2. CASE ~ (k <= Len(s))
    <3>1. k - Len(s) \in 1 .. Len(t) /\ (s \o t)[k] = t[k - Len(s)]
      BY <1>1, <2>2
    <3> QED
      BY <3>1 DEF LaterOnly
  <2> QED
    BY <2>1, <2>2
<1> QED
  BY <1>2 DEF LaterOnly

\* What is put behind the answer leaves it at the head.
LEMMA LaterBehind ==
    ASSUME NEW s \in Seq(Message), NEW t \in Seq(Message), s # <<>>,
           LaterOnly(Tail(s)), LaterOnly(t)
    PROVE  /\ s \o t # <<>>
           /\ Head(s \o t) = Head(s)
           /\ LaterOnly(Tail(s \o t))
<1>1. /\ Len(s) \in Nat /\ Len(s) # 0 /\ Len(t) \in Nat /\ Len(s \o t) = Len(s) + Len(t)
      /\ s \o t \in Seq(Message)
      /\ \A k \in 1 .. Len(s) + Len(t) : (s \o t)[k] = IF k <= Len(s) THEN s[k] ELSE t[k - Len(s)]
  BY EmptySeq, LenProperties, ConcatProperties
<1>2. s \o t # <<>>
  BY <1>1, EmptySeq
<1>3. /\ Head(s \o t) = (s \o t)[1] /\ Head(s) = s[1]
      /\ Len(Tail(s)) = Len(s) - 1 /\ Len(Tail(s \o t)) = Len(s \o t) - 1
      /\ \A k \in 1 .. Len(Tail(s)) : Tail(s)[k] = s[k + 1]
      /\ \A k \in 1 .. Len(Tail(s \o t)) : Tail(s \o t)[k] = (s \o t)[k + 1]
  BY <1>1, <1>2, HeadTailProperties
<1>4. Head(s \o t) = Head(s)
  BY <1>1, <1>3
<1>5. ASSUME NEW k \in 1 .. Len(Tail(s \o t))
      PROVE  Tail(s \o t)[k].type \in Later
  <2>1. k + 1 \in 1 .. Len(s) + Len(t) /\ Tail(s \o t)[k] = (s \o t)[k + 1]
    BY <1>1, <1>3
  <2>2. CASE k + 1 <= Len(s)
    <3>1. k \in 1 .. Len(Tail(s)) /\ Tail(s \o t)[k] = Tail(s)[k]
      BY <1>1, <1>3, <2>1, <2>2
    <3> QED
      BY <3>1 DEF LaterOnly
  <2>3. CASE ~ (k + 1 <= Len(s))
    <3>1. k + 1 - Len(s) \in 1 .. Len(t) /\ Tail(s \o t)[k] = t[k + 1 - Len(s)]
      BY <1>1, <2>1, <2>3
    <3> QED
      BY <3>1 DEF LaterOnly
  <2> QED
    BY <2>2, <2>3
<1> QED
  BY <1>2, <1>4, <1>5 DEF LaterOnly

-----------------------------------------------------------------------------
(* The phases exclude one another as far as the steps need it.               *)

LEMMA InvFacts ==
    \A i \in Inv : /\ inviterOf[i] \in Node /\ inviteeOf[i] \in Node
                   /\ inviterOf[i] # inviteeOf[i]
                   /\ i # None /\ inviteeOf[i] # None /\ i # inviteeOf[i]
                   /\ Other(i, inviterOf[i]) = inviteeOf[i]
                   /\ Other(i, inviteeOf[i]) = inviterOf[i]
                   /\ <<i, inviterOf[i]>> # <<i, inviteeOf[i]>>
BY InvitationAssumption, PortsAssumption DEF Other

LEMMA Exclusive ==
    ASSUME NEW i \in Inv
    PROVE  /\ Unsent(i) => ~ Offered(i) /\ ~ Answering(i) /\ ~ Answered(i) /\ ~ Done(i)
           /\ Offered(i) => ~ Answering(i) /\ ~ Answered(i) /\ ~ Done(i)
           /\ Answering(i) => ~ Answered(i) /\ ~ Done(i)
           /\ Answered(i) => ~ Done(i)
BY InvFacts DEF Unsent, Offered, Answering, Answered, Done, Pending

\* What a step may do to the messages of invitation i without leaving its phase.
Traffic(i) ==
    /\ Unsent(i) \/ Offered(i) \/ Answering(i) =>
         ToInviter(i)' = ToInviter(i) /\ ToInvitee(i)' = ToInvitee(i)
    /\ Answered(i) =>
         /\ ToInviter(i)' # <<>> /\ Head(ToInviter(i)') = Head(ToInviter(i))
         /\ LaterOnly(Tail(ToInviter(i)'))
         /\ ToInvitee(i)' = ToInvitee(i)
    /\ Done(i) => LaterOnly(ToInviter(i)') /\ LaterOnly(ToInvitee(i)')

LEMMA SamePhase ==
    ASSUME NEW i \in Inv, Traffic(i),
           remote'[<<i, inviterOf[i]>>] = remote[<<i, inviterOf[i]>>],
           i \in pendingInv => i \in pendingInv',
           \A n \in Node : CanUse(n, i)' =>
               CanUse(n, i) \/ (n = inviteeOf[i] /\ (Answered(i) \/ Done(i))),
           Answering(i) => AboutToAnswer(i)'
    PROVE  /\ Unsent(i) => Unsent(i)'
           /\ Offered(i) => Offered(i)'
           /\ Answering(i) => Answering(i)'
           /\ Answered(i) => Answered(i)'
           /\ Done(i) => Done(i)'
<1>1. ASSUME Unsent(i) PROVE Unsent(i)'
  <2>1. ToInviter(i)' = ToInviter(i) /\ ToInvitee(i)' = ToInvitee(i)
    BY <1>1 DEF Traffic
  <2>2. Unused(i)'
    BY <1>1, Exclusive DEF Unused, Unsent
  <2> QED
    BY <1>1, <2>1, <2>2 DEF Unsent
<1>2. ASSUME Offered(i) PROVE Offered(i)'
  <2>1. ToInviter(i)' = ToInviter(i) /\ ToInvitee(i)' = ToInvitee(i)
    BY <1>2 DEF Traffic
  <2>2. Unused(i)'
    BY <1>2, Exclusive DEF Unused, Offered
  <2> QED
    BY <1>2, <2>1, <2>2 DEF Offered, Pending, Offer
<1>3. ASSUME Answering(i) PROVE Answering(i)'
  <2>1. ToInviter(i)' = ToInviter(i) /\ ToInvitee(i)' = ToInvitee(i)
    BY <1>3 DEF Traffic
  <2>2. Unused(i)'
    BY <1>3, Exclusive DEF Unused, Answering
  <2>3. AboutToAnswer(i)'
    BY <1>3
  <2> QED
    BY <1>3, <2>1, <2>2, <2>3 DEF Answering, Pending
<1>4. ASSUME Answered(i) PROVE Answered(i)'
  <2>1. /\ ToInviter(i)' # <<>> /\ Head(ToInviter(i)') = Head(ToInviter(i))
        /\ LaterOnly(Tail(ToInviter(i)'))
        /\ ToInvitee(i)' = ToInvitee(i)
    BY <1>4 DEF Traffic
  <2>2. ~ CanUse(inviterOf[i], i)'
    BY <1>4, InvFacts DEF Answered
  <2> QED
    BY <1>4, <2>1, <2>2 DEF Answered, Pending, Answer, LaterOnly
<1>5. ASSUME Done(i) PROVE Done(i)'
  BY <1>5 DEF Traffic, Done, LaterOnly
<1> QED
  BY <1>1, <1>2, <1>3, <1>4, <1>5

-----------------------------------------------------------------------------
(* What sending and receiving does to the traffic of every invitation.       *)

LEMMA ChanType ==
    ASSUME TypeOK, NEW i \in Inv
    PROVE  ToInviter(i) \in Seq(Message) /\ ToInvitee(i) \in Seq(Message)
BY InvFacts DEF TypeOK, NodeTypeOK, ToInviter, ToInvitee

LEMMA SameTraffic ==
    ASSUME NEW i \in Inv,
           ToInviter(i)' = ToInviter(i), ToInvitee(i)' = ToInvitee(i)
    PROVE  Traffic(i)
BY DEF Traffic, Answered, Done

\* Whoever may use a channel may put later messages into it.
LEMMA SendTraffic ==
    ASSUME TypeOK, HandshakeInv, NEW n \in Node, NEW i \in Inv, CanUse(n, i),
           NEW t \in Seq(Message), LaterOnly(t),
           chan' = [chan EXCEPT ![<<i, Other(i, n)>>] = @ \o t]
    PROVE  \A j \in Inv : Traffic(j)
<1> SUFFICES ASSUME NEW j \in Inv PROVE Traffic(j)
  OBVIOUS
<1>1. chan \in [Inv \X Node -> Seq(Message)]
  BY DEF TypeOK, NodeTypeOK
<1>2. n \in {inviterOf[i], inviteeOf[i]}
  BY DEF HandshakeInv, EndsOnly
<1>3. CASE j # i
  BY <1>1, <1>3, InvFacts, SameTraffic DEF ToInviter, ToInvitee
<1>4. CASE j = i
  <2>1. ~ Unsent(i) /\ ~ Offered(i) /\ ~ Answering(i)
    BY DEF Unsent, Offered, Answering, Unused
  <2>2. CASE n = inviteeOf[i]
    <3>1. ToInviter(i)' = ToInviter(i) \o t /\ ToInvitee(i)' = ToInvitee(i)
      BY <1>1, <2>2, InvFacts DEF ToInviter, ToInvitee
    <3> QED
      BY <1>4, <2>1, <3>1, ChanType, LaterBehind, LaterConcat DEF Traffic, Answered, Done
  <2>3. CASE n = inviterOf[i]
    <3>1. ToInviter(i)' = ToInviter(i) /\ ToInvitee(i)' = ToInvitee(i) \o t
      BY <1>1, <2>3, InvFacts DEF ToInviter, ToInvitee
    <3>2. ~ Answered(i)
      BY <2>3 DEF Answered
    <3> QED
      BY <1>4, <2>1, <3>1, <3>2, ChanType, LaterConcat DEF Traffic, Done
  <2> QED
    BY <1>2, <2>2, <2>3
<1> QED
  BY <1>3, <1>4

LEMMA SendOneTraffic ==
    ASSUME TypeOK, HandshakeInv, NEW n \in Node, NEW i \in Inv, CanUse(n, i),
           NEW m \in Message, m.type \in Later, SendTo(i, n, m)
    PROVE  \A j \in Inv : Traffic(j)
<1>1. chan[<<i, Other(i, n)>>] \in Seq(Message)
  BY EndFacts DEF TypeOK, NodeTypeOK
<1>2. Append(chan[<<i, Other(i, n)>>], m) = chan[<<i, Other(i, n)>>] \o <<m>>
  BY <1>1, AppendIsConcat
<1>3. chan' = [chan EXCEPT ![<<i, Other(i, n)>>] = @ \o <<m>>]
  BY <1>2 DEF SendTo
<1> QED
  BY <1>3, LaterOne, SendTraffic

\* The phase of an invitation tells what its next message may be.
LEMMA HeadTraffic ==
    ASSUME TypeOK, HandshakeInv, NEW i \in Inv, NEW n \in Node, <<i, n>> \in End,
           chan[<<i, n>>] # <<>>
    PROVE  \/ n = inviteeOf[i] /\ Offered(i)
           \/ n = inviterOf[i] /\ Answered(i)
           \/ Done(i) /\ Head(chan[<<i, n>>]).type \in Later
<1>1. n \in {inviterOf[i], inviteeOf[i]} /\ chan[<<i, n>>] \in Seq(Message)
  BY DEF End, TypeOK, NodeTypeOK
<1>2. Phase(i)
  BY DEF HandshakeInv
<1>3. CASE Done(i)
  <2>1. LaterOnly(chan[<<i, n>>])
    BY <1>1, <1>3 DEF Done, ToInviter, ToInvitee
  <2> QED
    BY <1>1, <1>3, <2>1, LaterTail
<1>4. ASSUME ToInviter(i) # <<>>
      PROVE  Answered(i) \/ Done(i)
  BY <1>2, <1>4 DEF Phase, Unsent, Offered, Answering
<1>5. ASSUME ToInvitee(i) # <<>>
      PROVE  Offered(i) \/ Done(i)
  BY <1>2, <1>5 DEF Phase, Unsent, Answered, Answering
<1> QED
  BY <1>1, <1>3, <1>4, <1>5 DEF ToInviter, ToInvitee

LEMMA OfferedHead ==
    ASSUME NEW i \in Inv, Offered(i)
    PROVE  Head(ToInvitee(i)) = Offer(i) /\ Tail(ToInvitee(i)) = <<>>
BY DEF Offered

\* Taking a later message leaves every handshake where it is.
LEMMA PopTraffic ==
    ASSUME TypeOK, HandshakeInv, NEW i \in Inv, NEW n \in Node, <<i, n>> \in End,
           chan[<<i, n>>] # <<>>, Head(chan[<<i, n>>]).type \in Later, Pop(i, n)
    PROVE  \A j \in Inv : Traffic(j)
<1> SUFFICES ASSUME NEW j \in Inv PROVE Traffic(j)
  OBVIOUS
<1>1. chan \in [Inv \X Node -> Seq(Message)]
  BY DEF TypeOK, NodeTypeOK
<1>2. chan' = [chan EXCEPT ![<<i, n>>] = Tail(@)]
  BY DEF Pop, Popped
<1>3. Done(i)
  <2>1. "AcceptInvitee" \notin Later /\ "AcceptInvitation" \notin Later
    BY DEF Later
  <2>2. ~ (n = inviteeOf[i] /\ Offered(i))
    <3>1. ASSUME n = inviteeOf[i], Offered(i)
          PROVE  Head(chan[<<i, n>>]).type = "AcceptInvitee"
      <4>1. Head(ToInvitee(i)) = Offer(i) /\ Offer(i).type = "AcceptInvitee"
        BY <3>1, OfferedHead DEF Offer
      <4> QED
        BY <3>1, <4>1 DEF ToInvitee
    <3> QED
      BY <2>1, <3>1
  <2>3. ~ (n = inviterOf[i] /\ Answered(i))
    BY <2>1 DEF Answered, Answer, ToInviter
  <2> QED
    BY <2>2, <2>3, HeadTraffic
<1>4. CASE j # i
  BY <1>1, <1>2, <1>4, InvFacts, SameTraffic DEF ToInviter, ToInvitee
<1>5. CASE j = i
  <2>1. LaterOnly(ToInviter(i)) /\ LaterOnly(ToInvitee(i)) /\ LaterOnly(chan[<<i, n>>])
    BY <1>3 DEF Done, End, ToInviter, ToInvitee
  <2>2. LaterOnly(Tail(chan[<<i, n>>]))
    BY <1>1, <2>1, LaterTail
  <2>3. LaterOnly(ToInviter(i)') /\ LaterOnly(ToInvitee(i)')
    <3>1. n = inviterOf[i] \/ n = inviteeOf[i]
      BY DEF End
    <3>2. CASE n = inviterOf[i]
      <4>1. ToInviter(i)' = Tail(chan[<<i, n>>]) /\ ToInvitee(i)' = ToInvitee(i)
        BY <1>1, <1>2, <3>2, InvFacts DEF ToInviter, ToInvitee
      <4> QED
        BY <2>1, <2>2, <4>1
    <3>3. CASE n = inviteeOf[i]
      <4>1. ToInvitee(i)' = Tail(chan[<<i, n>>]) /\ ToInviter(i)' = ToInviter(i)
        BY <1>1, <1>2, <3>3, InvFacts DEF ToInviter, ToInvitee
      <4> QED
        BY <2>1, <2>2, <4>1
    <3> QED
      BY <3>1, <3>2, <3>3
  <2> QED
    BY <1>3, <1>5, <2>3, Exclusive DEF Traffic
<1> QED
  BY <1>4, <1>5

-----------------------------------------------------------------------------
(* Steps outside the handshake.                                              *)

\* A step that sends or takes later messages only, and leaves alone what the handshake
\* reads, keeps the invariant.
Outside ==
    /\ UNCHANGED <<remote, accepted, inviterChan, peers, pendingInv>>
    /\ \A n \in Node : io'[n] # io[n] =>
         {io[n].step, io'[n].step} \cap {"accept", "add_peer"} = {}
    /\ \A n \in Node : crashed'[n] = "no" => crashed[n] = "no"

LEMMA OutsideStep ==
    ASSUME TypeOK, HandshakeInv, Outside, \A i \in Inv : Traffic(i),
           \A n \in Node : app'[n] # app[n] /\ app'[n].step = "request" =>
               InPeers(n, app'[n].channel),
           \A e \in Node \X NodeName : LaterOnly(pendingPeerMsgs'[e])
    PROVE  HandshakeInv'
<1>1. ASSUME NEW n \in Node, NEW i \in Inv
      PROVE  InPeers(n, i)' = InPeers(n, i) /\ (CanUse(n, i)' => CanUse(n, i))
  BY DEF Outside, InPeers, CanUse
<1>2. ASSUME NEW i \in Inv
      PROVE  AboutToAnswer(i) => AboutToAnswer(i)'
  BY InvFacts DEF Outside, AboutToAnswer
<1>3. ASSUME NEW i \in Inv
      PROVE  /\ Unsent(i) => Unsent(i)'
             /\ Offered(i) => Offered(i)'
             /\ Answering(i) => Answering(i)'
             /\ Answered(i) => Answered(i)'
             /\ Done(i) => Done(i)'
  <2>1. /\ remote'[<<i, inviterOf[i]>>] = remote[<<i, inviterOf[i]>>]
        /\ i \in pendingInv => i \in pendingInv'
        /\ Traffic(i)
    BY DEF Outside
  <2>2. Answering(i) => AboutToAnswer(i)'
    BY <1>2 DEF Answering
  <2> QED
    BY <1>1, <2>1, <2>2, SamePhase
<1>4. ASSUME NEW i \in Inv
      PROVE  Phase(i)' /\ EndsOnly(i)' /\ AcceptedAlive(i)'
  <2>1. Phase(i)'
    BY <1>3 DEF HandshakeInv, Phase
  <2>2. EndsOnly(i)'
    BY <1>1 DEF HandshakeInv, EndsOnly
  <2>3. AcceptedAlive(i)'
    BY <1>1, InvFacts DEF HandshakeInv, AcceptedAlive, Outside
  <2> QED
    BY <2>1, <2>2, <2>3
<1>5. ASSUME NEW n \in Node
      PROVE  HandlesOffer(n)'
  <2> SUFFICES ASSUME io'[n].step \in {"accept", "add_peer"}
               PROVE  HandlesOffer(n)'
    BY DEF HandlesOffer
  <2> DEFINE i == io[n].token
  <2>1. io'[n] = io[n]
    BY DEF Outside
  <2>2. i \in Inv
    BY <2>1 DEF TypeOK, NodeTypeOK, IoState
  <2>3. HandlesOffer(n)
    BY DEF HandshakeInv
  <2>4. /\ inviteeOf[i] = n /\ inviterOf[i] = io[n].inviter
        /\ ~ InPeers(n, i)
        /\ crashed[n] = "no" => inviterChan[n] = i
        /\ io[n].step = "accept" => Answering(i)
        /\ io[n].step # "accept" => Answered(i) \/ Done(i)
    BY <2>1, <2>3 DEF HandlesOffer
  <2>5. /\ ~ InPeers(n, i)'
        /\ crashed'[n] = "no" => inviterChan'[n] = i
        /\ io[n].step = "accept" => Answering(i)'
        /\ io[n].step # "accept" => Answered(i)' \/ Done(i)'
    BY <1>1, <1>3, <2>2, <2>4 DEF Outside
  <2> QED
    BY <2>1, <2>4, <2>5 DEF HandlesOffer
<1> QED
  BY <1>4, <1>5 DEF HandshakeInv

LEMMA HsTakePending ==
    ASSUME TypeOK, HandshakeInv, NEW n \in Node, IoTakePending(n)
    PROVE  HandshakeInv'
<1>1. \A i \in Inv : Traffic(i)
  BY SameTraffic DEF IoTakePending, ToInviter, ToInvitee
<1>2. Flush(pendingMerges[n]).step \notin {"accept", "add_peer"}
  BY DEF Flush, Idle
<1>3. Outside
  BY <1>2 DEF Outside, IoTakePending, IoAt, GoIo, TypeOK, NodeTypeOK
<1> QED
  BY <1>1, <1>3, OutsideStep DEF IoTakePending, HandshakeInv

LEMMA InviterInPeers ==
    ASSUME TypeOK, NEW n \in Node, GetInviterChannel(n) # None
    PROVE  GetInviterChannel(n) \in Inv /\ InPeers(n, GetInviterChannel(n))
BY DEF GetInviterChannel, InPeers, NodeName, TypeOK, NodeTypeOK

LEMMA HsFlush ==
    ASSUME TypeOK, HandshakeInv, NEW n \in Node, IoFlush(n)
    PROVE  HandshakeInv'
<1> DEFINE i == GetInviterChannel(n)
           request == Head(io[n].merges)
           m == RequestPortMerge(request[1], request[2])
<1>1. io[n].step = "flush" /\ crashed[n] = "no"
  BY DEF IoFlush, IoAt
<1>2. request \in Name \X Port
  <2>1. io[n].merges \in Seq(Name \X Port) /\ io[n].merges # <<>>
    BY <1>1 DEF IoState, TypeOK, NodeTypeOK
  <2> QED
    BY <2>1, HeadTailProperties
<1>3. m \in Message /\ m.type \in Later
  BY <1>2 DEF RequestPortMerge, Message, Later
<1>4. Flush(Tail(io[n].merges)).step \notin {"accept", "add_peer"}
  BY DEF Flush, Idle
<1>5. \A j \in Inv : Traffic(j)
  <2>1. CASE i = None
    BY <2>1, SameTraffic DEF IoFlush, ToInviter, ToInvitee
  <2>2. CASE i # None
    <3>1. SendTo(i, n, m)
      BY <2>2 DEF IoFlush
    <3>2. i \in Inv /\ CanUse(n, i)
      BY <2>2, InviterInPeers DEF CanUse
    <3> QED
      BY <1>3, <3>1, <3>2, SendOneTraffic
  <2> QED
    BY <2>1, <2>2
<1>6. Outside
  <2>1. /\ UNCHANGED <<remote, accepted, inviterChan, peers, pendingInv>>
        /\ io' = [io EXCEPT ![n] = Flush(Tail(io[n].merges))] \/ io' = io
        /\ crashed' = [crashed EXCEPT ![n] = "null_channel"] \/ crashed' = crashed
    BY DEF IoFlush, GoIo, Die
  <2> QED
    BY <1>1, <1>4, <2>1 DEF Outside, TypeOK, NodeTypeOK
<1> QED
  BY <1>5, <1>6, OutsideStep DEF IoFlush, HandshakeInv

LEMMA HsStorePort ==
    ASSUME TypeOK, HandshakeInv, NEW n \in Node, IoStorePort(n)
    PROVE  HandshakeInv'
<1>1. \A i \in Inv : Traffic(i)
  BY SameTraffic DEF IoStorePort, ToInviter, ToInvitee
<1>2. Outside
  BY DEF Outside, IoStorePort, IoAt, GoIo, Idle, TypeOK, NodeTypeOK
<1> QED
  BY <1>1, <1>2, OutsideStep DEF IoStorePort, HandshakeInv

LEMMA HsRespond ==
    ASSUME TypeOK, HandshakeInv, NEW n \in Node, IoRespond(n)
    PROVE  HandshakeInv'
<1> DEFINE s == io[n]
           i == peers[<<n, s.node>>]
           m == [type |-> "ResponsePortMerge", connector |-> s.port, port |-> s.local]
<1>1. s.step = "respond" /\ crashed[n] = "no"
  BY DEF IoRespond, IoAt
<1>2. s.node \in NodeName /\ s.local \in PortName /\ s.port \in PortName
  BY <1>1 DEF IoState, TypeOK, NodeTypeOK
<1>3. m \in Message /\ m.type \in Later
  BY <1>2 DEF Message, Later
<1>4. \A j \in Inv : Traffic(j)
  <2>1. CASE i = None
    BY <2>1, SameTraffic DEF IoRespond, ToInviter, ToInvitee
  <2>2. CASE i # None
    <3>1. SendTo(i, n, m)
      BY <2>2 DEF IoRespond
    <3>2. i \in Inv /\ CanUse(n, i)
      BY <1>2, <2>2 DEF CanUse, InPeers, TypeOK, NodeTypeOK
    <3> HIDE DEF m
    <3> QED
      BY <1>3, <3>1, <3>2, SendOneTraffic
  <2> QED
    BY <2>1, <2>2
<1>5. Outside
  <2>1. /\ UNCHANGED <<remote, accepted, inviterChan, peers, pendingInv>>
        /\ io' = [io EXCEPT ![n] = Idle] \/ io' = io
        /\ crashed' = [crashed EXCEPT ![n] = "null_channel"] \/ crashed' = crashed
    BY DEF IoRespond, GoIo, Die
  <2> QED
    BY <1>1, <2>1 DEF Outside, Idle, TypeOK, NodeTypeOK
<1> QED
  BY <1>4, <1>5, OutsideStep DEF IoRespond, HandshakeInv

LEMMA HsRequestPortMerge ==
    ASSUME TypeOK, HandshakeInv, NEW i \in Inv, NEW n \in Node, <<i, n>> \in End,
           HandleRequestPortMerge(i, n)
    PROVE  HandshakeInv'
<1>1. Receive(i, n, "RequestPortMerge") /\ Pop(i, n)
  BY DEF HandleRequestPortMerge
<1>2. \A j \in Inv : Traffic(j)
  BY <1>1, PopTraffic DEF Receive, Later
<1>3. Outside
  <2>1. /\ UNCHANGED <<remote, accepted, inviterChan, peers, pendingInv, crashed>>
        /\ \A k \in Node \ {n} : io'[k] = io[k]
        /\ io'[n] = io[n] \/ io'[n].step \notin {"accept", "add_peer"}
    BY DEF HandleRequestPortMerge, GoIo, TypeOK, NodeTypeOK
  <2>2. io[n] = Idle
    BY <1>1 DEF Receive
  <2> QED
    BY <2>1, <2>2 DEF Outside, Idle, TypeOK, NodeTypeOK
<1> QED
  BY <1>2, <1>3, OutsideStep DEF HandleRequestPortMerge, HandshakeInv

LEMMA HsResponsePortMerge ==
    ASSUME TypeOK, HandshakeInv, NEW i \in Inv, NEW n \in Node, <<i, n>> \in End,
           HandleResponsePortMerge(i, n)
    PROVE  HandshakeInv'
<1>1. Receive(i, n, "ResponsePortMerge") /\ Pop(i, n)
  BY DEF HandleResponsePortMerge
<1>2. \A j \in Inv : Traffic(j)
  BY <1>1, PopTraffic DEF Receive, Later
<1>3. Outside
  <2>1. /\ UNCHANGED <<remote, accepted, inviterChan, peers, pendingInv>>
        /\ \A k \in Node \ {n} : io'[k] = io[k]
        /\ io'[n] = io[n] \/ io'[n].step \notin {"accept", "add_peer"}
    BY DEF HandleResponsePortMerge, GoIo, Idle, TypeOK, NodeTypeOK
  <2>2. io[n] = Idle /\ crashed[n] = "no"
    BY <1>1 DEF Receive
  <2>3. \A k \in Node : crashed'[k] = "no" => crashed[k] = "no"
    BY <2>2 DEF HandleResponsePortMerge, Die, TypeOK, NodeTypeOK
  <2> QED
    BY <2>1, <2>2, <2>3 DEF Outside, Idle, TypeOK, NodeTypeOK
<1> QED
  BY <1>2, <1>3, OutsideStep DEF HandleResponsePortMerge, HandshakeInv

LEMMA HsUserMessage ==
    ASSUME TypeOK, HandshakeInv, NEW i \in Inv, NEW n \in Node, <<i, n>> \in End,
           HandleUserMessage(i, n)
    PROVE  HandshakeInv'
<1>1. Receive(i, n, "UserMessage") /\ Pop(i, n)
  BY DEF HandleUserMessage
<1>2. \A j \in Inv : Traffic(j)
  BY <1>1, PopTraffic DEF Receive, Later
<1>3. Outside
  <2>1. UNCHANGED <<remote, accepted, inviterChan, peers, pendingInv, io>>
    BY DEF HandleUserMessage
  <2>2. \A k \in Node : crashed'[k] = "no" => crashed[k] = "no"
    BY <1>1 DEF HandleUserMessage, Receive, Die, TypeOK, NodeTypeOK
  <2> QED
    BY <2>1, <2>2 DEF Outside
<1> QED
  BY <1>2, <1>3, OutsideStep DEF HandleUserMessage, HandshakeInv

\* Calls that touch neither channels nor what the handshake reads.
LEMMA HsQuiet ==
    ASSUME TypeOK, HandshakeInv,
           UNCHANGED <<chan, remote, accepted, inviterChan, peers, pendingPeerMsgs,
                       pendingInv, io, crashed>>,
           \A n \in Node : app'[n] # app[n] /\ app'[n].step = "request" =>
               InPeers(n, app'[n].channel)
    PROVE  HandshakeInv'
<1>1. \A i \in Inv : Traffic(i)
  BY SameTraffic DEF ToInviter, ToInvitee
<1>2. Outside
  BY DEF Outside
<1> QED
  BY <1>1, <1>2, OutsideStep DEF HandshakeInv

LEMMA HsExtract ==
    ASSUME TypeOK, HandshakeInv, NEW c \in Call, NEW i \in Inv, NEW name \in Name,
           Extract(c, i, name)
    PROVE  HandshakeInv'
<1> DEFINE n == callNode[c]
<1>1. MergePortIntoInviter(n, name, Port0(c)) /\ n \in Node
  BY PortFacts DEF Extract
<1>2. \A k \in Node : app'[k] # app[k] /\ app'[k].step = "request" =>
          InPeers(k, app'[k].channel)
  <2>1. CASE GetInviterChannel(n) = None
    BY <1>1, <2>1 DEF MergePortIntoInviter
  <2>2. CASE GetInviterChannel(n) # None
    <3>1. InPeers(n, GetInviterChannel(n))
      BY <1>1, <2>2, InviterInPeers
    <3>2. GoApp(n, [step |-> "request", channel |-> GetInviterChannel(n), name |-> name,
                    port |-> Port0(c)])
      BY <1>1, <2>2 DEF MergePortIntoInviter
    <3> QED
      BY <1>1, <3>1, <3>2 DEF GoApp, TypeOK, NodeTypeOK
  <2> QED
    BY <2>1, <2>2
<1> QED
  BY <1>2, HsQuiet DEF Extract

LEMMA HsSendRequest ==
    ASSUME TypeOK, HandshakeInv, NEW n \in Node, SendRequest(n)
    PROVE  HandshakeInv'
<1> DEFINE m == RequestPortMerge(app[n].name, app[n].port)
<1>1. app[n].step = "request"
  BY DEF SendRequest, AppAt
<1>2. app[n].channel \in Inv /\ app[n].name \in Name /\ app[n].port \in Port
  BY <1>1 DEF AppState, TypeOK, NodeTypeOK
<1>3. m \in Message /\ m.type \in Later
  BY <1>2 DEF RequestPortMerge, Message, Later
<1>4. \A j \in Inv : Traffic(j)
  <2>1. SendTo(app[n].channel, n, m) /\ CanUse(n, app[n].channel)
    BY <1>1 DEF SendRequest, CanUse
  <2> QED
    BY <1>2, <1>3, <2>1, SendOneTraffic
<1>5. Outside
  BY DEF Outside, SendRequest
<1>6. \A k \in Node : app'[k] # app[k] => app'[k].step # "request"
  BY DEF SendRequest, GoApp, Idle, TypeOK, NodeTypeOK
<1> QED
  BY <1>4, <1>5, <1>6, OutsideStep DEF SendRequest, HandshakeInv

LEMMA HsForward ==
    ASSUME TypeOK, HandshakeInv, NEW n \in Node, WriteForward(n)
    PROVE  HandshakeInv'
<1> DEFINE w    == app[n]
           node == peerNode[w.from]
           m    == [type |-> "UserMessage", from |-> w.from, to |-> w.to, data |-> w.data]
           i    == peers[<<n, node>>]
<1>1. w.from \in Port /\ w.to \in PortName /\ w.data \in Msg
  BY DEF WriteForward, AppAt, AppState, TypeOK, NodeTypeOK
<1>2. m \in Message /\ m.type \in Later /\ node \in NodeName
  BY <1>1 DEF Message, Later, TypeOK, PortsTypeOK
<1>3. ForwardEvent(n, node, m) /\ GoApp(n, Idle)
  BY DEF WriteForward
<1>4. i \in Inv \cup {None}
  BY <1>2 DEF TypeOK, NodeTypeOK
<1>5. /\ \A j \in Inv : Traffic(j)
      /\ \A e \in Node \X NodeName : LaterOnly(pendingPeerMsgs'[e])
  <2> HIDE DEF m, node
  <2>1. CASE node = n
    BY <1>3, <2>1, SameTraffic DEF ForwardEvent, ToInviter, ToInvitee, HandshakeInv
  <2>2. CASE node # n /\ i # None
    <3>1. SendTo(i, n, m) /\ UNCHANGED pendingPeerMsgs
      BY <1>3, <2>2 DEF ForwardEvent
    <3>2. i \in Inv /\ CanUse(n, i)
      BY <1>2, <1>4, <2>2 DEF CanUse, InPeers
    <3>3. \A j \in Inv : Traffic(j)
      BY <1>2, <3>1, <3>2, SendOneTraffic
    <3> QED
      BY <3>1, <3>3 DEF HandshakeInv
  <2>3. CASE node # n /\ i = None
    <3>1. /\ pendingPeerMsgs' = [pendingPeerMsgs EXCEPT ![<<n, node>>] = Append(@, m)]
          /\ UNCHANGED chan
      BY <1>3, <2>3 DEF ForwardEvent
    <3>2. pendingPeerMsgs[<<n, node>>] \in Seq(Message) /\ LaterOnly(pendingPeerMsgs[<<n, node>>])
      BY <1>2 DEF TypeOK, NodeTypeOK, HandshakeInv
    <3>3. LaterOnly(Append(pendingPeerMsgs[<<n, node>>], m))
      BY <1>2, <3>2, LaterOne, LaterConcat, AppendIsConcat
    <3>4. \A e \in Node \X NodeName : LaterOnly(pendingPeerMsgs'[e])
      BY <1>2, <3>1, <3>3 DEF TypeOK, NodeTypeOK, HandshakeInv
    <3> QED
      BY <3>1, <3>4, SameTraffic DEF ToInviter, ToInvitee
  <2> QED
    BY <2>1, <2>2, <2>3
<1>6. Outside
  BY DEF Outside, WriteForward
<1>7. \A k \in Node : app'[k] # app[k] => app'[k].step # "request"
  BY <1>3 DEF GoApp, Idle, TypeOK, NodeTypeOK
<1> QED
  BY <1>5, <1>6, <1>7, OutsideStep

-----------------------------------------------------------------------------
(* The steps of the handshake itself.                                        *)

\* A step of the handshake of i keeps the phases of the others, and an IO thread in the
\* middle of another offer keeps its part.
LEMMA OtherHandshakes ==
    ASSUME NEW i \in Inv, NEW j \in Inv, j # i,
           ToInviter(j)' = ToInviter(j), ToInvitee(j)' = ToInvitee(j),
           remote'[<<j, inviterOf[j]>>] = remote[<<j, inviterOf[j]>>],
           j \in pendingInv => j \in pendingInv',
           \A n \in Node : CanUse(n, j)' => CanUse(n, j),
           Answering(j) => AboutToAnswer(j)'
    PROVE  /\ Unsent(j) => Unsent(j)'
           /\ Offered(j) => Offered(j)'
           /\ Answering(j) => Answering(j)'
           /\ Answered(j) => Answered(j)'
           /\ Done(j) => Done(j)'
BY SameTraffic, SamePhase

LEMMA HsSendInvitation ==
    ASSUME TypeOK, HandshakeInv, NEW i \in Inv, CoreSendInvitation(i)
    PROVE  HandshakeInv'
<1> DEFINE n == inviterOf[i]
           b == inviteeOf[i]
<1>1. /\ remote[<<i, n>>] = None
      /\ pendingInv' = pendingInv \cup {i}
      /\ remote' = [remote EXCEPT ![<<i, n>>] = i]
      /\ chan' = [chan EXCEPT ![<<i, b>>] = Append(@, Offer(i))]
      /\ UNCHANGED <<accepted, inviterChan, peers, pendingPeerMsgs, io, app, crashed>>
  BY InvFacts DEF CoreSendInvitation, SendInvitation, SendTo, Offer
<1>2. /\ chan \in [Inv \X Node -> Seq(Message)] /\ remote \in [Inv \X Node -> NodeName]
      /\ n \in Node /\ b \in Node /\ n # b
  BY InvFacts DEF TypeOK, NodeTypeOK
<1>3. Unsent(i)
  BY <1>1, InvFacts DEF HandshakeInv, Phase, Offered, Answering, Answered, Done, Pending
<1>4. \A m \in Node, j \in Inv : InPeers(m, j)' = InPeers(m, j) /\ CanUse(m, j)' = CanUse(m, j)
  BY <1>1 DEF InPeers, CanUse
<1>5. Offered(i)'
  <2>1. remote'[<<i, n>>] = i /\ i \in pendingInv'
    BY <1>1, <1>2
  <2>2. Unused(i)'
    BY <1>3, <1>4 DEF Unsent, Unused
  <2>3. Append(<<>>, Offer(i)) = <<Offer(i)>>
    OBVIOUS
  <2>4. ToInvitee(i)' = <<Offer(i)>> /\ ToInviter(i)' = <<>>
    BY <1>1, <1>2, <1>3, <2>3 DEF Unsent, ToInviter, ToInvitee
  <2> QED
    BY <2>1, <2>2, <2>4 DEF Offered, Pending, Offer
<1>6. ASSUME NEW j \in Inv, j # i
      PROVE  /\ Unsent(j) => Unsent(j)'
             /\ Offered(j) => Offered(j)'
             /\ Answering(j) => Answering(j)'
             /\ Answered(j) => Answered(j)'
             /\ Done(j) => Done(j)'
  <2>1. ToInviter(j)' = ToInviter(j) /\ ToInvitee(j)' = ToInvitee(j)
    BY <1>1, <1>2, <1>6, InvFacts DEF ToInviter, ToInvitee
  <2>2. /\ remote'[<<j, inviterOf[j]>>] = remote[<<j, inviterOf[j]>>]
        /\ j \in pendingInv => j \in pendingInv'
    BY <1>1, <1>2, <1>6, InvFacts
  <2>3. Answering(j) => AboutToAnswer(j)'
    BY <1>1 DEF Answering, AboutToAnswer
  <2> QED
    BY <1>4, <1>6, <2>1, <2>2, <2>3, OtherHandshakes
<1>7. ASSUME NEW j \in Inv
      PROVE  Phase(j)' /\ EndsOnly(j)' /\ AcceptedAlive(j)'
  <2>1. Phase(j)'
    BY <1>5, <1>6 DEF HandshakeInv, Phase
  <2>2. EndsOnly(j)' /\ AcceptedAlive(j)'
    BY <1>1, <1>4, InvFacts DEF HandshakeInv, EndsOnly, AcceptedAlive
  <2> QED
    BY <2>1, <2>2
<1>8. ASSUME NEW m \in Node
      PROVE  HandlesOffer(m)'
  <2> SUFFICES ASSUME io[m].step \in {"accept", "add_peer"}
               PROVE  HandlesOffer(m)'
    BY <1>1 DEF HandlesOffer
  <2>1. PICK j \in Inv : j = io[m].token
    BY DEF TypeOK, NodeTypeOK, IoState
  <2>2. /\ inviteeOf[j] = m /\ inviterOf[j] = io[m].inviter
        /\ ~ InPeers(m, j)
        /\ crashed[m] = "no" => inviterChan[m] = j
        /\ io[m].step = "accept" => Answering(j)
        /\ io[m].step # "accept" => Answered(j) \/ Done(j)
    BY <2>1 DEF HandshakeInv, HandlesOffer
  <2>3. j # i
    BY <1>3, <2>2, Exclusive
  <2>4. /\ Answering(j) => Answering(j)'
        /\ Answered(j) \/ Done(j) => Answered(j)' \/ Done(j)'
    BY <1>6, <2>1, <2>3
  <2> QED
    BY <1>1, <1>4, <2>1, <2>2, <2>4 DEF HandlesOffer
<1>9. \A e \in Node \X NodeName : LaterOnly(pendingPeerMsgs[e])'
  BY <1>1 DEF HandshakeInv, LaterOnly
<1> QED
  BY <1>7, <1>8, <1>9 DEF HandshakeInv

LEMMA HsAcceptInvitation ==
    ASSUME TypeOK, HandshakeInv, NEW i \in Inv, CoreAcceptInvitation(i)
    PROVE  HandshakeInv'
<1> DEFINE n   == inviteeOf[i]
           old == inviterChan[n]
<1>1. /\ crashed[n] = "no" /\ n \in Node
      /\ accepted' = accepted \cup {i}
      /\ inviterChan' = [inviterChan EXCEPT ![n] = i]
      /\ DieIf(n, old # None /\ ~ InPeers(n, old), "channel_destroyed")
      /\ UNCHANGED <<chan, remote, peers, pendingPeerMsgs, pendingInv, io, app>>
  BY InvFacts DEF CoreAcceptInvitation, AcceptInvitation, AppReady, AppAt
<1>2. /\ inviterChan \in [Node -> Inv \cup {None}]
      /\ crashed \in [Node -> CrashCause \cup {"no"}]
      /\ inviterChan'[n] = i
      /\ \A m \in Node \ {n} : inviterChan'[m] = inviterChan[m] /\ crashed'[m] = crashed[m]
      /\ crashed'[n] = "no" => old = None \/ InPeers(n, old)
  BY <1>1 DEF DieIf, Die, TypeOK, NodeTypeOK
<1>3. \A m \in Node, j \in Inv : InPeers(m, j)' = InPeers(m, j) /\ CanUse(m, j)' = CanUse(m, j)
  BY <1>1 DEF InPeers, CanUse
<1>4. ASSUME NEW j \in Inv
      PROVE  /\ Unsent(j) => Unsent(j)'
             /\ Offered(j) => Offered(j)'
             /\ Answering(j) => Answering(j)'
             /\ Answered(j) => Answered(j)'
             /\ Done(j) => Done(j)'
  <2>1. ToInviter(j)' = ToInviter(j) /\ ToInvitee(j)' = ToInvitee(j)
    BY <1>1 DEF ToInviter, ToInvitee
  <2>2. Answering(j) => AboutToAnswer(j)'
    BY <1>1 DEF Answering, AboutToAnswer
  <2>3. /\ remote'[<<j, inviterOf[j]>>] = remote[<<j, inviterOf[j]>>]
        /\ j \in pendingInv => j \in pendingInv'
    BY <1>1
  <2> QED
    BY <1>3, <2>1, <2>2, <2>3, SameTraffic, SamePhase
<1>5. ASSUME NEW j \in Inv
      PROVE  Phase(j)' /\ EndsOnly(j)' /\ AcceptedAlive(j)'
  <2>1. Phase(j)'
    BY <1>4 DEF HandshakeInv, Phase
  <2>2. EndsOnly(j)'
    BY <1>3 DEF HandshakeInv, EndsOnly
  <2>3. AcceptedAlive(j)'
    <3>1. AcceptedAlive(j)
      BY DEF HandshakeInv
    <3>2. CASE inviteeOf[j] # n
      BY <1>1, <1>2, <1>3, <3>1, <3>2, InvFacts DEF AcceptedAlive
    <3>3. CASE j = i
      BY <1>2, <3>3 DEF AcceptedAlive
    <3>4. CASE inviteeOf[j] = n /\ j # i
      BY <1>1, <1>2, <1>3, <3>1, <3>4, InvFacts DEF AcceptedAlive
    <3> QED
      BY <3>2, <3>3, <3>4
  <2> QED
    BY <2>1, <2>2, <2>3
<1>6. ASSUME NEW m \in Node
      PROVE  HandlesOffer(m)'
  <2> SUFFICES ASSUME io[m].step \in {"accept", "add_peer"}
               PROVE  HandlesOffer(m)'
    BY <1>1 DEF HandlesOffer
  <2>1. PICK j \in Inv : j = io[m].token
    BY DEF TypeOK, NodeTypeOK, IoState
  <2>2. /\ inviteeOf[j] = m /\ inviterOf[j] = io[m].inviter
        /\ ~ InPeers(m, j)
        /\ crashed[m] = "no" => inviterChan[m] = j
        /\ io[m].step = "accept" => Answering(j)
        /\ io[m].step # "accept" => Answered(j) \/ Done(j)
    BY <2>1 DEF HandshakeInv, HandlesOffer
  <2>3. crashed'[m] = "no" => inviterChan'[m] = j
    BY <1>1, <1>2, <2>1, <2>2, InvFacts
  <2>4. /\ Answering(j) => Answering(j)'
        /\ Answered(j) \/ Done(j) => Answered(j)' \/ Done(j)'
    BY <1>4, <2>1
  <2> QED
    BY <1>1, <1>3, <2>1, <2>2, <2>3, <2>4 DEF HandlesOffer
<1>7. \A e \in Node \X NodeName : LaterOnly(pendingPeerMsgs[e])'
  BY <1>1 DEF HandshakeInv, LaterOnly
<1> QED
  BY <1>5, <1>6, <1>7 DEF HandshakeInv

\* The IO thread of m goes on with its offer when the step is not one of its own.
LEMMA OfferKept ==
    ASSUME TypeOK, HandshakeInv, NEW m \in Node, io'[m] = io[m],
           crashed'[m] = "no" => crashed[m] = "no" /\ inviterChan'[m] = inviterChan[m],
           \A j \in Inv : /\ InPeers(m, j)' /\ inviteeOf[j] = m => InPeers(m, j)
                          /\ Answering(j) /\ inviteeOf[j] = m => Answering(j)'
                          /\ Answered(j) \/ Done(j) => Answered(j)' \/ Done(j)'
    PROVE  HandlesOffer(m)'
<1> SUFFICES ASSUME io[m].step \in {"accept", "add_peer"}
             PROVE  HandlesOffer(m)'
  BY DEF HandlesOffer
<1>1. PICK j \in Inv : j = io[m].token
  BY DEF TypeOK, NodeTypeOK, IoState
<1>2. /\ inviteeOf[j] = m /\ inviterOf[j] = io[m].inviter
      /\ ~ InPeers(m, j)
      /\ crashed[m] = "no" => inviterChan[m] = j
      /\ io[m].step = "accept" => Answering(j)
      /\ io[m].step # "accept" => Answered(j) \/ Done(j)
  BY <1>1 DEF HandshakeInv, HandlesOffer
<1>3. /\ ~ InPeers(m, j)'
      /\ Answering(j) => Answering(j)'
      /\ Answered(j) \/ Done(j) => Answered(j)' \/ Done(j)'
  BY <1>2
<1> QED
  BY <1>1, <1>2, <1>3 DEF HandlesOffer

LEMMA HsAcceptInvitee ==
    ASSUME TypeOK, HandshakeInv, NEW i \in Inv, NEW n \in Node, <<i, n>> \in End,
           HandleAcceptInvitee(i, n)
    PROVE  HandshakeInv'
<1>1. /\ crashed[n] = "no" /\ io[n] = Idle /\ chan[<<i, n>>] # <<>>
      /\ n = inviteeOf[i] => i \in accepted
      /\ Head(chan[<<i, n>>]).type = "AcceptInvitee"
      /\ chan' = [chan EXCEPT ![<<i, n>>] = Tail(@)]
  BY DEF HandleAcceptInvitee, Receive, Pop, Popped
<1>2. n = inviteeOf[i] /\ Offered(i)
  <2>1. "AcceptInvitee" \notin Later
    BY DEF Later
  <2>2. ~ (n = inviterOf[i] /\ Answered(i))
    BY <1>1 DEF Answered, Answer, ToInviter
  <2> QED
    BY <1>1, <2>1, <2>2, HeadTraffic
<1>3. Head(chan[<<i, n>>]) = Offer(i) /\ Tail(chan[<<i, n>>]) = <<>>
  BY <1>2, OfferedHead DEF ToInvitee
<1>4. /\ io'[n] = [step |-> "accept", inviter |-> inviterOf[i], token |-> i]
      /\ \A m \in Node \ {n} : io'[m] = io[m]
      /\ UNCHANGED <<remote, accepted, inviterChan, peers, pendingPeerMsgs, pendingInv, app,
                     crashed>>
  BY <1>3 DEF HandleAcceptInvitee, GoIo, Offer, TypeOK, NodeTypeOK
<1>5. \A m \in Node, j \in Inv : InPeers(m, j)' = InPeers(m, j) /\ CanUse(m, j)' = CanUse(m, j)
  BY <1>4 DEF InPeers, CanUse
<1>6. chan \in [Inv \X Node -> Seq(Message)]
  BY DEF TypeOK, NodeTypeOK
<1>7. Answering(i)'
  <2>1. ToInvitee(i)' = <<>> /\ ToInviter(i)' = <<>>
    BY <1>1, <1>2, <1>3, <1>6, InvFacts DEF Offered, ToInvitee, ToInviter
  <2>2. AboutToAnswer(i)'
    BY <1>2, <1>4 DEF AboutToAnswer
  <2>3. Pending(i)' /\ Unused(i)'
    BY <1>2, <1>4, <1>5 DEF Offered, Pending, Unused
  <2> QED
    BY <2>1, <2>2, <2>3 DEF Answering
<1>8. ASSUME NEW j \in Inv, j # i
      PROVE  /\ Unsent(j) => Unsent(j)'
             /\ Offered(j) => Offered(j)'
             /\ Answering(j) => Answering(j)'
             /\ Answered(j) => Answered(j)'
             /\ Done(j) => Done(j)'
  <2>1. ToInviter(j)' = ToInviter(j) /\ ToInvitee(j)' = ToInvitee(j)
    BY <1>1, <1>6, <1>8, InvFacts DEF ToInviter, ToInvitee
  <2>2. Answering(j) => AboutToAnswer(j)'
    BY <1>1, <1>4, InvFacts DEF Answering, AboutToAnswer, Idle
  <2>3. /\ remote'[<<j, inviterOf[j]>>] = remote[<<j, inviterOf[j]>>]
        /\ j \in pendingInv => j \in pendingInv'
    BY <1>4
  <2> QED
    BY <1>5, <1>8, <2>1, <2>2, <2>3, OtherHandshakes
<1>9. ASSUME NEW j \in Inv
      PROVE  Phase(j)' /\ EndsOnly(j)' /\ AcceptedAlive(j)'
  <2>1. Phase(j)'
    BY <1>7, <1>8 DEF HandshakeInv, Phase
  <2>2. EndsOnly(j)' /\ AcceptedAlive(j)'
    BY <1>4, <1>5, InvFacts DEF HandshakeInv, EndsOnly, AcceptedAlive
  <2> QED
    BY <2>1, <2>2
<1>10. ASSUME NEW m \in Node
       PROVE  HandlesOffer(m)'
  <2>1. CASE m = n
    <3>1. ~ InPeers(n, i) /\ inviterChan[n] = i
      BY <1>1, <1>2 DEF HandshakeInv, AcceptedAlive, Offered, Unused, CanUse
    <3> QED
      BY <1>2, <1>4, <1>5, <1>7, <2>1, <3>1 DEF HandlesOffer
  <2>2. CASE m # n
    <3>1. \A j \in Inv : /\ Answering(j) => Answering(j)'
                         /\ Answered(j) \/ Done(j) => Answered(j)' \/ Done(j)'
      BY <1>2, <1>7, <1>8, Exclusive
    <3> QED
      BY <1>4, <1>5, <2>2, <3>1, OfferKept
  <2> QED
    BY <2>1, <2>2
<1>11. \A e \in Node \X NodeName : LaterOnly(pendingPeerMsgs[e])'
  BY <1>4 DEF HandshakeInv, LaterOnly
<1> QED
  BY <1>9, <1>10, <1>11 DEF HandshakeInv

LEMMA HsSendAccept ==
    ASSUME TypeOK, HandshakeInv, NEW n \in Node, IoSendAccept(n)
    PROVE  HandshakeInv'
<1>1. PICK i \in Inv : i = io[n].token
  BY DEF IoSendAccept, IoAt, TypeOK, NodeTypeOK, IoState
<1>2. /\ crashed[n] = "no" /\ io[n].step = "accept"
      /\ inviteeOf[i] = n /\ inviterOf[i] = io[n].inviter
      /\ ~ InPeers(n, i) /\ inviterChan[n] = i /\ Answering(i)
  BY <1>1 DEF IoSendAccept, IoAt, HandshakeInv, HandlesOffer
<1>3. /\ chan \in [Inv \X Node -> Seq(Message)] /\ remote \in [Inv \X Node -> NodeName]
      /\ inviterOf[i] # n /\ inviterOf[i] \in Node
  BY <1>2, InvFacts DEF TypeOK, NodeTypeOK
<1>4. /\ remote' = [remote EXCEPT ![<<i, n>>] = inviterOf[i]]
      /\ chan' = [chan EXCEPT ![<<i, inviterOf[i]>>] = Append(@, Answer(i))]
      /\ io'[n] = [step |-> "add_peer", inviter |-> inviterOf[i], token |-> i]
      /\ \A m \in Node \ {n} : io'[m] = io[m]
      /\ UNCHANGED <<accepted, inviterChan, peers, pendingPeerMsgs, pendingInv, app, crashed>>
  BY <1>1, <1>2, InvFacts DEF IoSendAccept, SendTo, GoIo, Answer, TypeOK, NodeTypeOK
<1>5. \A m \in Node, j \in Inv : InPeers(m, j)' = InPeers(m, j) /\ CanUse(m, j)' = CanUse(m, j)
  BY <1>4 DEF InPeers, CanUse
<1>6. Answered(i)'
  <2>1. Append(<<>>, Answer(i)) = <<Answer(i)>> /\ Tail(<<Answer(i)>>) = <<>>
    OBVIOUS
  <2>2. ToInviter(i)' = <<Answer(i)>> /\ ToInvitee(i)' = <<>>
    BY <1>2, <1>3, <1>4, <2>1, InvFacts DEF Answering, ToInviter, ToInvitee
  <2>3. Pending(i)' /\ ~ CanUse(inviterOf[i], i)'
    BY <1>2, <1>3, <1>4, <1>5 DEF Answering, Pending, Unused
  <2> QED
    BY <2>1, <2>2, <2>3, LaterNothing DEF Answered, Answer, LaterOnly
<1>7. ASSUME NEW j \in Inv, j # i
      PROVE  /\ Unsent(j) => Unsent(j)'
             /\ Offered(j) => Offered(j)'
             /\ Answering(j) => Answering(j)'
             /\ Answered(j) => Answered(j)'
             /\ Done(j) => Done(j)'
  <2>1. ToInviter(j)' = ToInviter(j) /\ ToInvitee(j)' = ToInvitee(j)
    BY <1>3, <1>4, <1>7, InvFacts DEF ToInviter, ToInvitee
  <2>2. Answering(j) => AboutToAnswer(j)'
    BY <1>1, <1>4, <1>7, InvFacts DEF Answering, AboutToAnswer
  <2>3. /\ remote'[<<j, inviterOf[j]>>] = remote[<<j, inviterOf[j]>>]
        /\ j \in pendingInv => j \in pendingInv'
    BY <1>3, <1>4, <1>7, InvFacts
  <2> QED
    BY <1>5, <1>7, <2>1, <2>2, <2>3, OtherHandshakes
<1>8. ASSUME NEW j \in Inv
      PROVE  Phase(j)' /\ EndsOnly(j)' /\ AcceptedAlive(j)'
  <2>1. Phase(j)'
    BY <1>6, <1>7 DEF HandshakeInv, Phase
  <2>2. EndsOnly(j)' /\ AcceptedAlive(j)'
    BY <1>4, <1>5, InvFacts DEF HandshakeInv, EndsOnly, AcceptedAlive
  <2> QED
    BY <2>1, <2>2
<1>9. ASSUME NEW m \in Node
      PROVE  HandlesOffer(m)'
  <2>1. CASE m = n
    BY <1>2, <1>4, <1>5, <1>6, <2>1 DEF HandlesOffer
  <2>2. CASE m # n
    <3>1. \A j \in Inv : /\ Answering(j) /\ inviteeOf[j] = m => Answering(j)'
                         /\ Answered(j) \/ Done(j) => Answered(j)' \/ Done(j)'
      BY <1>2, <1>6, <1>7, <2>2
    <3> QED
      BY <1>4, <1>5, <2>2, <3>1, OfferKept
  <2> QED
    BY <2>1, <2>2
<1>10. \A e \in Node \X NodeName : LaterOnly(pendingPeerMsgs[e])'
  BY <1>4 DEF HandshakeInv, LaterOnly
<1> QED
  BY <1>8, <1>9, <1>10 DEF HandshakeInv

\* AddPeer makes at most one channel usable, and what it sends are later messages.
LEMMA PeerAdded ==
    ASSUME TypeOK, HandshakeInv, NEW n \in Node, NEW node \in NodeName, NEW i \in Inv,
           AddPeer(n, node, i)
    PROVE  /\ \A m \in Node, j \in Inv :
                /\ InPeers(m, j) => InPeers(m, j)'
                /\ InPeers(m, j)' => InPeers(m, j) \/ (m = n /\ j = i)
           /\ \A e \in Node \X NodeName : LaterOnly(pendingPeerMsgs'[e])
           /\ AddPeerFlush(n, node) \in Seq(Message) /\ LaterOnly(AddPeerFlush(n, node))
<1>1. /\ peers \in [Node \X NodeName -> Inv \cup {None}]
      /\ pendingPeerMsgs \in [Node \X NodeName -> Seq(Message)]
      /\ None \notin Inv
  BY PortsAssumption DEF TypeOK, NodeTypeOK
<1>2. \A m \in Node, k \in NodeName :
         \/ peers'[<<m, k>>] = peers[<<m, k>>]
         \/ m = n /\ peers[<<m, k>>] = None /\ peers'[<<m, k>>] = i
  BY <1>1 DEF AddPeer
<1>3. \A m \in Node, j \in Inv :
         /\ InPeers(m, j) => InPeers(m, j)'
         /\ InPeers(m, j)' => InPeers(m, j) \/ (m = n /\ j = i)
  BY <1>1, <1>2 DEF InPeers
<1>4. \A e \in Node \X NodeName :
         pendingPeerMsgs'[e] = pendingPeerMsgs[e] \/ pendingPeerMsgs'[e] = <<>>
  BY <1>1 DEF AddPeer
<1>5. \A e \in Node \X NodeName : LaterOnly(pendingPeerMsgs'[e])
  BY <1>4, LaterNothing DEF HandshakeInv
<1>6. AddPeerFlush(n, node) \in Seq(Message) /\ LaterOnly(AddPeerFlush(n, node))
  BY <1>1, LaterNothing DEF AddPeerFlush, HandshakeInv
<1> QED
  BY <1>3, <1>5, <1>6

LEMMA HsAddPeer ==
    ASSUME TypeOK, HandshakeInv, NEW n \in Node, IoAddPeer(n)
    PROVE  HandshakeInv'
<1>1. PICK i \in Inv : i = io[n].token
  BY DEF IoAddPeer, IoAt, TypeOK, NodeTypeOK, IoState
<1> DEFINE flush == AddPeerFlush(n, inviterOf[i])
<1>2. /\ crashed[n] = "no" /\ io[n].step = "add_peer"
      /\ inviteeOf[i] = n /\ inviterOf[i] = io[n].inviter
      /\ inviterChan[n] = i /\ (Answered(i) \/ Done(i))
  BY <1>1 DEF IoAddPeer, IoAt, HandshakeInv, HandlesOffer
<1>3. /\ chan \in [Inv \X Node -> Seq(Message)] /\ remote \in [Inv \X Node -> NodeName]
      /\ inviterOf[i] # n /\ inviterOf[i] \in NodeName
  BY <1>2, InvFacts DEF TypeOK, NodeTypeOK, NodeName
<1>4. /\ remote' = [remote EXCEPT ![<<i, n>>] = inviterOf[i]]
      /\ AddPeer(n, inviterOf[i], i)
      /\ chan' = [chan EXCEPT ![<<i, inviterOf[i]>>] = @ \o flush]
      /\ io'[n].step = "take"
      /\ \A m \in Node \ {n} : io'[m] = io[m]
      /\ UNCHANGED <<accepted, inviterChan, pendingInv, app, crashed>>
  BY <1>1, <1>2, InvFacts DEF IoAddPeer, GoIo, TypeOK, NodeTypeOK
<1>5. /\ \A m \in Node, j \in Inv :
            /\ InPeers(m, j) => InPeers(m, j)'
            /\ InPeers(m, j)' => InPeers(m, j) \/ (m = n /\ j = i)
      /\ \A e \in Node \X NodeName : LaterOnly(pendingPeerMsgs'[e])
      /\ flush \in Seq(Message) /\ LaterOnly(flush)
  BY <1>3, <1>4, PeerAdded
<1> HIDE DEF flush
<1>6. \A m \in Node, j \in Inv : CanUse(m, j)' => CanUse(m, j) \/ (m = n /\ j = i)
  BY <1>4, <1>5 DEF CanUse
<1>7. ASSUME NEW j \in Inv
      PROVE  Traffic(j)
  <2>1. CASE j = i
    <3>1. ToInviter(j)' = ToInviter(j) \o flush /\ ToInvitee(j)' = ToInvitee(j)
      BY <1>2, <1>3, <1>4, <2>1, InvFacts DEF ToInviter, ToInvitee
    <3> QED
      BY <1>2, <1>5, <2>1, <3>1, ChanType, Exclusive, LaterBehind, LaterConcat
         DEF Traffic, Answered, Done
  <2>2. CASE j # i
    BY <1>3, <1>4, <2>2, InvFacts, SameTraffic DEF ToInviter, ToInvitee
  <2> QED
    BY <2>1, <2>2
<1>8. ASSUME NEW j \in Inv
      PROVE  /\ Unsent(j) => Unsent(j)'
             /\ Offered(j) => Offered(j)'
             /\ Answering(j) => Answering(j)'
             /\ Answered(j) => Answered(j)'
             /\ Done(j) => Done(j)'
  <2>1. /\ remote'[<<j, inviterOf[j]>>] = remote[<<j, inviterOf[j]>>]
        /\ j \in pendingInv => j \in pendingInv'
    BY <1>2, <1>3, <1>4, InvFacts
  <2>2. Answering(j) => AboutToAnswer(j)'
    BY <1>2, <1>4, InvFacts DEF Answering, AboutToAnswer
  <2>3. \A m \in Node : CanUse(m, j)' =>
            CanUse(m, j) \/ (m = inviteeOf[j] /\ (Answered(j) \/ Done(j)))
    BY <1>2, <1>6
  <2> QED
    BY <1>7, <2>1, <2>2, <2>3, SamePhase
<1>9. ASSUME NEW j \in Inv
      PROVE  Phase(j)' /\ EndsOnly(j)' /\ AcceptedAlive(j)'
  <2>1. Phase(j)'
    BY <1>8 DEF HandshakeInv, Phase
  <2>2. EndsOnly(j)'
    BY <1>2, <1>6 DEF HandshakeInv, EndsOnly
  <2>3. AcceptedAlive(j)'
    BY <1>4, <1>5, InvFacts DEF HandshakeInv, AcceptedAlive
  <2> QED
    BY <2>1, <2>2, <2>3
<1>10. ASSUME NEW m \in Node
       PROVE  HandlesOffer(m)'
  <2>1. CASE m = n
    BY <1>4, <2>1 DEF HandlesOffer
  <2>2. CASE m # n
    BY <1>4, <1>5, <1>8, <2>2, OfferKept
  <2> QED
    BY <2>1, <2>2
<1> QED
  BY <1>5, <1>9, <1>10 DEF HandshakeInv, LaterOnly

\* OnAcceptInvitation finds the answer it waits for, and takes its first branch.
LEMMA InviterAcceptStep ==
    ASSUME TypeOK, HandshakeInv, NEW i \in Inv, NEW n \in Node, <<i, n>> \in End,
           HandleAcceptInvitation(i, n)
    PROVE  /\ n = inviterOf[i] /\ Answered(i) /\ crashed[n] = "no"
           /\ pendingInv' = pendingInv \ {i}
           /\ remote' = [remote EXCEPT ![<<i, n>>] = inviteeOf[i]]
           /\ AddPeer(n, inviteeOf[i], i)
           /\ chan' = [Popped(i, n) EXCEPT
                         ![<<i, inviteeOf[i]>>] = @ \o AddPeerFlush(n, inviteeOf[i])]
           /\ DieIf(n, peers[<<n, inviteeOf[i]>>] # None, "channel_destroyed")
           /\ reserved' = MoveReserved(n, i, inviteeOf[i])
           /\ UNCHANGED <<portVars, accepted, inviterName, inviterChan, pendingMerges, io, app>>
<1> DEFINE b == inviteeOf[i]
<1>1. /\ crashed[n] = "no" /\ chan[<<i, n>>] # <<>>
      /\ Head(chan[<<i, n>>]).type = "AcceptInvitation"
  BY DEF HandleAcceptInvitation, Receive
<1>2. n = inviterOf[i] /\ Answered(i)
  <2>1. "AcceptInvitation" \notin Later
    BY DEF Later
  <2>2. ~ (n = inviteeOf[i] /\ Offered(i))
    <3>1. ASSUME n = inviteeOf[i], Offered(i) PROVE FALSE
      <4>1. Head(ToInvitee(i)) = Offer(i) /\ Offer(i).type = "AcceptInvitee"
        BY <3>1, OfferedHead DEF Offer
      <4> QED
        BY <1>1, <3>1, <4>1 DEF ToInvitee
    <3> QED
      BY <3>1
  <2> QED
    BY <1>1, <2>1, <2>2, HeadTraffic
<1>3. Head(chan[<<i, n>>]) = Answer(i) /\ LaterOnly(Tail(chan[<<i, n>>]))
      /\ remote[<<i, n>>] = i /\ i \in pendingInv /\ ToInvitee(i) = <<>>
  BY <1>2 DEF Answered, Pending, ToInviter
<1> DEFINE m == Head(chan[<<i, n>>])
           from == remote[<<i, n>>]
<1>4. m.token = i /\ m.invitee = b /\ from = i /\ Other(i, n) = b
  BY <1>2, <1>3, InvFacts DEF Answer
<1>5. from \in pendingInv /\ m.token = from
  BY <1>3, <1>4
<1>6. /\ pendingInv' = pendingInv \ {from}
      /\ remote' = [remote EXCEPT ![<<i, n>>] = m.invitee]
      /\ AddPeer(n, m.invitee, i)
      /\ chan' = [Popped(i, n) EXCEPT
                     ![<<i, Other(i, n)>>] = @ \o AddPeerFlush(n, m.invitee)]
      /\ DieIf(n, peers[<<n, m.invitee>>] # None, "channel_destroyed")
      /\ reserved' = MoveReserved(n, from, m.invitee)
      /\ UNCHANGED <<portVars, accepted, inviterName, inviterChan, pendingMerges, io, app>>
  BY <1>5 DEF HandleAcceptInvitation, portVars
<1> HIDE DEF m, from
<1> QED
  BY <1>1, <1>2, <1>4, <1>6

LEMMA HsInviterAccept ==
    ASSUME TypeOK, HandshakeInv, NEW i \in Inv, NEW n \in Node, <<i, n>> \in End,
           HandleAcceptInvitation(i, n)
    PROVE  HandshakeInv'
<1> DEFINE b     == inviteeOf[i]
           flush == AddPeerFlush(n, b)
<1>1. n = inviterOf[i] /\ Answered(i) /\ crashed[n] = "no"
  BY InviterAcceptStep
<1>2. /\ LaterOnly(Tail(chan[<<i, n>>]))
      /\ remote[<<i, n>>] = i /\ i \in pendingInv /\ ToInvitee(i) = <<>>
  BY <1>1 DEF Answered, Pending, ToInviter
<1>3. /\ pendingInv' = pendingInv \ {i}
      /\ remote' = [remote EXCEPT ![<<i, n>>] = b]
      /\ AddPeer(n, b, i)
      /\ chan' = [Popped(i, n) EXCEPT ![<<i, b>>] = @ \o flush]
      /\ DieIf(n, peers[<<n, b>>] # None, "channel_destroyed")
      /\ UNCHANGED <<accepted, inviterChan, io, app>>
  BY InviterAcceptStep
<1>4. /\ chan \in [Inv \X Node -> Seq(Message)] /\ remote \in [Inv \X Node -> NodeName]
      /\ n # b /\ b \in Node /\ b \in NodeName
      /\ \A m \in Node : crashed'[m] = "no" => crashed[m] = "no"
  BY <1>1, <1>3, InvFacts DEF TypeOK, NodeTypeOK, NodeName, DieIf, Die
<1>5. /\ \A m \in Node, j \in Inv :
            /\ InPeers(m, j) => InPeers(m, j)'
            /\ InPeers(m, j)' => InPeers(m, j) \/ (m = n /\ j = i)
      /\ \A e \in Node \X NodeName : LaterOnly(pendingPeerMsgs'[e])
      /\ flush \in Seq(Message) /\ LaterOnly(flush)
  BY <1>3, <1>4, PeerAdded
<1> HIDE DEF flush
<1>6. \A m \in Node, j \in Inv : CanUse(m, j)' => CanUse(m, j) \/ (m = n /\ j = i)
  BY <1>3, <1>5 DEF CanUse
<1>7. Done(i)'
  <2>1. remote'[<<i, n>>] = b
    BY <1>3, <1>4
  <2>2. <<>> \o flush = flush
    BY <1>5
  <2>3. ToInviter(i)' = Tail(chan[<<i, n>>]) /\ ToInvitee(i)' = flush
    BY <1>1, <1>2, <1>3, <1>4, <2>2, InvFacts DEF ToInviter, ToInvitee, Popped
  <2> QED
    BY <1>1, <1>2, <1>5, <2>1, <2>3 DEF Done, LaterOnly
<1>8. ASSUME NEW j \in Inv, j # i
      PROVE  /\ Unsent(j) => Unsent(j)'
             /\ Offered(j) => Offered(j)'
             /\ Answering(j) => Answering(j)'
             /\ Answered(j) => Answered(j)'
             /\ Done(j) => Done(j)'
  <2>1. ToInviter(j)' = ToInviter(j) /\ ToInvitee(j)' = ToInvitee(j)
    BY <1>3, <1>4, <1>8, InvFacts DEF ToInviter, ToInvitee, Popped
  <2>2. Answering(j) => AboutToAnswer(j)'
    BY <1>3 DEF Answering, AboutToAnswer
  <2>3. /\ remote'[<<j, inviterOf[j]>>] = remote[<<j, inviterOf[j]>>]
        /\ j \in pendingInv => j \in pendingInv'
    BY <1>3, <1>4, <1>8, InvFacts
  <2>4. \A m \in Node : CanUse(m, j)' => CanUse(m, j)
    BY <1>6, <1>8
  <2> QED
    BY <1>8, <2>1, <2>2, <2>3, <2>4, OtherHandshakes
<1>9. ASSUME NEW j \in Inv
       PROVE  Phase(j)' /\ EndsOnly(j)' /\ AcceptedAlive(j)'
  <2>1. Phase(j)'
    BY <1>7, <1>8 DEF HandshakeInv, Phase
  <2>2. EndsOnly(j)'
    BY <1>1, <1>6 DEF HandshakeInv, EndsOnly
  <2>3. AcceptedAlive(j)'
    BY <1>3, <1>4, <1>5, InvFacts DEF HandshakeInv, AcceptedAlive
  <2> QED
    BY <2>1, <2>2, <2>3
<1>10. ASSUME NEW m \in Node
       PROVE  HandlesOffer(m)'
  <2>1. \A j \in Inv : /\ InPeers(m, j)' /\ inviteeOf[j] = m => InPeers(m, j)
                       /\ Answering(j) => Answering(j)'
                       /\ Answered(j) \/ Done(j) => Answered(j)' \/ Done(j)'
    BY <1>1, <1>5, <1>7, <1>8, InvFacts, Exclusive
  <2> QED
    BY <1>3, <1>4, <2>1, OfferKept
<1> QED
  BY <1>5, <1>9, <1>10 DEF HandshakeInv, LaterOnly

-----------------------------------------------------------------------------
(* The theorems.                                                             *)

LEMMA HsInit == Init => HandshakeInv
<1> SUFFICES ASSUME Init PROVE HandshakeInv
  OBVIOUS
<1>1. \A n \in Node, i \in Inv : ~ InPeers(n, i) /\ ~ CanUse(n, i)
  BY PortsAssumption DEF Init, NodeInit, InPeers, CanUse, Idle
<1>2. \A i \in Inv : Unsent(i)
  BY <1>1, InvFacts DEF Init, NodeInit, Unsent, ToInviter, ToInvitee, Unused
<1>3. \A n \in Node : HandlesOffer(n)
  BY DEF Init, NodeInit, HandlesOffer, Idle
<1>4. \A e \in Node \X NodeName : LaterOnly(pendingPeerMsgs[e])
  BY LaterNothing DEF Init, NodeInit
<1>5. \A i \in Inv : EndsOnly(i) /\ AcceptedAlive(i)
  BY <1>1 DEF Init, NodeInit, EndsOnly, AcceptedAlive
<1> QED
  BY <1>2, <1>3, <1>4, <1>5 DEF HandshakeInv, Phase

LEMMA HsStep == TypeOK /\ HandshakeInv /\ [Next]_vars => HandshakeInv'
<1> SUFFICES ASSUME TypeOK, HandshakeInv, [Next]_vars
             PROVE  HandshakeInv'
  OBVIOUS
<1>1. ASSUME NEW e \in End, Handle(e[1], e[2])
      PROVE  HandshakeInv'
  <2>1. e[1] \in Inv /\ e[2] \in Node /\ <<e[1], e[2]>> \in End
    BY DEF End
  <2> QED
    BY <1>1, <2>1, HsAcceptInvitee, HsInviterAccept, HsRequestPortMerge,
       HsResponsePortMerge, HsUserMessage DEF Handle
<1>2. ASSUME NEW n \in Node, IoContinue(n)
      PROVE  HandshakeInv'
  BY <1>2, HsSendAccept, HsAddPeer, HsTakePending, HsFlush, HsStorePort, HsRespond
     DEF IoContinue
<1>3. ASSUME NEW c \in Call, NEW i \in Inv, NEW name \in Name, Attach(c, i, name)
      PROVE  HandshakeInv'
  BY <1>3, HsQuiet DEF Attach, nodeVars
<1>4. ASSUME NEW i \in Inv, NEW name \in Name, ExtractLocal(i, name)
      PROVE  HandshakeInv'
  BY <1>4, HsQuiet DEF ExtractLocal, nodeVars
<1>5. ASSUME NEW p \in Port, NEW m \in Msg, Write(p, m)
      PROVE  HandshakeInv'
  <2>1. \A n \in Node : app'[n] # app[n] => app'[n].step # "request"
    BY <1>5 DEF Write, GoApp, TypeOK, NodeTypeOK
  <2> QED
    BY <1>5, <2>1, HsQuiet DEF Write
<1>6. ASSUME NEW p \in Port, Read(p)
      PROVE  HandshakeInv'
  BY <1>6, HsQuiet DEF Read, nodeVars
<1>7. CASE UNCHANGED vars
  BY <1>7, HsQuiet DEF vars, nodeVars
<1>8. ASSUME NEW n \in Node, CoreSendRequest(n)
      PROVE  HandshakeInv'
  BY <1>8, HsSendRequest DEF CoreSendRequest
<1>9. ASSUME App PROVE HandshakeInv'
  BY <1>3, <1>4, <1>5, <1>6, <1>8, <1>9, HsSendInvitation, HsAcceptInvitation, HsExtract,
     HsForward DEF App
<1>10. ASSUME Io PROVE HandshakeInv'
  BY <1>1, <1>2, <1>10 DEF Io
<1> QED
  BY <1>7, <1>9, <1>10 DEF Next

\* In every reachable state every handshake is in one of its phases: SendInvitation,
\* OnAcceptInvitee and OnAcceptInvitation follow one another, each exactly once.
THEOREM HandshakeCorrect == Spec => []HandshakeInv
<1>1. Init => HandshakeInv
  BY HsInit
<1>2. TypeOK /\ HandshakeInv /\ [Next]_vars => HandshakeInv'
  BY HsStep
<1> QED
  BY <1>1, <1>2, TypeCorrect, PTL DEF Spec

-----------------------------------------------------------------------------
(* AcceptFirst and NoMergeForgotten.                                         *)

LEMMA AcceptFirstInPhase ==
    ASSUME TypeOK, HandshakeInv
    PROVE  AcceptFirst
<1> SUFFICES ASSUME NEW i \in Inv
             PROVE  LET n == inviterOf[i]
                    IN  /\ remote[<<i, n>>] = i /\ chan[<<i, n>>] # <<>>
                             => Head(chan[<<i, n>>]).type = "AcceptInvitation"
                        /\ \A k \in 1 .. Len(chan[<<i, n>>]) :
                             chan[<<i, n>>][k].type = "AcceptInvitation"
                             => k = 1 /\ remote[<<i, n>>] = i /\ chan[<<i, n>>][k].token = i
  BY DEF AcceptFirst
<1> DEFINE s == ToInviter(i)
<1>1. Phase(i) /\ s \in Seq(Message) /\ "AcceptInvitation" \notin Later
  BY ChanType DEF HandshakeInv, Later
<1>2. CASE Unsent(i) \/ Offered(i) \/ Answering(i)
  <2>1. s = <<>> /\ Len(s) = 0
    BY <1>2, EmptySeq DEF Unsent, Offered, Answering
  <2> QED
    BY <2>1 DEF ToInviter
<1>3. CASE Answered(i)
  <2>1. /\ s # <<>> /\ Head(s) = Answer(i) /\ LaterOnly(Tail(s))
        /\ remote[<<i, inviterOf[i]>>] = i
    BY <1>3 DEF Answered, Pending
  <2>2. /\ Len(s) \in Nat /\ Len(s) # 0 /\ Len(Tail(s)) = Len(s) - 1 /\ Head(s) = s[1]
        /\ \A k \in 1 .. Len(Tail(s)) : Tail(s)[k] = s[k + 1]
    BY <1>1, <2>1, EmptySeq, LenProperties, HeadTailProperties
  <2> HIDE DEF s
  <2>3. ASSUME NEW k \in 1 .. Len(s), k # 1
        PROVE  s[k].type # "AcceptInvitation"
    <3>1. k - 1 \in 1 .. Len(Tail(s)) /\ (k - 1) + 1 = k
      BY <2>2, <2>3
    <3>2. Tail(s)[k - 1] = s[k] /\ Tail(s)[k - 1].type \in Later
      BY <2>1, <2>2, <3>1 DEF LaterOnly
    <3> QED
      BY <1>1, <3>2
  <2>4. s[1].type = "AcceptInvitation" /\ s[1].token = i
    BY <2>1, <2>2 DEF Answer
  <2> QED
    BY <2>1, <2>2, <2>3, <2>4 DEF s, ToInviter
<1>4. CASE Done(i)
  <2>1. remote[<<i, inviterOf[i]>>] # i
    BY <1>4, InvFacts DEF Done
  <2>2. \A k \in 1 .. Len(s) : s[k].type # "AcceptInvitation"
    BY <1>1, <1>4 DEF Done, LaterOnly
  <2> QED
    BY <2>1, <2>2 DEF ToInviter
<1> QED
  BY <1>1, <1>2, <1>3, <1>4 DEF Phase

\* An inviter takes AcceptInvitation as the first message of each channel, once, while it
\* still waits for it: OnAcceptInvitation never drops a peer.
THEOREM AcceptFirstCorrect == Spec => []AcceptFirst
BY HandshakeCorrect, TypeCorrect, AcceptFirstInPhase, PTL

\* What a step leaves alone when it has nothing to do with the waiting merges of n.
MergesKept(n) ==
    /\ inviterName'[n] = inviterName[n]
    /\ crashed'[n] = "no" => crashed[n] = "no"
    /\ \/ io'[n] = io[n]
       \/ {io[n].step, io'[n].step} \cap {"accept", "add_peer", "take"} = {}
    /\ \A k \in NodeName : peers[<<n, k>>] # None => peers'[<<n, k>>] # None
    /\ peers'[<<n, None>>] = peers[<<n, None>>]
    /\ pendingMerges'[n] = pendingMerges[n] \/ GetInviterChannel(n) = None

LEMMA MergesKeptStep ==
    ASSUME TypeOK, MergesInv, NEW n \in Node, MergesKept(n)
    PROVE  MergesTaken(n)' /\ peers'[<<n, None>>] = None
<1>1. MergesTaken(n) /\ peers[<<n, None>>] = None
  BY DEF MergesInv
<1>2. inviterName[n] \in NodeName
  BY DEF TypeOK, NodeTypeOK, NodeName
<1>3. GetInviterChannel(n) # None => GetInviterChannel(n)' # None
  BY <1>2 DEF MergesKept, GetInviterChannel
<1> QED
  BY <1>1, <1>3 DEF MergesKept, MergesTaken

\* A handler or call that only appends requests while there is no inviter, or none at all.
LEMMA MergesQuiet ==
    ASSUME TypeOK, MergesInv, UNCHANGED <<inviterName, peers>>,
           \A n \in Node :
               /\ crashed'[n] = "no" => crashed[n] = "no"
               /\ \/ io'[n] = io[n]
                  \/ {io[n].step, io'[n].step} \cap {"accept", "add_peer", "take"} = {}
               /\ pendingMerges'[n] = pendingMerges[n] \/ GetInviterChannel(n) = None
    PROVE  MergesInv'
<1>1. \A n \in Node : MergesKept(n)
  BY DEF MergesKept
<1> QED
  BY <1>1, MergesKeptStep DEF MergesInv

LEMMA MergesHandle ==
    ASSUME TypeOK, MergesInv, NEW i \in Inv, NEW n \in Node,
           \/ HandleRequestPortMerge(i, n) \/ HandleResponsePortMerge(i, n)
           \/ HandleUserMessage(i, n)
    PROVE  MergesInv'
<1>1. UNCHANGED <<inviterName, peers, pendingMerges>>
  BY DEF HandleRequestPortMerge, HandleResponsePortMerge, HandleUserMessage
<1>2. crashed[n] = "no" /\ io[n].step = "idle"
  BY DEF HandleRequestPortMerge, HandleResponsePortMerge, HandleUserMessage, Receive, Idle
<1>3. \A k \in Node \ {n} : io'[k] = io[k] /\ crashed'[k] = crashed[k]
  BY DEF HandleRequestPortMerge, HandleResponsePortMerge, HandleUserMessage, GoIo, Die,
         TypeOK, NodeTypeOK
<1>4. io'[n].step \notin {"accept", "add_peer", "take"}
  <2>1. io \in [Node -> IoState]
    BY DEF TypeOK, NodeTypeOK
  <2>2. CASE HandleRequestPortMerge(i, n)
    BY <1>2, <2>1, <2>2 DEF HandleRequestPortMerge, GoIo
  <2>3. CASE HandleResponsePortMerge(i, n)
    BY <1>2, <2>1, <2>3 DEF HandleResponsePortMerge, GoIo, Idle
  <2>4. CASE HandleUserMessage(i, n)
    BY <1>2, <2>4 DEF HandleUserMessage
  <2> QED
    BY <2>2, <2>3, <2>4
<1> QED
  BY <1>1, <1>2, <1>3, <1>4, MergesQuiet

LEMMA MergesContinue ==
    ASSUME TypeOK, MergesInv, NEW n \in Node, IoFlush(n) \/ IoStorePort(n) \/ IoRespond(n)
    PROVE  MergesInv'
<1>1. UNCHANGED <<inviterName, peers, pendingMerges>>
  BY DEF IoFlush, IoStorePort, IoRespond
<1>2. crashed[n] = "no" /\ io[n].step \notin {"accept", "add_peer", "take"}
  BY DEF IoFlush, IoStorePort, IoRespond, IoAt
<1>3. \A k \in Node \ {n} : io'[k] = io[k] /\ crashed'[k] = crashed[k]
  BY DEF IoFlush, IoStorePort, IoRespond, GoIo, Die, TypeOK, NodeTypeOK
<1>4. io'[n].step \notin {"accept", "add_peer", "take"}
  <2>1. io \in [Node -> IoState]
    BY DEF TypeOK, NodeTypeOK
  <2>2. CASE IoFlush(n)
    <3>1. Flush(Tail(io[n].merges)).step \notin {"accept", "add_peer", "take"}
      BY DEF Flush, Idle
    <3> QED
      BY <1>2, <2>1, <2>2, <3>1 DEF IoFlush, GoIo
  <2>3. CASE IoStorePort(n)
    BY <1>2, <2>1, <2>3 DEF IoStorePort, GoIo, Idle
  <2>4. CASE IoRespond(n)
    BY <1>2, <2>1, <2>4 DEF IoRespond, GoIo, Idle
  <2> QED
    BY <2>2, <2>3, <2>4
<1> QED
  BY <1>1, <1>2, <1>3, <1>4, MergesQuiet

LEMMA MergesAcceptInvitee ==
    ASSUME TypeOK, HandshakeInv, MergesInv, NEW i \in Inv, NEW n \in Node,
           HandleAcceptInvitee(i, n)
    PROVE  MergesInv'
<1>1. /\ UNCHANGED <<peers, pendingMerges, crashed>>
      /\ \A k \in Node \ {n} : inviterName'[k] = inviterName[k] /\ io'[k] = io[k]
      /\ inviterName'[n] = io'[n].inviter /\ io'[n].step = "accept"
  BY DEF HandleAcceptInvitee, GoIo, TypeOK, NodeTypeOK
<1>2. \A k \in Node \ {n} : MergesKept(k)
  BY <1>1 DEF MergesKept
<1>3. MergesTaken(n)' /\ peers'[<<n, None>>] = None
  BY <1>1 DEF MergesTaken, MergesInv
<1> QED
  BY <1>2, <1>3, MergesKeptStep DEF MergesInv

LEMMA MergesSendAccept ==
    ASSUME TypeOK, MergesInv, NEW n \in Node, IoSendAccept(n)
    PROVE  MergesInv'
<1>1. /\ UNCHANGED <<inviterName, peers, pendingMerges, crashed>>
      /\ \A k \in Node \ {n} : io'[k] = io[k]
      /\ io'[n].inviter = io[n].inviter /\ io'[n].step = "add_peer" /\ io[n].step = "accept"
  BY DEF IoSendAccept, IoAt, GoIo, TypeOK, NodeTypeOK
<1>2. \A k \in Node \ {n} : MergesKept(k)
  BY <1>1 DEF MergesKept
<1>3. MergesTaken(n)' /\ peers'[<<n, None>>] = None
  BY <1>1 DEF MergesTaken, MergesInv
<1> QED
  BY <1>2, <1>3, MergesKeptStep DEF MergesInv

\* AddPeer forgets no peer and does not touch the unset name.
LEMMA PeerKept ==
    ASSUME TypeOK, NEW n \in Node, NEW node \in NodeName, node # None, NEW i \in Inv,
           AddPeer(n, node, i)
    PROVE  /\ \A m \in Node : /\ \A k \in NodeName : peers[<<m, k>>] # None => peers'[<<m, k>>] # None
                              /\ peers'[<<m, None>>] = peers[<<m, None>>]
           /\ peers'[<<n, node>>] # None
<1>1. /\ peers \in [Node \X NodeName -> Inv \cup {None}]
      /\ None \notin Inv /\ None \in NodeName
  BY PortsAssumption DEF TypeOK, NodeTypeOK, NodeName
<1> QED
  BY <1>1 DEF AddPeer

LEMMA MergesAddPeer ==
    ASSUME TypeOK, HandshakeInv, MergesInv, NEW n \in Node, IoAddPeer(n)
    PROVE  MergesInv'
<1> DEFINE inviter == io[n].inviter
<1>1. io[n].step = "add_peer" /\ crashed[n] = "no"
  BY DEF IoAddPeer, IoAt
<1>2. inviter \in Node /\ inviter \in NodeName /\ inviter # None /\ inviterChan[n] \in Inv
  <2>1. PICK i \in Inv : i = io[n].token
    BY <1>1 DEF TypeOK, NodeTypeOK, IoState
  <2>2. inviterOf[i] = inviter /\ inviterChan[n] = i
    BY <1>1, <2>1 DEF HandshakeInv, HandlesOffer
  <2> HIDE DEF inviter
  <2> QED
    BY <2>2, InvFacts, PortsAssumption DEF NodeName
<1>3. /\ UNCHANGED <<inviterName, pendingMerges, crashed>>
      /\ AddPeer(n, inviter, inviterChan[n])
      /\ \A k \in Node \ {n} : io'[k] = io[k]
      /\ io'[n].step = "take"
  BY DEF IoAddPeer, GoIo, TypeOK, NodeTypeOK
<1> HIDE DEF inviter
<1>4. /\ \A m \in Node : /\ \A k \in NodeName : peers[<<m, k>>] # None => peers'[<<m, k>>] # None
                         /\ peers'[<<m, None>>] = peers[<<m, None>>]
      /\ peers'[<<n, inviter>>] # None
  BY <1>2, <1>3, PeerKept
<1>5. \A k \in Node \ {n} : MergesKept(k)
  BY <1>3, <1>4 DEF MergesKept
<1>6. MergesTaken(n)' /\ peers'[<<n, None>>] = None
  <2>1. inviterName[n] # None => inviterName[n] = inviter
    BY <1>1 DEF MergesInv, MergesTaken, inviter
  <2> QED
    BY <1>3, <1>4, <2>1 DEF MergesTaken, MergesInv, GetInviterChannel
<1> QED
  BY <1>5, <1>6, MergesKeptStep DEF MergesInv

LEMMA MergesTakePending ==
    ASSUME TypeOK, MergesInv, NEW n \in Node, IoTakePending(n)
    PROVE  MergesInv'
<1>1. Flush(pendingMerges[n]).step \notin {"accept", "add_peer", "take"}
  BY DEF Flush, Idle
<1>2. /\ UNCHANGED <<inviterName, peers, crashed>>
      /\ \A k \in Node \ {n} : io'[k] = io[k] /\ pendingMerges'[k] = pendingMerges[k]
      /\ io[n].step = "take"
      /\ io'[n].step \notin {"accept", "add_peer", "take"}
      /\ pendingMerges'[n] = <<>>
  BY <1>1 DEF IoTakePending, IoAt, GoIo, TypeOK, NodeTypeOK
<1>3. \A k \in Node \ {n} : MergesKept(k)
  BY <1>2 DEF MergesKept
<1>4. MergesTaken(n)' /\ peers'[<<n, None>>] = None
  BY <1>2 DEF MergesTaken, MergesInv, GetInviterChannel
<1> QED
  BY <1>3, <1>4, MergesKeptStep DEF MergesInv

LEMMA MergesInviterAccept ==
    ASSUME TypeOK, HandshakeInv, MergesInv, NEW i \in Inv, NEW n \in Node, <<i, n>> \in End,
           HandleAcceptInvitation(i, n)
    PROVE  MergesInv'
<1>1. /\ crashed[n] = "no" /\ AddPeer(n, inviteeOf[i], i)
      /\ DieIf(n, peers[<<n, inviteeOf[i]>>] # None, "channel_destroyed")
      /\ UNCHANGED <<inviterName, pendingMerges, io>>
  BY InviterAcceptStep
<1>2. inviteeOf[i] \in NodeName /\ inviteeOf[i] # None
  BY InvFacts DEF NodeName
<1>3. \A k \in Node : crashed'[k] = "no" => crashed[k] = "no"
  BY <1>1 DEF DieIf, Die, TypeOK, NodeTypeOK
<1>4. \A m \in Node : /\ \A k \in NodeName : peers[<<m, k>>] # None => peers'[<<m, k>>] # None
                      /\ peers'[<<m, None>>] = peers[<<m, None>>]
  BY <1>1, <1>2, PeerKept
<1>5. \A k \in Node : MergesKept(k)
  BY <1>1, <1>3, <1>4 DEF MergesKept
<1> QED
  BY <1>5, MergesKeptStep DEF MergesInv

LEMMA MergesAcceptInvitation ==
    ASSUME TypeOK, MergesInv, NEW i \in Inv, CoreAcceptInvitation(i)
    PROVE  MergesInv'
<1> DEFINE n == inviteeOf[i]
<1>1. /\ crashed[n] = "no" /\ n \in Node
      /\ UNCHANGED <<peers, pendingMerges, io>>
      /\ inviterName' = [inviterName EXCEPT ![n] = None]
      /\ crashed' = crashed \/ crashed' = [crashed EXCEPT ![n] = "channel_destroyed"]
  BY InvFacts DEF CoreAcceptInvitation, AcceptInvitation, AppReady, AppAt, DieIf, Die
<1>2. \A k \in Node \ {n} : MergesKept(k)
  BY <1>1 DEF MergesKept, TypeOK, NodeTypeOK
<1>3. MergesTaken(n)' /\ peers'[<<n, None>>] = None
  BY <1>1 DEF MergesTaken, MergesInv, TypeOK, NodeTypeOK
<1> QED
  BY <1>2, <1>3, MergesKeptStep DEF MergesInv

LEMMA MergesApp ==
    ASSUME TypeOK, MergesInv, App
    PROVE  MergesInv'
<1>1. ASSUME NEW c \in Call, NEW i \in Inv, NEW name \in Name, Extract(c, i, name)
      PROVE  MergesInv'
  <2>1. \A n \in Node : pendingMerges'[n] = pendingMerges[n] \/ GetInviterChannel(n) = None
    BY <1>1 DEF Extract, MergePortIntoInviter, TypeOK, NodeTypeOK
  <2>2. UNCHANGED <<inviterName, peers, io, crashed>>
    BY <1>1 DEF Extract
  <2> QED
    BY <2>1, <2>2, MergesQuiet
<1>2. ASSUME NEW i \in Inv, CoreSendInvitation(i)
      PROVE  MergesInv'
  BY <1>2, MergesQuiet DEF CoreSendInvitation, SendInvitation
<1>3. ASSUME NEW n \in Node, CoreSendRequest(n) \/ WriteForward(n)
      PROVE  MergesInv'
  <2>1. UNCHANGED <<inviterName, peers, io, crashed, pendingMerges>>
    BY <1>3 DEF CoreSendRequest, SendRequest, WriteForward
  <2> QED
    BY <2>1, MergesQuiet
<1>4. ASSUME NEW c \in Call, NEW i \in Inv, NEW name \in Name,
             Attach(c, i, name)
      PROVE  MergesInv'
  BY <1>4, MergesQuiet DEF Attach, nodeVars
<1>5. ASSUME NEW p \in Port, NEW m \in Msg, Write(p, m)
      PROVE  MergesInv'
  BY <1>5, MergesQuiet DEF Write
<1>6. ASSUME NEW p \in Port, Read(p)
      PROVE  MergesInv'
  BY <1>6, MergesQuiet DEF Read, nodeVars
<1>7. ASSUME NEW i \in Inv, NEW name \in Name, ExtractLocal(i, name)
      PROVE  MergesInv'
  BY <1>7, MergesQuiet DEF ExtractLocal, nodeVars
<1> QED
  BY <1>1, <1>2, <1>3, <1>4, <1>5, <1>6, <1>7, MergesAcceptInvitation DEF App

\* A merge request waits only while the inviter is unknown, or until the IO thread that has
\* just learnt it takes the list: OnAcceptInvitee, HandlePendingMergePort, AddPeer.
THEOREM MergesCorrect == Spec => []MergesInv
<1>1. Init => MergesInv
  BY PortsAssumption DEF Init, NodeInit, MergesInv, MergesTaken, NodeName
<1>2. TypeOK /\ HandshakeInv /\ MergesInv /\ [Next]_vars => MergesInv'
  <2> SUFFICES ASSUME TypeOK, HandshakeInv, MergesInv, [Next]_vars
               PROVE  MergesInv'
    OBVIOUS
  <2>1. ASSUME NEW e \in End, Handle(e[1], e[2])
        PROVE  MergesInv'
    <3>1. e[1] \in Inv /\ e[2] \in Node /\ <<e[1], e[2]>> \in End
      BY DEF End
    <3> QED
      BY <2>1, <3>1, MergesAcceptInvitee, MergesInviterAccept, MergesHandle DEF Handle
  <2>2. ASSUME NEW n \in Node, IoContinue(n)
        PROVE  MergesInv'
    BY <2>2, MergesContinue, MergesSendAccept, MergesAddPeer, MergesTakePending
       DEF IoContinue
  <2>3. CASE UNCHANGED vars
    BY <2>3, MergesQuiet DEF vars, nodeVars
  <2> QED
    BY <2>1, <2>2, <2>3, MergesApp DEF Next, Io
<1> QED
  BY <1>1, <1>2, TypeCorrect, HandshakeCorrect, PTL DEF Spec

\* HandlePendingMergePort takes every request MergePortIntoInviter has queued: none is left
\* waiting once its inviter's channel is known.
THEOREM NoMergeForgottenCorrect == Spec => []NoMergeForgotten
<1>1. MergesInv => NoMergeForgotten
  BY DEF MergesInv, MergesTaken, NoMergeForgotten, GetInviterChannel
<1> QED
  BY <1>1, MergesCorrect, PTL

=============================================================================
