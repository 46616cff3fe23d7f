------------------------------ MODULE MessageProofs ------------------------------
(***************************************************************************)
(* User messages: MessagesInv and PlacesInv hold, and with them Addressed, *)
(* DeliveredToPeer and AtMostOnce, for any processes, invitations, pipes   *)
(* and messages; and Core implements MessagePipe.                          *)
(***************************************************************************)
EXTENDS MergeProofs, FiniteSetTheorems

-----------------------------------------------------------------------------
(* What a step does to the addresses of ports.  Every step keeps them, but   *)
(* for the two stores of MergePorts.                                         *)

AddressesKept ==
    \A p \in Port : p[1] \in made =>
        /\ peerNode[p] # Owner(p) => peerNode'[p] = peerNode[p]
        /\ peerPort'[p] # peerPort[p] => peerPort[p] = Sibling(p)

LEMMA AddressesSame ==
    ASSUME UNCHANGED <<peerNode, peerPort>>
    PROVE  AddressesKept
BY DEF AddressesKept

LEMMA AddressesCreate ==
    ASSUME NEW c \in Call, c \notin made, CreatePortPair(c)
    PROVE  AddressesKept
BY DEF AddressesKept, CreatePortPair

\* The first store of MergePorts changes the node of a port that points at its sibling.
LEMMA AddressesStoreNode ==
    ASSUME TypeOK, PortsInv, NEW p \in Port, p[1] \in made, NEW node,
           Paired(p[1]), p = Port1(p[1]), StoreNode(p, node)
    PROVE  AddressesKept
<1>1. PICK c \in Call : c = p[1] /\ p = Port1(c) /\ c \in made
  BY PairFacts
<1>2. Points(Port1(c), Port0(c)) /\ Points(Port0(c), Port1(c))
  BY <1>1 DEF PortsInv, PairInv, Paired
<1>3. UNCHANGED peerPort /\ \A r \in Port : r # Port0(c) => peerNode'[r] = peerNode[r]
  <2>1. /\ UNCHANGED peerPort
        /\ peerNode' = peerNode \/ peerNode' = [peerNode EXCEPT ![Port0(c)] = node]
    BY <1>1, <1>2 DEF StoreNode, Points
  <2> QED
    BY <2>1 DEF TypeOK, PortsTypeOK
<1>4. peerNode[Port0(c)] = Owner(Port0(c))
  BY <1>2, PairFacts DEF Points
<1> QED
  BY <1>3, <1>4 DEF AddressesKept

\* The second one changes the port.
LEMMA AddressesStorePort ==
    ASSUME TypeOK, PortsInv, NEW n \in Node, IoStorePort(n)
    PROVE  AddressesKept
<1>1. PICK s : s = io[n]
  OBVIOUS
<1>2. s.step = "store_port" /\ StorePort(s.local, s.node, s.port)
  BY <1>1 DEF IoStorePort, IoAt
<1>3. s.local \in Port /\ s.local[1] \in made /\ Half(s.local[1]) /\ Owner(s.local) = n /\ s.local[2] = 0
  BY <1>1, <1>2 DEF PortsInv, IoInv, TypeOK, NodeTypeOK, IoState
<1>4. peerPort[s.local] = Sibling(s.local)
  BY <1>3, PairFacts DEF Half
<1>5. UNCHANGED peerNode /\ \A r \in Port : r # s.local => peerPort'[r] = peerPort[r]
  BY <1>2, <1>3 DEF StorePort, TypeOK, PortsTypeOK
<1> QED
  BY <1>4, <1>5 DEF AddressesKept

\* The steps that write addresses.
LEMMA AddressSteps ==
    ASSUME TypeOK, HandshakeInv, PeersInv, PortsInv, [Next]_vars
    PROVE  \/ UNCHANGED <<peerNode, peerPort>>
           \/ \E c \in Call : c \notin made /\ CreatePortPair(c)
           \/ \E c \in Call : \E node : c \in made /\ Paired(c) /\ StoreNode(Port1(c), node)
           \/ \E n \in Node : IoStorePort(n)
<1>1. ASSUME NEW e \in End, Handle(e[1], e[2]), UNCHANGED coreVars
      PROVE  \/ UNCHANGED portVars
             \/ UNCHANGED <<peerNode, peerPort>>
             \/ \E c \in Call : \E node : c \in made /\ Paired(c) /\ StoreNode(Port1(c), node)
  <2>1. e[1] \in Inv /\ e[2] \in Node /\ <<e[1], e[2]>> \in End
    BY DEF End
  <2>2. HandleAcceptInvitee(e[1], e[2]) \/ HandleAcceptInvitation(e[1], e[2])
          \/ HandleUserMessage(e[1], e[2]) => UNCHANGED <<peerNode, peerPort>>
    BY DEF HandleAcceptInvitee, HandleAcceptInvitation, HandleUserMessage, AcceptMessage, portVars
  <2>3. ASSUME NEW i \in Inv, NEW n \in Node, <<i, n>> \in End,
               HandleRequestPortMerge(i, n) \/ HandleResponsePortMerge(i, n)
        PROVE  \/ UNCHANGED portVars
               \/ \E c \in Call : \E node : c \in made /\ Paired(c) /\ StoreNode(Port1(c), node)
    <3>1. PICK m, from : m = Head(chan[<<i, n>>]) /\ from = Other(i, n)
      OBVIOUS
    <3>2. CASE HandleRequestPortMerge(i, n)
      BY <1>1, <2>3, <3>1, <3>2, RequestMerge
    <3>3. CASE HandleResponsePortMerge(i, n)
      BY <1>1, <2>3, <3>1, <3>3, ResponseMerge
    <3> QED
      BY <2>3, <3>2, <3>3
  <2> QED
    BY <1>1, <2>1, <2>2, <2>3 DEF Handle
<1>2. ASSUME NEW n \in Node, IoContinue(n)
      PROVE  UNCHANGED portVars \/ IoStorePort(n)
  BY <1>2 DEF IoContinue, IoSendAccept, IoAddPeer, IoTakePending, IoFlush, IoRespond
<1>3. ASSUME App
      PROVE  \/ UNCHANGED portVars
             \/ UNCHANGED <<peerNode, peerPort>>
             \/ \E c \in Call : c \notin made /\ CreatePortPair(c)
  <2>1. ASSUME NEW c \in Call, NEW i \in Inv, NEW name \in Name, Attach(c, i, name) \/ Extract(c, i, name)
        PROVE  c \notin made /\ CreatePortPair(c)
    BY <2>1 DEF Attach, Extract
  <2>2. ASSUME NEW i \in Inv, CoreSendInvitation(i) \/ CoreAcceptInvitation(i)
        PROVE  UNCHANGED portVars
    BY <2>2 DEF CoreSendInvitation, SendInvitation, CoreAcceptInvitation, AcceptInvitation
  <2>3. ASSUME NEW i \in Inv, NEW name \in Name, ExtractLocal(i, name)
        PROVE  UNCHANGED portVars
    BY <2>3 DEF ExtractLocal
  <2>4. ASSUME NEW n \in Node, CoreSendRequest(n) \/ WriteForward(n)
        PROVE  UNCHANGED portVars
    BY <2>4 DEF CoreSendRequest, SendRequest, WriteForward
  <2>5. ASSUME NEW p \in Port, NEW m \in Msg, Write(p, m)
        PROVE  UNCHANGED portVars
    BY <2>5 DEF Write
  <2>6. ASSUME NEW p \in Port, Read(p)
        PROVE  UNCHANGED <<peerNode, peerPort>>
    BY <2>6 DEF Read, GetNextMessage
  <2> QED
    BY <1>3, <2>1, <2>2, <2>3, <2>4, <2>5, <2>6 DEF App
<1>4. UNCHANGED portVars \/ UNCHANGED vars => UNCHANGED <<peerNode, peerPort>>
  BY DEF vars, portVars
<1> QED
  BY <1>1, <1>2, <1>3, <1>4 DEF Next, Io

LEMMA AddressesKeptStep ==
    ASSUME TypeOK, HandshakeInv, PeersInv, PortsInv, [Next]_vars
    PROVE  AddressesKept
<1>1. \A c \in Call : Port1(c) \in Port /\ Port1(c)[1] = c /\ Port1(Port1(c)[1]) = Port1(c)
  BY PairFacts
<1> QED
  BY <1>1, AddressSteps, AddressesSame, AddressesCreate, AddressesStoreNode, AddressesStorePort

\* A linked port stays linked to the same end.
LEMMA LinksKept ==
    ASSUME TypeOK, HandshakeInv, PeersInv, PortsInv, [Next]_vars, NEW p \in Port, Linked(p)
    PROVE  Linked(p)' /\ peerPort'[p] = peerPort[p] /\ peerNode'[p] = peerNode[p] /\ p[1] \in made
<1>1. p[1] \in made /\ peerPort[p] \in Port /\ peerPort[p][2] = 0
  BY LinkedPeer
<1>2. PortsKept
  BY PortsKeptStep
<1>3. peerNode'[p] = peerNode[p] /\ peerPort'[p] = peerPort[p]
  BY <1>1, <1>2 DEF PortsKept
<1> QED
  BY <1>1, <1>3 DEF Linked

-----------------------------------------------------------------------------
(* What a step does to user messages.                                        *)

\* The k-th message in channel end e is the user message u.
UserAt(e, k, u) == k \in 1 .. Len(chan[e]) /\ chan[e][k] = u /\ u.type = "UserMessage"

\* User messages move up by d in their channels, or not at all.
UsersMove(d) ==
    /\ \A e \in End, k \in Nat : \A u : UserAt(e, k, u)' => UserAt(e, k + d[e], u)
    /\ \A e \in End, k \in Nat : \A u : UserAt(e, k, u) => \E l \in Nat : UserAt(e, l, u)'

WritersSame ==
    \A n \in Node : app'[n] = app[n] \/ (app[n].step # "write" /\ app'[n].step # "write")

Quiet ==
    /\ UNCHANGED <<queue, written, got>>
    /\ WritersSame
    /\ \E d \in [End -> Nat] : UsersMove(d)

LEMMA UsersSame ==
    ASSUME UNCHANGED chan
    PROVE  \E d \in [End -> Nat] : UsersMove(d)
<1>1. Still \in [End -> Nat] /\ \A e \in End, k \in Nat : k + Still[e] = k
  BY DEF Still
<1>2. UsersMove(Still)
  BY <1>1 DEF UsersMove, UserAt
<1> QED
  BY <1>1, <1>2

\* A message that is sent is the last of its channel; the others stay where they are.
LEMMA UsersSent ==
    ASSUME TypeOK, NEW e \in End, NEW m \in Message, chan' = [chan EXCEPT ![e] = Append(@, m)],
           NEW f \in End, NEW k \in Nat, NEW u
    PROVE  /\ UserAt(f, k, u) => UserAt(f, k, u)'
           /\ UserAt(f, k, u)' =>
                \/ UserAt(f, k, u)
                \/ f = e /\ k = Len(chan[e]) + 1 /\ u = m /\ ~ \E v : UserAt(f, k, v)
           /\ m.type = "UserMessage" => \E j \in Nat : UserAt(e, j, m)'
<1>1. chan \in [Inv \X Node -> Seq(Message)] /\ e \in Inv \X Node
  BY DEF TypeOK, NodeTypeOK, End
<1>2. /\ Len(chan[e]) \in Nat /\ Len(chan'[e]) = Len(chan[e]) + 1
      /\ chan'[e][Len(chan[e]) + 1] = m
      /\ \A j \in 1 .. Len(chan[e]) : chan'[e][j] = chan[e][j]
      /\ f # e => chan'[f] = chan[f]
  BY <1>1, AppendProperties, LenProperties
<1>3. UserAt(f, k, u) => UserAt(f, k, u)'
  BY <1>2 DEF UserAt
<1>4. UserAt(f, k, u)' =>
        \/ UserAt(f, k, u)
        \/ f = e /\ k = Len(chan[e]) + 1 /\ u = m
  BY <1>2 DEF UserAt
<1>5. f = e /\ k = Len(chan[e]) + 1 => ~ \E v : UserAt(f, k, v)
  BY <1>2 DEF UserAt
<1>6. ASSUME m.type = "UserMessage" PROVE \E j \in Nat : UserAt(e, j, m)'
  <2>1. PICK j \in Nat : j = Len(chan[e]) + 1
    BY <1>2
  <2> QED
    BY <1>2, <1>6, <2>1 DEF UserAt
<1> QED
  BY <1>3, <1>4, <1>5, <1>6

LEMMA UsersSentOther ==
    ASSUME TypeOK, NEW e \in End, NEW m \in Message, chan' = [chan EXCEPT ![e] = Append(@, m)],
           m.type # "UserMessage"
    PROVE  \E d \in [End -> Nat] : UsersMove(d)
<1>1. Still \in [End -> Nat] /\ \A f \in End, k \in Nat : k + Still[f] = k
  BY DEF Still
<1>2. ASSUME NEW f \in End, NEW k \in Nat, NEW u, UserAt(f, k, u)'
      PROVE  UserAt(f, k, u)
  <2>1. u.type = "UserMessage"
    BY <1>2 DEF UserAt
  <2> QED
    BY <1>2, <2>1, UsersSent
<1>3. \A f \in End, k \in Nat : \A u : UserAt(f, k, u)' => UserAt(f, k + Still[f], u)
  BY <1>1, <1>2
<1>4. \A f \in End, k \in Nat : \A u : UserAt(f, k, u) => \E l \in Nat : UserAt(f, l, u)'
  BY UsersSent
<1>5. UsersMove(Still)
  BY <1>3, <1>4 DEF UsersMove
<1> QED
  BY <1>1, <1>5

\* The messages behind the one that is taken move up by one.
LEMMA UsersTaken ==
    ASSUME TypeOK, NEW i \in Inv, NEW n \in Node, <<i, n>> \in End, chan[<<i, n>>] # <<>>,
           Pop(i, n), NEW f \in End, NEW k \in Nat, NEW u
    PROVE  /\ UserAt(f, k, u)' => UserAt(f, k + Up(<<i, n>>)[f], u)
           /\ UserAt(f, k, u) =>
                \/ \E l \in Nat : UserAt(f, l, u)'
                \/ f = <<i, n>> /\ k = 1 /\ u = Head(chan[<<i, n>>])
<1> DEFINE s == chan[<<i, n>>]
<1>1. s \in Seq(Message) /\ chan'[<<i, n>>] = Tail(s) /\ (f # <<i, n>> => chan'[f] = chan[f])
  BY DEF Pop, Popped, TypeOK, NodeTypeOK, End
<1>2. /\ Len(s) \in Nat /\ Len(s) # 0 /\ Head(s) = s[1] /\ Len(Tail(s)) = Len(s) - 1
      /\ \A j \in 1 .. Len(Tail(s)) : Tail(s)[j] = s[j + 1]
  BY <1>1, EmptySeq, LenProperties, HeadTailProperties
<1>3. Up(<<i, n>>)[<<i, n>>] = 1 /\ (f # <<i, n>> => Up(<<i, n>>)[f] = 0)
  BY StillUp
<1>4. CASE f # <<i, n>>
  <2>1. k + 0 = k
    OBVIOUS
  <2> QED
    BY <1>1, <1>3, <1>4, <2>1 DEF UserAt
<1>5. CASE f = <<i, n>>
  <2> HIDE DEF s
  <2>1. UserAt(f, k, u)' <=> k \in 1 .. Len(Tail(s)) /\ Tail(s)[k] = u /\ u.type = "UserMessage"
    BY <1>1, <1>5 DEF UserAt
  <2>2. \A j \in Nat : UserAt(f, j, u) <=> j \in 1 .. Len(s) /\ s[j] = u /\ u.type = "UserMessage"
    BY <1>5 DEF UserAt, s
  <2>3. UserAt(f, k, u)' => UserAt(f, k + 1, u)
    BY <1>2, <2>1, <2>2
  <2>4. ASSUME UserAt(f, k, u), k # 1 PROVE UserAt(f, k - 1, u)' /\ k - 1 \in Nat
    <3>1. k \in 1 .. Len(s) /\ s[k] = u /\ u.type = "UserMessage"
      BY <2>2, <2>4
    <3>2. k - 1 \in 1 .. Len(Tail(s)) /\ Tail(s)[k - 1] = u
      BY <1>2, <2>4, <3>1
    <3>3. k - 1 \in 1 .. Len(chan'[f]) /\ chan'[f][k - 1] = u
      BY <1>1, <1>5, <3>2
    <3> QED
      BY <3>1, <3>2, <3>3 DEF UserAt
  <2>5. UserAt(f, k, u) /\ k = 1 => u = Head(s)
    BY <1>2, <2>2
  <2> QED
    BY <1>3, <1>5, <2>3, <2>4, <2>5 DEF s
<1> QED
  BY <1>4, <1>5

LEMMA UsersTakenOther ==
    ASSUME TypeOK, NEW i \in Inv, NEW n \in Node, <<i, n>> \in End, chan[<<i, n>>] # <<>>,
           Pop(i, n), Head(chan[<<i, n>>]).type # "UserMessage"
    PROVE  \E d \in [End -> Nat] : UsersMove(d)
<1>1. Up(<<i, n>>) \in [End -> Nat]
  BY StillUp
<1>2. ASSUME NEW f \in End, NEW k \in Nat, NEW u, UserAt(f, k, u)
      PROVE  \E l \in Nat : UserAt(f, l, u)'
  <2>1. u.type = "UserMessage"
    BY <1>2 DEF UserAt
  <2> QED
    BY <1>2, <2>1, UsersTaken
<1>3. UsersMove(Up(<<i, n>>))
  BY <1>2, UsersTaken DEF UsersMove
<1> QED
  BY <1>1, <1>3


\* Steps that leave all messages alone.
LEMMA QuietCalls ==
    ASSUME \/ \E c \in Call, i \in Inv, name \in Name : Attach(c, i, name)
           \/ \E i \in Inv : CoreAcceptInvitation(i)
           \/ \E i \in Inv, name \in Name : ExtractLocal(i, name)
           \/ UNCHANGED vars
    PROVE  Quiet
<1>1. UNCHANGED <<queue, written, got, app, chan>>
  BY DEF Attach, CreatePortPair, CoreAcceptInvitation, AcceptInvitation, ExtractLocal, vars, portVars,
         nodeVars, coreVars
<1> QED
  BY <1>1, UsersSame DEF Quiet, WritersSame

LEMMA QuietExtract ==
    ASSUME TypeOK, NEW c \in Call, NEW i \in Inv, NEW name \in Name, Extract(c, i, name)
    PROVE  Quiet
<1>1. UNCHANGED <<queue, written, got, chan>>
  BY DEF Extract, CreatePortPair
<1>2. WritersSame
  <2>1. PICK n \in Node : n = callNode[c]
    BY PairFacts
  <2>2. app[n].step = "idle" /\ MergePortIntoInviter(n, name, Port0(c))
    BY <2>1 DEF Extract, AppReady, AppAt
  <2>3. CASE GetInviterChannel(n) = None
    BY <2>2, <2>3 DEF MergePortIntoInviter, WritersSame
  <2>4. CASE GetInviterChannel(n) # None
    <3>1. PICK s : s = [step |-> "request", channel |-> GetInviterChannel(n), name |-> name,
                        port |-> Port0(c)]
      OBVIOUS
    <3>2. app' = [app EXCEPT ![n] = s]
      BY <2>2, <2>4, <3>1 DEF MergePortIntoInviter, GoApp
    <3>3. s.step = "request"
      BY <3>1
    <3> QED
      BY <2>2, <3>2, <3>3 DEF WritersSame, TypeOK, NodeTypeOK
  <2> QED
    BY <2>3, <2>4
<1> QED
  BY <1>1, <1>2, UsersSame DEF Quiet

LEMMA QuietSends ==
    ASSUME TypeOK, HandshakeInv, PeersInv, PortsInv, UNCHANGED <<queue, written, got>>, WritersSame,
           \/ UNCHANGED chan
           \/ \E e \in End, m \in Message :
                chan' = [chan EXCEPT ![e] = Append(@, m)] /\ m.type # "UserMessage"
    PROVE  Quiet
BY UsersSame, UsersSentOther DEF Quiet

LEMMA QuietSendInvitation ==
    ASSUME TypeOK, HandshakeInv, PeersInv, PortsInv, NEW i \in Inv, CoreSendInvitation(i)
    PROVE  Quiet
<1>1. UNCHANGED <<queue, written, got, app>>
  BY DEF CoreSendInvitation, SendInvitation, portVars
<1>2. \E e \in End, m \in Message :
        chan' = [chan EXCEPT ![e] = Append(@, m)] /\ m.type = "AcceptInvitee"
  BY SendsOffer
<1>3. \E e \in End, m \in Message :
        chan' = [chan EXCEPT ![e] = Append(@, m)] /\ m.type # "UserMessage"
  BY <1>2
<1> QED
  BY <1>1, <1>3, QuietSends DEF WritersSame

LEMMA QuietSendRequest ==
    ASSUME TypeOK, HandshakeInv, PeersInv, PortsInv, NEW n \in Node, CoreSendRequest(n)
    PROVE  Quiet
<1>1. /\ UNCHANGED <<queue, written, got>> /\ app[n].step = "request"
      /\ SendTo(app[n].channel, n, RequestPortMerge(app[n].name, app[n].port))
      /\ app' = [app EXCEPT ![n] = Idle]
  BY DEF CoreSendRequest, SendRequest, portVars, coreVars, AppAt, GoApp
<1>2. WritersSame
  BY <1>1 DEF WritersSame, Idle, TypeOK, NodeTypeOK
<1>3. PICK i \in Inv, name \in Name, r \in Port :
        i = app[n].channel /\ name = app[n].name /\ r = app[n].port
  BY <1>1 DEF TypeOK, NodeTypeOK, AppState
<1>4. PICK m \in Message : m = RequestPortMerge(name, r)
  BY DEF RequestPortMerge, Message
<1>5. m.type # "UserMessage"
  BY <1>4 DEF RequestPortMerge
<1>6. CanUse(n, i)
  BY <1>1, <1>3 DEF CanUse
<1>7. \E e \in End : chan' = [chan EXCEPT ![e] = Append(@, m)]
  BY <1>1, <1>3, <1>4, <1>6, SendsRequest
<1> QED
  BY <1>1, <1>2, <1>5, <1>7, QuietSends

LEMMA QuietFlush ==
    ASSUME TypeOK, HandshakeInv, PeersInv, PortsInv, NEW n \in Node, IoFlush(n), UNCHANGED coreVars
    PROVE  Quiet
<1> DEFINE i == GetInviterChannel(n)
           s == io[n].merges
<1>1. UNCHANGED <<queue, written, got, app>> /\ io[n].step = "flush"
  BY DEF IoFlush, IoAt, portVars, coreVars
<1>2. CASE i = None
  BY <1>1, <1>2, QuietSends DEF IoFlush, WritersSame
<1>3. CASE i # None
  <2>1. PICK name \in Name, r \in Port : name = Head(s)[1] /\ r = Head(s)[2]
    <3>1. s \in Seq(Name \X Port) /\ s # <<>>
      BY <1>1 DEF TypeOK, NodeTypeOK, IoState
    <3> HIDE DEF s
    <3>2. Head(s) \in Name \X Port
      BY <3>1, HeadTailProperties
    <3> QED
      BY <3>2
  <2>2. SendTo(i, n, RequestPortMerge(name, r)) /\ i \in Inv /\ CanUse(n, i)
    BY <1>3, <2>1, InviterInPeers DEF IoFlush, CanUse
  <2>3. PICK m \in Message : m = RequestPortMerge(name, r)
    BY DEF RequestPortMerge, Message
  <2>4. m.type # "UserMessage"
    BY <2>3 DEF RequestPortMerge
  <2> HIDE DEF i, s
  <2>5. \E e \in End : chan' = [chan EXCEPT ![e] = Append(@, m)]
    BY <2>2, <2>3, SendsRequest
  <2> QED
    BY <1>1, <2>4, <2>5, QuietSends DEF WritersSame
<1> QED
  BY <1>2, <1>3

LEMMA QuietContinue ==
    ASSUME TypeOK, HandshakeInv, PeersInv, PortsInv, NEW n \in Node, IoContinue(n),
           UNCHANGED coreVars
    PROVE  Quiet
<1>1. UNCHANGED <<queue, written, got, app>>
  BY DEF IoContinue, IoSendAccept, IoAddPeer, IoTakePending, IoFlush, IoStorePort, IoRespond, StorePort,
         portVars, coreVars
<1>2. CASE IoSendAccept(n)
  <2>1. \E e \in End, m \in Message :
          chan' = [chan EXCEPT ![e] = Append(@, m)] /\ m.type = "AcceptInvitation"
    BY <1>2, SendsAnswer
  <2>2. \E e \in End, m \in Message :
          chan' = [chan EXCEPT ![e] = Append(@, m)] /\ m.type # "UserMessage"
    BY <2>1
  <2> QED
    BY <1>1, <2>2, QuietSends DEF WritersSame
<1>3. CASE IoAddPeer(n)
  BY <1>1, <1>3, AddPeerSilent, QuietSends DEF WritersSame
<1>4. CASE IoTakePending(n) \/ IoStorePort(n)
  <2>1. UNCHANGED chan
    BY <1>4 DEF IoTakePending, IoStorePort
  <2> QED
    BY <1>1, <2>1, QuietSends DEF WritersSame
<1>5. CASE IoFlush(n)
  BY <1>5, QuietFlush
<1>6. CASE IoRespond(n)
  <2>1. \/ UNCHANGED chan
        \/ \E e \in End, m \in Message :
             chan' = [chan EXCEPT ![e] = Append(@, m)] /\ m.type = "ResponsePortMerge"
    BY <1>6, SendsResponse
  <2>2. \/ UNCHANGED chan
        \/ \E e \in End, m \in Message :
             chan' = [chan EXCEPT ![e] = Append(@, m)] /\ m.type # "UserMessage"
    BY <2>1
  <2> QED
    BY <1>1, <2>2, QuietSends DEF WritersSame
<1> QED
  BY <1>2, <1>3, <1>4, <1>5, <1>6 DEF IoContinue

LEMMA QuietHandle ==
    ASSUME TypeOK, HandshakeInv, PeersInv, PortsInv, NEW i \in Inv, NEW n \in Node, <<i, n>> \in End,
           \/ HandleAcceptInvitee(i, n) \/ HandleAcceptInvitation(i, n)
           \/ HandleRequestPortMerge(i, n) \/ HandleResponsePortMerge(i, n),
           UNCHANGED coreVars
    PROVE  Quiet
<1>1. UNCHANGED <<queue, written, got, app>>
  BY DEF HandleAcceptInvitee, HandleAcceptInvitation, HandleRequestPortMerge,
         HandleResponsePortMerge, StoreNode, portVars, coreVars
<1>2. /\ Pop(i, n) /\ chan[<<i, n>>] # <<>>
      /\ Head(chan[<<i, n>>]).type # "UserMessage"
  BY InviterAcceptPops DEF HandleAcceptInvitee, HandleAcceptInvitation, HandleRequestPortMerge,
     HandleResponsePortMerge, Receive
<1>3. \E d \in [End -> Nat] : UsersMove(d)
  BY <1>2, UsersTakenOther
<1> QED
  BY <1>1, <1>3 DEF Quiet, WritersSame

\* Every other step writes, sends, delivers or reads one message.
LEMMA StepKinds ==
    ASSUME TypeOK, HandshakeInv, PeersInv, PortsInv, [Next]_vars
    PROVE  \/ Quiet
           \/ \E p \in Port, m \in Msg : Write(p, m)
           \/ \E n \in Node : WriteForward(n)
           \/ \E i \in Inv, n \in Node :
                <<i, n>> \in End /\ HandleUserMessage(i, n) /\ UNCHANGED coreVars
           \/ \E p \in Port : Read(p)
<1>1. ASSUME NEW e \in End, Handle(e[1], e[2]), UNCHANGED coreVars
      PROVE  \/ Quiet
             \/ \E i \in Inv, n \in Node :
                  <<i, n>> \in End /\ HandleUserMessage(i, n) /\ UNCHANGED coreVars
  <2>1. e[1] \in Inv /\ e[2] \in Node /\ <<e[1], e[2]>> \in End
    BY DEF End
  <2> QED
    BY <1>1, <2>1, QuietHandle DEF Handle
<1>2. ASSUME NEW n \in Node, IoContinue(n), UNCHANGED coreVars PROVE Quiet
  BY <1>2, QuietContinue
<1>3. ASSUME App
      PROVE  \/ Quiet
             \/ \E p \in Port, m \in Msg : Write(p, m)
             \/ \E n \in Node : WriteForward(n)
             \/ \E p \in Port : Read(p)
  BY <1>3, QuietCalls, QuietExtract, QuietSendInvitation, QuietSendRequest DEF App
<1>4. CASE UNCHANGED vars
  BY <1>4, QuietCalls
<1> QED
  BY <1>1, <1>2, <1>3, <1>4 DEF Next, Io


-----------------------------------------------------------------------------
(* MessagesInv.                                                              *)

\* u is on its way to the right process.
SentRight(u, n) ==
    /\ written[u.data] = u.from
    /\ peerNode[u.from] = n
    /\ u.to \in {peerPort[u.from], Sibling(u.from)}
    /\ Owner(u.from) # n

LEMMA InFlightAt ==
    ASSUME NEW e \in End, NEW u
    PROVE  /\ u \in InFlight(e[1], e[2]) /\ u.type = "UserMessage" <=> \E k \in Nat : UserAt(e, k, u)
           /\ u \in InFlight(e[1], e[2])' /\ u.type = "UserMessage" <=>
                \E k \in Nat : UserAt(e, k, u)'
<1>1. e = <<e[1], e[2]>>
  BY DEF End
<1> QED
  BY <1>1 DEF InFlight, UserAt

LEMMA SentRightAt ==
    /\ Addressed /\ AwayInv => \A e \in End, k \in Nat : \A u : UserAt(e, k, u) => SentRight(u, e[2])
    /\ (\A e \in End, k \in Nat : \A u : UserAt(e, k, u)' => SentRight(u, e[2])')
         => Addressed' /\ AwayInv'
<1>1. ASSUME Addressed, AwayInv, NEW e \in End, NEW k \in Nat, NEW u, UserAt(e, k, u)
      PROVE  SentRight(u, e[2])
  <2>1. u \in InFlight(e[1], e[2]) /\ u.type = "UserMessage"
    BY <1>1, InFlightAt
  <2> QED
    BY <1>1, <2>1 DEF Addressed, AwayInv, SentRight
<1>2. ASSUME \A e \in End, k \in Nat : \A u : UserAt(e, k, u)' => SentRight(u, e[2])',
             NEW e \in End, NEW u, u \in InFlight(e[1], e[2])', u.type = "UserMessage"
      PROVE  SentRight(u, e[2])'
  <2>1. \E k \in Nat : UserAt(e, k, u)'
    BY <1>2, InFlightAt
  <2> QED
    BY <1>2, <2>1
<1>3. (\A e \in End, k \in Nat : \A u : UserAt(e, k, u)' => SentRight(u, e[2])') => Addressed' /\ AwayInv'
  BY <1>2 DEF Addressed, AwayInv, SentRight, Owner
<1> QED
  BY <1>1, <1>3

LEMMA UserAtFacts ==
    ASSUME TypeOK, NEW e \in End, NEW k \in Nat, NEW u, UserAt(e, k, u)
    PROVE  /\ u \in Message /\ u.from \in Port /\ u.to \in PortName /\ u.data \in Msg
           /\ e[2] \in Node
<1>1. chan[e] \in Seq(Message) /\ e[2] \in Node
  BY DEF TypeOK, NodeTypeOK, End
<1>2. u \in Message /\ u.type = "UserMessage"
  BY <1>1 DEF UserAt
<1> QED
  BY <1>1, <1>2 DEF Message

\* The address of a port whose process sends to another one was read in or after a merge.
LEMMA AddressKept ==
    ASSUME TypeOK, HandshakeInv, PeersInv, PortsInv, [Next]_vars, NEW p \in Port, NEW n \in Node,
           peerNode[p] = n, Owner(p) # n, NEW q, q \in {peerPort[p], Sibling(p)}
    PROVE  peerNode'[p] = n /\ q \in {peerPort'[p], Sibling(p)} /\ p[1] \in made
<1>1. p[1] \in made
  BY PairFacts, NoneFacts DEF PortsInv, PairInv, Fresh
<1>2. AddressesKept
  BY AddressesKeptStep
<1> QED
  BY <1>1, <1>2 DEF AddressesKept

\* MessagesInv holds after a step if it does for what the step adds.
LEMMA MessagesKept ==
    ASSUME TypeOK, HandshakeInv, PeersInv, PortsInv, MessagesInv, [Next]_vars,
           \A m \in Msg : written[m] # None => written'[m] = written[m],
           \A n \in Node :
             (app'[n].step = "write" => app'[n] = app[n]) \/ WritingInv(n)',
           \A e \in End, k \in Nat : \A u :
             UserAt(e, k, u)' => (\E l \in Nat : UserAt(e, l, u)) \/ SentRight(u, e[2])',
           \A m \in Msg, p \in Port :
             (got[m] = p \/ m \in Queued(p))' => (got[m] = p \/ m \in Queued(p)) \/ ArrivedInv(m, p)'
    PROVE  MessagesInv'
<1>1. ASSUME NEW n \in Node PROVE WritingInv(n)'
  <2>1. CASE app'[n].step = "write" => app'[n] = app[n]
    <3> SUFFICES ASSUME app'[n].step = "write" PROVE WritingInv(n)'
      BY DEF WritingInv
    <3>1. PICK w : w = app[n]
      OBVIOUS
    <3>2. app'[n] = w /\ w.step = "write" /\ w.from \in Port /\ w.data \in Msg
      BY <2>1, <3>1 DEF TypeOK, NodeTypeOK, AppState
    <3>3. written[w.data] = w.from /\ w.to \in {peerPort[w.from], Sibling(w.from)} /\ w.from[1] \in made
      BY <3>1, <3>2 DEF MessagesInv, WritingInv, PortsInv, PipesInv
    <3>4. written'[w.data] = w.from
      BY <3>2, <3>3, NoneFacts
    <3>5. w.to \in {peerPort'[w.from], Sibling(w.from)}
      BY <3>2, <3>3, AddressesKeptStep DEF AddressesKept
    <3> QED
      BY <3>2, <3>4, <3>5 DEF WritingInv
  <2> QED
    BY <2>1
<1>2. ASSUME NEW e \in End, NEW k \in Nat, NEW u, UserAt(e, k, u) PROVE SentRight(u, e[2])'
  <2>1. u.from \in Port /\ u.data \in Msg /\ e[2] \in Node
    BY <1>2, UserAtFacts
  <2>2. SentRight(u, e[2])
    BY <1>2, SentRightAt DEF MessagesInv
  <2>3. PICK n, p, q : n \in Node /\ p \in Port /\ n = e[2] /\ p = u.from /\ q = u.to
    BY <2>1
  <2>4. peerNode[p] = n /\ Owner(p) # n /\ q \in {peerPort[p], Sibling(p)} /\ written[u.data] = p
    BY <2>2, <2>3 DEF SentRight
  <2>5. peerNode'[p] = n /\ q \in {peerPort'[p], Sibling(p)} /\ p[1] \in made
    BY <2>3, <2>4, AddressKept
  <2>6. written'[u.data] = p
    BY <2>1, <2>3, <2>4, NoneFacts
  <2> QED
    BY <2>3, <2>4, <2>5, <2>6 DEF SentRight, Owner
<1>3. Addressed' /\ AwayInv'
  BY <1>2, SentRightAt
<1>4. ASSUME NEW m \in Msg, NEW p \in Port PROVE ArrivedInv(m, p)'
  <2>1. CASE ~ (got[m] = p \/ m \in Queued(p))'
    BY <2>1 DEF ArrivedInv
  <2>2. CASE got[m] = p \/ m \in Queued(p)
    <3>1. PICK r : r = written[m]
      OBVIOUS
    <3>2. r \in Port /\ Linked(r) /\ peerPort[r] = p
      BY <2>2, <3>1 DEF MessagesInv, ArrivedInv
    <3>3. Linked(r)' /\ peerPort'[r] = p
      BY <3>2, LinksKept
    <3>4. written'[m] = r
      BY <3>1, <3>2, NoneFacts
    <3> QED
      BY <3>2, <3>3, <3>4 DEF ArrivedInv, Linked
  <2> QED
    BY <2>1, <2>2
<1> QED
  BY <1>1, <1>3, <1>4 DEF MessagesInv

LEMMA MessagesQuiet ==
    ASSUME TypeOK, HandshakeInv, PeersInv, PortsInv, MessagesInv, [Next]_vars, Quiet
    PROVE  MessagesInv'
<1>1. PICK d \in [End -> Nat] : UsersMove(d)
  BY DEF Quiet
<1>2. \A e \in End, k \in Nat : k + d[e] \in Nat
  OBVIOUS
<1>3. \A e \in End, k \in Nat : \A u : UserAt(e, k, u)' => \E l \in Nat : UserAt(e, l, u)
  BY <1>1, <1>2 DEF UsersMove
<1>4. \A n \in Node : app'[n].step = "write" => app'[n] = app[n]
  BY DEF Quiet, WritersSame
<1>5. UNCHANGED <<queue, written, got>>
  BY DEF Quiet
<1>6. \A m \in Msg, p \in Port : (got[m] = p \/ m \in Queued(p))' => got[m] = p \/ m \in Queued(p)
  BY <1>5 DEF Queued
<1> QED
  BY <1>3, <1>4, <1>5, <1>6, MessagesKept

\* Steps that add no message to a channel, and none to a queue.
LEMMA ChannelsSame ==
    ASSUME UNCHANGED chan
    PROVE  \A e \in End, k \in Nat : \A u : UserAt(e, k, u)' => UserAt(e, k, u)
BY DEF UserAt

LEMMA MessagesWrite ==
    ASSUME TypeOK, HandshakeInv, PeersInv, PortsInv, MessagesInv, [Next]_vars,
           NEW p \in Port, NEW m \in Msg, Write(p, m)
    PROVE  MessagesInv'
<1>1. PICK n \in Node : n = Owner(p)
  BY PairFacts DEF Owner
<1>2. PICK w : w = [step |-> "write", from |-> p, to |-> peerPort[p], data |-> m]
  OBVIOUS
<1>3. /\ app' = [app EXCEPT ![n] = w] /\ written[m] = None /\ written' = [written EXCEPT ![m] = p]
      /\ UNCHANGED <<portVars, chan, got>>
  BY <1>1, <1>2 DEF Write, GoApp
<1>4. app'[n] = w /\ \A o \in Node : o # n => app'[o] = app[o]
  BY <1>3 DEF TypeOK, NodeTypeOK
<1>5. written'[m] = p /\ \A o \in Msg : o # m => written'[o] = written[o]
  BY <1>3 DEF TypeOK, CoreTypeOK
<1>6. w.from = p /\ w.to = peerPort[p] /\ w.data = m /\ peerPort'[p] = peerPort[p]
  BY <1>2, <1>3 DEF portVars
<1>7. WritingInv(n)'
  BY <1>4, <1>5, <1>6 DEF WritingInv
<1>8. \A o \in Node : (app'[o].step = "write" => app'[o] = app[o]) \/ WritingInv(o)'
  BY <1>4, <1>7
<1>9. \A o \in Msg, q \in Port : (got[o] = q \/ o \in Queued(q))' => got[o] = q \/ o \in Queued(q)
  BY <1>3 DEF Queued, portVars
<1> QED
  BY <1>3, <1>5, <1>8, <1>9, ChannelsSame, MessagesKept

\* What WriteForward sends.
LEMMA ForwardSends ==
    ASSUME TypeOK, HandshakeInv, PeersInv, PortsInv, NEW n \in Node, WriteForward(n),
           NEW w, w = app[n]
    PROVE  /\ w.step = "write" /\ w.from \in Port /\ w.to \in PortName /\ w.data \in Msg
           /\ w.from[1] \in made /\ Owner(w.from) = n
           /\ app' = [app EXCEPT ![n] = Idle] /\ app'[n] = Idle
           /\ UNCHANGED <<portVars, coreVars, io>>
           /\ \/ UNCHANGED chan
              \/ \E e \in End, u \in Message :
                   /\ chan' = [chan EXCEPT ![e] = Append(@, u)]
                   /\ e[2] = peerNode[w.from] /\ e[2] # n
                   /\ u.type = "UserMessage" /\ u.from = w.from /\ u.to = w.to /\ u.data = w.data
<1>1. /\ w.step = "write" /\ w.from \in Port /\ w.to \in PortName /\ w.data \in Msg
      /\ w.from[1] \in made /\ Owner(w.from) = n
  BY DEF WriteForward, AppAt, AppState, TypeOK, NodeTypeOK, PortsInv, PipesInv
<1>2. /\ app' = [app EXCEPT ![n] = Idle] /\ app'[n] = Idle
      /\ UNCHANGED <<portVars, coreVars, io>>
  BY DEF WriteForward, GoApp, TypeOK, NodeTypeOK
<1>3. \/ UNCHANGED chan
      \/ \E e \in End, u \in Message :
           /\ chan' = [chan EXCEPT ![e] = Append(@, u)]
           /\ e[2] = peerNode[w.from] /\ e[2] # n
           /\ u.type = "UserMessage" /\ u.from = w.from /\ u.to = w.to /\ u.data = w.data
  <2>1. CASE UNCHANGED chan
    BY <2>1
  <2>2. CASE chan' # chan
    <3>1. PICK e \in End, u \in Message :
             /\ chan' = [chan EXCEPT ![e] = Append(@, u)]
             /\ e[2] = peerNode[w.from] /\ e[2] # n
             /\ u = [type |-> "UserMessage", from |-> w.from, to |-> w.to, data |-> w.data]
      BY <2>2, SendsUserMessage
    <3>2. u.type = "UserMessage" /\ u.from = w.from /\ u.to = w.to /\ u.data = w.data
      BY <3>1
    <3> QED
      BY <3>1, <3>2
  <2> QED
    BY <2>1, <2>2
<1> QED
  BY <1>1, <1>2, <1>3

LEMMA MessagesForward ==
    ASSUME TypeOK, HandshakeInv, PeersInv, PortsInv, MessagesInv, [Next]_vars,
           NEW n \in Node, WriteForward(n)
    PROVE  MessagesInv'
<1>1. PICK w : w = app[n]
  OBVIOUS
<1>2. /\ w.step = "write" /\ w.from \in Port /\ w.data \in Msg /\ Owner(w.from) = n
      /\ app' = [app EXCEPT ![n] = Idle] /\ UNCHANGED <<portVars, coreVars>>
  BY <1>1, ForwardSends
<1>3. written[w.data] = w.from /\ w.to \in {peerPort[w.from], Sibling(w.from)}
  BY <1>1, <1>2 DEF MessagesInv, WritingInv
<1>4. \A o \in Node : app'[o].step = "write" => app'[o] = app[o]
  BY <1>2 DEF Idle, TypeOK, NodeTypeOK
<1>5. ASSUME NEW e \in End, NEW k \in Nat, NEW u, UserAt(e, k, u)'
      PROVE  (\E l \in Nat : UserAt(e, l, u)) \/ SentRight(u, e[2])'
  <2>1. CASE UNCHANGED chan
    BY <1>5, <2>1, ChannelsSame
  <2>2. CASE chan' # chan
    <3>1. PICK f \in End, m \in Message :
             /\ chan' = [chan EXCEPT ![f] = Append(@, m)]
             /\ f[2] = peerNode[w.from] /\ f[2] # n
             /\ m.type = "UserMessage" /\ m.from = w.from /\ m.to = w.to /\ m.data = w.data
      BY <1>1, <2>2, ForwardSends
    <3>2. UserAt(e, k, u) \/ (e = f /\ u = m)
      <4>1. chan' = [chan EXCEPT ![f] = Append(@, m)]
        BY <3>1
      <4>2. \/ UserAt(e, k, u)
            \/ e = f /\ k = Len(chan[f]) + 1 /\ u = m /\ ~ \E v : UserAt(e, k, v)
        BY <1>5, <4>1, UsersSent
      <4> QED
        BY <4>2
    <3>3. UNCHANGED <<written, peerNode, peerPort>>
      BY <1>2 DEF portVars, coreVars
    <3>4. e = f /\ u = m => SentRight(u, e[2])'
      BY <1>2, <1>3, <3>1, <3>3 DEF SentRight
    <3> QED
      BY <3>2, <3>4
  <2> QED
    BY <2>1, <2>2
<1>6. UNCHANGED <<queue, written, got>>
  BY <1>2 DEF portVars, coreVars
<1>7. \A m \in Msg, p \in Port : (got[m] = p \/ m \in Queued(p))' => got[m] = p \/ m \in Queued(p)
  BY <1>6 DEF Queued
<1> QED
  BY <1>4, <1>5, <1>6, <1>7, MessagesKept

\* What HandleUserMessage takes, and what it does when it accepts it.
LEMMA UserArrives ==
    ASSUME TypeOK, HandshakeInv, PeersInv, PortsInv, MessagesInv, NEW i \in Inv, NEW n \in Node,
           <<i, n>> \in End, HandleUserMessage(i, n), UNCHANGED coreVars,
           NEW u, u = Head(chan[<<i, n>>])
    PROVE  /\ chan[<<i, n>>] # <<>> /\ Pop(i, n) /\ UserAt(<<i, n>>, 1, u)
           /\ u.from \in Port /\ u.data \in Msg /\ written[u.data] = u.from
           /\ peerNode[u.from] = n
           /\ UNCHANGED <<app, io, peerNode, peerPort, ports, written, got, made>>
           /\ \/ UNCHANGED queue /\ ~ Registered(n, u.to)
              \/ /\ u.to \in Port /\ Linked(u.from) /\ peerPort[u.from] = u.to
                 /\ queue' = [queue EXCEPT ![u.to] = Append(@, u.data)]
<1>1. /\ chan[<<i, n>>] # <<>> /\ Pop(i, n) /\ u.type = "UserMessage"
      /\ UNCHANGED <<app, io, peerNode, peerPort, ports, written, got, made>>
  BY DEF HandleUserMessage, Receive, AcceptMessage, portVars, coreVars
<1>2. UserAt(<<i, n>>, 1, u)
  <2> DEFINE s == chan[<<i, n>>]
  <2>1. s \in Seq(Message) /\ s # <<>>
    BY <1>1 DEF TypeOK, NodeTypeOK, End
  <2> HIDE DEF s
  <2>2. 1 \in 1 .. Len(s) /\ Head(s) = s[1]
    BY <2>1, EmptySeq, LenProperties, HeadTailProperties
  <2> QED
    BY <1>1, <2>2 DEF UserAt, s
<1>3. u.from \in Port /\ u.data \in Msg /\ u.to \in PortName
  BY <1>2, UserAtFacts
<1>4. SentRight(u, n)
  <2>1. SentRight(u, <<i, n>>[2])
    BY <1>2, SentRightAt DEF MessagesInv
  <2> QED
    BY <2>1
<1>5. CASE Registered(n, u.to)
  <2>1. u.to \in Port /\ Owner(u.to) = n
    BY <1>5 DEF Registered, TypeOK, PortsTypeOK
  <2>2. Owner(Sibling(u.from)) = Owner(u.from)
    BY DEF Owner, Sibling
  <2>3. u.to # Sibling(u.from) /\ peerPort[u.from] = u.to
    BY <1>4, <2>1, <2>2 DEF SentRight
  <2>4. Linked(u.from)
    BY <1>3, <1>4, <2>3, NoneFacts DEF Linked, SentRight
  <2>5. queue' = [queue EXCEPT ![u.to] = Append(@, u.data)]
    BY <1>5 DEF HandleUserMessage, AcceptMessage
  <2> QED
    BY <1>1, <1>2, <1>3, <1>4, <2>1, <2>3, <2>4, <2>5 DEF SentRight
<1>6. CASE ~ Registered(n, u.to)
  <2>1. UNCHANGED queue
    BY <1>6 DEF HandleUserMessage, portVars
  <2> QED
    BY <1>1, <1>2, <1>3, <1>4, <1>6, <2>1 DEF SentRight
<1> QED
  BY <1>5, <1>6

\* The messages in queues, when one arrives and when one is read.
LEMMA QueueArrives ==
    ASSUME TypeOK, NEW q \in Port, NEW o \in Msg, queue' = [queue EXCEPT ![q] = Append(@, o)],
           NEW p \in Port, NEW k \in Nat, NEW m
    PROVE  /\ Queueing(p, k, m) => Queueing(p, k, m)'
           /\ Queueing(p, k, m)' =>
                \/ Queueing(p, k, m)
                \/ p = q /\ k = Len(queue[q]) + 1 /\ m = o
           /\ \E l \in Nat : Queueing(q, l, o)'
<1>1. queue \in [Port -> Seq(Msg)]
  BY DEF TypeOK, PortsTypeOK
<1>2. /\ Len(queue[q]) \in Nat /\ Len(queue'[q]) = Len(queue[q]) + 1
      /\ queue'[q][Len(queue[q]) + 1] = o
      /\ \A j \in 1 .. Len(queue[q]) : queue'[q][j] = queue[q][j]
      /\ p # q => queue'[p] = queue[p]
  BY <1>1, AppendProperties, LenProperties
<1>3. Queueing(p, k, m) => Queueing(p, k, m)'
  BY <1>2 DEF Queueing
<1>4. Queueing(p, k, m)' =>
        \/ Queueing(p, k, m)
        \/ p = q /\ k = Len(queue[q]) + 1 /\ m = o
  BY <1>2 DEF Queueing
<1>5. PICK j \in Nat : j = Len(queue[q]) + 1
  BY <1>2
<1>6. Queueing(q, j, o)'
  BY <1>2, <1>5 DEF Queueing
<1> QED
  BY <1>3, <1>4, <1>5, <1>6

LEMMA QueueReads ==
    ASSUME TypeOK, NEW q \in Port, queue[q] # <<>>, GetNextMessage(q), NEW o, o = Last(queue[q]),
           NEW p \in Port, NEW k \in Nat, NEW m
    PROVE  /\ o \in Msg
           /\ Queueing(q, Len(queue[q]), o) /\ Len(queue[q]) \in Nat
           /\ Queueing(p, k, m)' => Queueing(p, k, m) /\ (p # q \/ k # Len(queue[q]))
           /\ Queueing(p, k, m) =>
                \/ Queueing(p, k, m)'
                \/ p = q /\ k = Len(queue[q]) /\ m = o
<1>1. queue \in [Port -> Seq(Msg)] /\ queue' = [queue EXCEPT ![q] = Front(queue[q])]
  BY DEF TypeOK, PortsTypeOK, GetNextMessage
<1> DEFINE s == queue[q]
<1>2. s \in Seq(Msg) /\ s # <<>> /\ queue'[q] = Front(s) /\ (p # q => queue'[p] = queue[p])
  BY <1>1
<1> HIDE DEF s
<1>3. Len(s) \in Nat /\ Len(s) >= 1 /\ Len(s) \in 1 .. Len(s)
  BY <1>2, EmptySeq, LenProperties
<1>4. Last(s) = s[Len(s)] /\ Last(s) \in Msg
  BY <1>2, <1>3, ElementOfSeq DEF Last
<1>5. Len(Front(s)) = Len(s) - 1 /\ \A j \in 1 .. Len(s) - 1 : Front(s)[j] = s[j]
  <2>1. PICK l \in Nat : l = Len(s) - 1 /\ l + 1 = Len(s)
    BY <1>3
  <2>2. \A j \in 1 .. l : s[j] \in Msg
    BY <1>2, <1>3, <2>1, ElementOfSeq
  <2>3. Front(s) = SubSeq(s, 1, l)
    BY <2>1 DEF Front
  <2>4. /\ Len(SubSeq(s, 1, l)) = IF 1 <= l THEN l - 1 + 1 ELSE 0
        /\ \A j \in 1 .. l - 1 + 1 : SubSeq(s, 1, l)[j] = s[1 + j - 1]
    BY <2>2, SubSeqProperties
  <2>5. Len(SubSeq(s, 1, l)) = l /\ \A j \in 1 .. l : SubSeq(s, 1, l)[j] = s[j]
    BY <2>1, <2>4
  <2> QED
    BY <2>1, <2>3, <2>5
<1>6. o \in Msg /\ Queueing(q, Len(queue[q]), o) /\ Len(queue[q]) \in Nat
  BY <1>3, <1>4 DEF s, Queueing
<1>7. CASE p # q
  BY <1>2, <1>6, <1>7 DEF Queueing
<1>8. CASE p = q
  <2>1. Queueing(p, k, m) <=> k \in 1 .. Len(s) /\ s[k] = m
    BY <1>8 DEF Queueing, s
  <2>2. Queueing(p, k, m)' <=> k \in 1 .. Len(Front(s)) /\ Front(s)[k] = m
    BY <1>2, <1>8 DEF Queueing
  <2>3. Queueing(p, k, m)' => Queueing(p, k, m) /\ k # Len(s)
    BY <1>3, <1>5, <2>1, <2>2
  <2>4. Queueing(p, k, m) => Queueing(p, k, m)' \/ (k = Len(s) /\ m = Last(s))
    BY <1>3, <1>4, <1>5, <2>1, <2>2
  <2> QED
    BY <1>6, <1>8, <2>3, <2>4 DEF s
<1> QED
  BY <1>7, <1>8

LEMMA QueuedAt ==
    ASSUME TypeOK, NEW p \in Port, NEW m
    PROVE  /\ m \in Queued(p) <=> \E k \in Nat : Queueing(p, k, m)
           /\ m \in Queued(p)' <=> \E k \in Nat : Queueing(p, k, m)'
BY DEF Queued, Queueing

LEMMA MessagesUserMessage ==
    ASSUME TypeOK, HandshakeInv, PeersInv, PortsInv, MessagesInv, [Next]_vars,
           NEW i \in Inv, NEW n \in Node, <<i, n>> \in End, HandleUserMessage(i, n),
           UNCHANGED coreVars
    PROVE  MessagesInv'
<1>1. PICK u : u = Head(chan[<<i, n>>])
  OBVIOUS
<1>2. /\ chan[<<i, n>>] # <<>> /\ Pop(i, n)
      /\ u.from \in Port /\ u.data \in Msg /\ written[u.data] = u.from
      /\ UNCHANGED <<app, peerNode, peerPort, written, got>>
  BY <1>1, UserArrives
<1>3. ASSUME NEW e \in End, NEW k \in Nat, NEW v, UserAt(e, k, v)'
      PROVE  \E l \in Nat : UserAt(e, l, v)
  <2>1. PICK l \in Nat : l = k + Up(<<i, n>>)[e]
    BY StillUp
  <2> QED
    BY <1>2, <1>3, <2>1, UsersTaken
<1>4. ASSUME NEW m \in Msg, NEW p \in Port, (got[m] = p \/ m \in Queued(p))'
      PROVE  got[m] = p \/ m \in Queued(p) \/ ArrivedInv(m, p)'
  <2>1. CASE UNCHANGED queue
    BY <1>2, <1>4, <2>1 DEF Queued
  <2>2. CASE queue' # queue
    <3>1. /\ u.to \in Port /\ Linked(u.from) /\ peerPort[u.from] = u.to
          /\ queue' = [queue EXCEPT ![u.to] = Append(@, u.data)]
      BY SMTT(60), <1>1, <2>2, UserArrives
    <3>2. PICK q \in Port, o \in Msg : q = u.to /\ o = u.data
      BY <1>2, <3>1
    <3>3. m \in Queued(p)' => m \in Queued(p) \/ (p = q /\ m = o)
      <4>1. queue' = [queue EXCEPT ![q] = Append(@, o)]
        BY <3>1, <3>2
      <4>2. \A k \in Nat : Queueing(p, k, m)' => Queueing(p, k, m) \/ (p = q /\ m = o)
        BY <4>1, QueueArrives
      <4> QED
        BY <4>2, QueuedAt
    <3>4. p = q /\ m = o => ArrivedInv(m, p)'
      BY <1>2, <3>1, <3>2 DEF ArrivedInv, Linked, Owner, Sibling
    <3> QED
      BY <1>2, <1>4, <3>3, <3>4
  <2> QED
    BY <2>1, <2>2
<1> QED
  BY <1>2, <1>3, <1>4, MessagesKept

LEMMA MessagesRead ==
    ASSUME TypeOK, HandshakeInv, PeersInv, PortsInv, MessagesInv, [Next]_vars,
           NEW q \in Port, Read(q)
    PROVE  MessagesInv'
<1>1. PICK o : o = Last(queue[q])
  OBVIOUS
<1>2. /\ queue[q] # <<>> /\ GetNextMessage(q) /\ got' = [got EXCEPT ![o] = q]
      /\ UNCHANGED <<app, chan, written>>
  BY <1>1 DEF Read, nodeVars
<1>3. o \in Msg /\ o \in Queued(q)
  BY <1>1, <1>2, QueueReads, QueuedAt
<1>4. ASSUME NEW m \in Msg, NEW p \in Port, (got[m] = p \/ m \in Queued(p))'
      PROVE  got[m] = p \/ m \in Queued(p)
  <2>1. got'[m] = p => got[m] = p \/ (m = o /\ p = q)
    BY <1>2, <1>3 DEF TypeOK, CoreTypeOK
  <2>2. \A k \in Nat : Queueing(p, k, m)' => Queueing(p, k, m)
    BY <1>1, <1>2, QueueReads
  <2>3. m \in Queued(p)' => m \in Queued(p)
    BY <2>2, QueuedAt
  <2> QED
    BY <1>3, <1>4, <2>1, <2>3
<1> QED
  BY <1>2, <1>4, ChannelsSame, MessagesKept

LEMMA MessagesStep ==
    TypeOK /\ HandshakeInv /\ PeersInv /\ PortsInv /\ MessagesInv /\ [Next]_vars => MessagesInv'
BY StepKinds, MessagesQuiet, MessagesWrite, MessagesForward, MessagesUserMessage, MessagesRead

LEMMA MessagesStart == Init => MessagesInv
<1> SUFFICES ASSUME Init PROVE MessagesInv
  OBVIOUS
<1>1. /\ \A n \in Node : app[n].step = "idle"
      /\ \A e \in End : chan[e] = <<>>
      /\ \A m \in Msg : got[m] = None
      /\ \A p \in Port : queue[p] = <<>>
  BY DEF Init, PortsInit, NodeInit, Idle, End
<1>2. \A n \in Node : WritingInv(n)
  BY <1>1 DEF WritingInv
<1>3. ASSUME NEW e \in End PROVE InFlight(e[1], e[2]) = {}
  <2>1. <<e[1], e[2]>> \in End
    BY DEF End
  <2>2. Len(chan[<<e[1], e[2]>>]) = 0
    BY <1>1, <2>1
  <2> QED
    BY <2>2 DEF InFlight
<1>4. Addressed /\ AwayInv
  BY <1>3 DEF Addressed, AwayInv
<1>5. \A p \in Port : Queued(p) = {}
  <2>1. \A p \in Port : Len(queue[p]) = 0
    BY <1>1
  <2> QED
    BY <2>1 DEF Queued
<1>6. \A m \in Msg, p \in Port : ArrivedInv(m, p)
  BY <1>1, <1>5, NoneFacts DEF ArrivedInv
<1> QED
  BY <1>2, <1>4, <1>6 DEF MessagesInv

\* Who wrote the messages that are written, on their way, waiting and read, and where these
\* are addressed to.
THEOREM MessagesCorrect == Spec => []MessagesInv
<1>1. Init => MessagesInv
  BY MessagesStart
<1>2. TypeOK /\ HandshakeInv /\ PeersInv /\ PortsInv /\ MessagesInv /\ [Next]_vars => MessagesInv'
  BY MessagesStep
<1> QED
  BY <1>1, <1>2, TypeCorrect, HandshakeCorrect, PeersCorrect, PortsCorrect, PTL DEF Spec

\* SendUserMessageInternal reads the port and then the process of its peer with no lock,
\* while MergePorts stores both: a message that leaves the process goes to the process the
\* port is merged with, at its new port or, torn, at its old one, and at no other.
THEOREM AddressedCorrect == Spec => []Addressed
<1>1. MessagesInv => Addressed
  BY DEF MessagesInv
<1> QED
  BY <1>1, MessagesCorrect, PTL

\* OnUserMessage puts a message only into the queue of the port that is the other end of the
\* one it was written to.
THEOREM DeliveredToPeerCorrect == Spec => []DeliveredToPeer
<1>1. TwoEnds /\ MessagesInv => DeliveredToPeer
  BY DEF TwoEnds, MessagesInv, ArrivedInv, DeliveredToPeer
<1> QED
  BY <1>1, TwoEndsCorrect, MessagesCorrect, PTL

-----------------------------------------------------------------------------
(* PlacesInv.                                                                *)

LEMMA FlyingAt ==
    ASSUME NEW e, NEW k, NEW m
    PROVE  /\ Flying(e, k, m) <=> \E u : UserAt(e, k, u) /\ u.data = m
           /\ Flying(e, k, m)' <=> \E u : UserAt(e, k, u)' /\ u.data = m
BY DEF Flying, UserAt

\* A step that gives m no new place.
LEMMA PlaceKept ==
    ASSUME NEW m \in Msg, InOnePlace(m),
           written'[m] = None => written[m] = None,
           \A n \in Node : Writing(n, m)' => Writing(n, m),
           NEW d \in [End -> Nat],
           \A e \in End, k \in Nat : Flying(e, k, m)' => Flying(e, k + d[e], m),
           \A p \in Port, k \in Nat : Queueing(p, k, m)' => Queueing(p, k, m),
           got'[m] = got[m]
    PROVE  InOnePlace(m)'
<1>1. \A e \in End, k \in Nat : k + d[e] \in Nat
  OBVIOUS
<1>2. \A n, o \in Node : Writing(n, m)' /\ Writing(o, m)' => n = o
  BY DEF InOnePlace
<1>3. ASSUME NEW e \in End, NEW f \in End, NEW k \in Nat, NEW l \in Nat,
             Flying(e, k, m)', Flying(f, l, m)'
      PROVE  e = f /\ k = l
  <2>1. Flying(e, k + d[e], m) /\ Flying(f, l + d[f], m)
    BY <1>3
  <2>2. e = f /\ k + d[e] = l + d[f]
    BY <1>1, <2>1 DEF InOnePlace
  <2> QED
    BY <2>2
<1>4. \A p, q \in Port, k, l \in Nat : Queueing(p, k, m)' /\ Queueing(q, l, m)' => p = q /\ k = l
  BY DEF InOnePlace
<1>5. \A n \in Node : Writing(n, m)' =>
         /\ \A e \in End, k \in Nat : ~ Flying(e, k, m)'
         /\ \A p \in Port, k \in Nat : ~ Queueing(p, k, m)'
         /\ got'[m] = None
  BY <1>1 DEF InOnePlace
<1>6. \A e \in End, k \in Nat : Flying(e, k, m)' =>
         (\A p \in Port, l \in Nat : ~ Queueing(p, l, m)') /\ got'[m] = None
  BY <1>1 DEF InOnePlace
<1>7. \A p \in Port, k \in Nat : Queueing(p, k, m)' => got'[m] = None
  BY DEF InOnePlace
<1>8. written'[m] = None =>
         /\ \A n \in Node : ~ Writing(n, m)'
         /\ \A e \in End, k \in Nat : ~ Flying(e, k, m)'
         /\ \A p \in Port, k \in Nat : ~ Queueing(p, k, m)'
         /\ got'[m] = None
  BY <1>1 DEF InOnePlace
<1> QED
  BY <1>2, <1>3, <1>4, <1>5, <1>6, <1>7, <1>8 DEF InOnePlace

\* The same, when no message moves up in its channel.
LEMMA PlaceStays ==
    ASSUME NEW m \in Msg, InOnePlace(m),
           written'[m] = None => written[m] = None,
           \A n \in Node : Writing(n, m)' => Writing(n, m),
           \A e \in End, k \in Nat : Flying(e, k, m)' => Flying(e, k, m),
           \A p \in Port, k \in Nat : Queueing(p, k, m)' => Queueing(p, k, m),
           got'[m] = got[m]
    PROVE  InOnePlace(m)'
<1>1. Still \in [End -> Nat] /\ \A e \in End, k \in Nat : k + Still[e] = k
  BY DEF Still
<1>2. \A e \in End, k \in Nat : Flying(e, k, m)' => Flying(e, k + Still[e], m)
  BY <1>1
<1> QED
  BY <1>1, <1>2, PlaceKept

LEMMA PlacesQuiet ==
    ASSUME PlacesInv, Quiet
    PROVE  PlacesInv'
<1> SUFFICES ASSUME NEW m \in Msg PROVE InOnePlace(m)'
  BY DEF PlacesInv
<1>1. PICK d \in [End -> Nat] : UsersMove(d)
  BY DEF Quiet
<1>2. \A e \in End, k \in Nat : Flying(e, k, m)' => Flying(e, k + d[e], m)
  BY <1>1, FlyingAt DEF UsersMove
<1>3. \A n \in Node : Writing(n, m)' => Writing(n, m)
  BY DEF Quiet, WritersSame, Writing
<1>4. \A p \in Port, k \in Nat : Queueing(p, k, m)' => Queueing(p, k, m)
  BY DEF Quiet, Queueing
<1>5. InOnePlace(m) /\ got'[m] = got[m] /\ written'[m] = written[m]
  BY DEF PlacesInv, Quiet
<1> QED
  BY <1>2, <1>3, <1>4, <1>5, PlaceKept

LEMMA PlacesWrite ==
    ASSUME TypeOK, PlacesInv, NEW p \in Port, NEW m \in Msg, Write(p, m)
    PROVE  PlacesInv'
<1>1. PICK n \in Node : n = Owner(p)
  BY PairFacts DEF Owner
<1>2. PICK w : w = [step |-> "write", from |-> p, to |-> peerPort[p], data |-> m]
  OBVIOUS
<1>3. /\ app' = [app EXCEPT ![n] = w] /\ written[m] = None /\ written' = [written EXCEPT ![m] = p]
      /\ UNCHANGED <<queue, chan, got>>
  BY <1>1, <1>2 DEF Write, GoApp, portVars
<1>4. app'[n] = w /\ \A o \in Node : o # n => app'[o] = app[o]
  BY <1>3 DEF TypeOK, NodeTypeOK
<1>5. written'[m] = p /\ \A o \in Msg : o # m => written'[o] = written[o]
  BY <1>3 DEF TypeOK, CoreTypeOK
<1>6. w.data = m /\ w.step = "write"
  BY <1>2
<1>7. \A o \in Msg, e \in End, k \in Nat : Flying(e, k, o)' <=> Flying(e, k, o)
  BY <1>3 DEF Flying
<1>8. \A o \in Msg, q \in Port, k \in Nat : Queueing(q, k, o)' <=> Queueing(q, k, o)
  BY <1>3 DEF Queueing
<1>9. \A o \in Msg, k \in Node : Writing(k, o)' => Writing(k, o) \/ (o = m /\ k = n)
  BY <1>4, <1>6 DEF Writing
<1>10. ASSUME NEW o \in Msg, o # m PROVE InOnePlace(o)'
  BY <1>3, <1>5, <1>7, <1>8, <1>9, <1>10, PlaceStays DEF PlacesInv
<1>11. InOnePlace(m)'
  <2>1. /\ \A k \in Node : ~ Writing(k, m)
        /\ \A e \in End, k \in Nat : ~ Flying(e, k, m)
        /\ \A q \in Port, k \in Nat : ~ Queueing(q, k, m)
        /\ got[m] = None
    BY <1>3 DEF PlacesInv, InOnePlace
  <2>2. /\ \A k \in Node : Writing(k, m)' => k = n
        /\ \A e \in End, k \in Nat : ~ Flying(e, k, m)'
        /\ \A q \in Port, k \in Nat : ~ Queueing(q, k, m)'
        /\ got'[m] = None /\ written'[m] # None
    BY <1>3, <1>5, <1>7, <1>8, <1>9, <2>1, NoneFacts
  <2> QED
    BY <2>2 DEF InOnePlace
<1> QED
  BY <1>10, <1>11 DEF PlacesInv

LEMMA PlacesForward ==
    ASSUME TypeOK, HandshakeInv, PeersInv, PortsInv, PlacesInv, NEW n \in Node, WriteForward(n)
    PROVE  PlacesInv'
<1>1. PICK w : w = app[n]
  OBVIOUS
<1>2. /\ w.step = "write" /\ w.data \in Msg
      /\ app' = [app EXCEPT ![n] = Idle] /\ UNCHANGED <<portVars, coreVars>>
  BY <1>1, ForwardSends
<1>3. PICK m \in Msg : m = w.data
  BY <1>2
<1>4. \A o \in Node : /\ o # n => app'[o] = app[o]
                      /\ app'[n].step = "idle"
  BY <1>2 DEF Idle, TypeOK, NodeTypeOK
<1>5. UNCHANGED <<queue, written, got>>
  BY <1>2 DEF portVars, coreVars
<1>6. Writing(n, m)
  BY <1>1, <1>2, <1>3 DEF Writing
<1>7. \A o \in Msg, k \in Node : Writing(k, o)' => Writing(k, o) /\ k # n
  BY <1>4 DEF Writing
<1>8. \A o \in Msg, q \in Port, k \in Nat : Queueing(q, k, o)' <=> Queueing(q, k, o)
  BY <1>5 DEF Queueing
<1>9. \E f, l : \A o \in Msg, e \in End, k \in Nat :
        Flying(e, k, o)' => Flying(e, k, o) \/ (o = m /\ e = f /\ k = l)
  <2>1. CASE UNCHANGED chan
    BY <2>1 DEF Flying
  <2>2. CASE chan' # chan
    <3>1. PICK f \in End, u \in Message :
             /\ chan' = [chan EXCEPT ![f] = Append(@, u)]
             /\ u.type = "UserMessage" /\ u.data = w.data
      BY <1>1, <2>2, ForwardSends
    <3>2. chan' = [chan EXCEPT ![f] = Append(@, u)] /\ u.data = m
      BY <1>3, <3>1
    <3>3. PICK l \in Nat : l = Len(chan[f]) + 1
      BY LenProperties DEF TypeOK, NodeTypeOK, End
    <3>4. \A e \in End, k \in Nat : \A v :
            UserAt(e, k, v)' => UserAt(e, k, v) \/ (e = f /\ k = l /\ v = u)
      <4>1. chan' = [chan EXCEPT ![f] = Append(@, u)]
        BY <3>2
      <4>2. ASSUME NEW e \in End, NEW k \in Nat, NEW v, UserAt(e, k, v)'
            PROVE  \/ UserAt(e, k, v)
                   \/ e = f /\ k = Len(chan[f]) + 1 /\ v = u /\ ~ \E x : UserAt(e, k, x)
        BY <4>1, <4>2, UsersSent
      <4> QED
        BY <3>3, <4>2
    <3> QED
      BY <3>2, <3>4, FlyingAt
  <2> QED
    BY <2>1, <2>2
<1>10. PICK f, l : \A o \in Msg, e \in End, k \in Nat :
         Flying(e, k, o)' => Flying(e, k, o) \/ (o = m /\ e = f /\ k = l)
  BY <1>9
<1>11. ASSUME NEW o \in Msg, o # m PROVE InOnePlace(o)'
  BY <1>5, <1>7, <1>8, <1>10, <1>11, PlaceStays DEF PlacesInv
<1>12. InOnePlace(m)'
  <2>1. /\ \A k \in Node : Writing(k, m) => k = n
        /\ \A e \in End, k \in Nat : ~ Flying(e, k, m)
        /\ \A q \in Port, k \in Nat : ~ Queueing(q, k, m)
        /\ got[m] = None /\ written[m] # None
    BY <1>6 DEF PlacesInv, InOnePlace
  <2>2. /\ \A k \in Node : ~ Writing(k, m)'
        /\ \A e \in End, k \in Nat : Flying(e, k, m)' => e = f /\ k = l
        /\ \A q \in Port, k \in Nat : ~ Queueing(q, k, m)'
        /\ got'[m] = None /\ written'[m] # None
    BY <1>5, <1>7, <1>8, <1>10, <2>1
  <2> QED
    BY <2>2 DEF InOnePlace
<1> QED
  BY <1>11, <1>12 DEF PlacesInv

LEMMA PlacesUserMessage ==
    ASSUME TypeOK, HandshakeInv, PeersInv, PortsInv, MessagesInv, PlacesInv,
           NEW i \in Inv, NEW n \in Node, <<i, n>> \in End, HandleUserMessage(i, n),
           UNCHANGED coreVars
    PROVE  PlacesInv'
<1>1. PICK u : u = Head(chan[<<i, n>>])
  OBVIOUS
<1>2. /\ chan[<<i, n>>] # <<>> /\ Pop(i, n) /\ UserAt(<<i, n>>, 1, u)
      /\ u.from \in Port /\ u.data \in Msg /\ written[u.data] = u.from
      /\ UNCHANGED <<app, written, got>>
  BY <1>1, UserArrives
<1>3. PICK m \in Msg, f \in End : m = u.data /\ f = <<i, n>>
  BY <1>2
<1>4. Flying(f, 1, m)
  BY <1>2, <1>3, FlyingAt
<1>5. Up(f) \in [End -> Nat] /\ Up(f)[f] = 1
  BY <1>3, StillUp
<1>6. \A o \in Msg, e \in End, k \in Nat : Flying(e, k, o)' => Flying(e, k + Up(f)[e], o)
  BY <1>2, <1>3, UsersTaken, FlyingAt
<1>7. \A o \in Msg, k \in Node : Writing(k, o)' <=> Writing(k, o)
  BY <1>2 DEF Writing
<1>8. \E q, j : \A o \in Msg, p \in Port, k \in Nat :
        Queueing(p, k, o)' => Queueing(p, k, o) \/ (o = m /\ p = q /\ k = j)
  <2>1. CASE UNCHANGED queue
    BY <1>2, <2>1 DEF Queueing
  <2>2. CASE queue' # queue
    <3>1. PICK q \in Port : queue' = [queue EXCEPT ![q] = Append(@, m)]
      BY <1>1, <1>3, <2>2, UserArrives
    <3>2. ASSUME NEW o \in Msg, NEW p \in Port, NEW k \in Nat, Queueing(p, k, o)'
          PROVE  Queueing(p, k, o) \/ (o = m /\ p = q /\ k = Len(queue[q]) + 1)
      BY <3>1, <3>2, QueueArrives
    <3>3. PICK j : j = Len(queue[q]) + 1
      OBVIOUS
    <3>4. \A o \in Msg, p \in Port, k \in Nat :
            Queueing(p, k, o)' => Queueing(p, k, o) \/ (o = m /\ p = q /\ k = j)
      BY <3>2, <3>3
    <3> QED
      BY <3>4
  <2> QED
    BY <2>1, <2>2
<1>9. PICK q, j : \A o \in Msg, p \in Port, k \in Nat :
        Queueing(p, k, o)' => Queueing(p, k, o) \/ (o = m /\ p = q /\ k = j)
  BY <1>8
<1>10. ASSUME NEW o \in Msg, o # m PROVE InOnePlace(o)'
  BY <1>2, <1>5, <1>6, <1>7, <1>9, <1>10, PlaceKept DEF PlacesInv
<1>11. InOnePlace(m)'
  <2>1. /\ \A e \in End, k \in Nat : Flying(e, k, m) => e = f /\ k = 1
        /\ \A k \in Node : ~ Writing(k, m)
        /\ \A p \in Port, k \in Nat : ~ Queueing(p, k, m)
        /\ got[m] = None /\ written[m] # None
    BY <1>4 DEF PlacesInv, InOnePlace
  <2>2. ASSUME NEW e \in End, NEW k \in Nat, Flying(e, k, m)' PROVE FALSE
    <3>1. k + Up(f)[e] \in Nat /\ Flying(e, k + Up(f)[e], m)
      BY <1>5, <1>6, <2>2
    <3>2. e = f /\ k + 1 = 1
      BY <1>5, <2>1, <3>1
    <3>3. k \in 1 .. Len(chan'[e])
      BY <2>2 DEF Flying
    <3> QED
      BY <3>2, <3>3
  <2>3. /\ \A k \in Node : ~ Writing(k, m)'
        /\ \A p \in Port, k \in Nat : Queueing(p, k, m)' => p = q /\ k = j
        /\ got'[m] = None /\ written'[m] # None
    BY <1>2, <1>7, <1>9, <2>1
  <2> QED
    BY <2>2, <2>3 DEF InOnePlace
<1> QED
  BY <1>10, <1>11 DEF PlacesInv

LEMMA PlacesRead ==
    ASSUME TypeOK, PlacesInv, NEW q \in Port, Read(q)
    PROVE  PlacesInv'
<1>1. PICK m : m = Last(queue[q])
  OBVIOUS
<1>2. /\ queue[q] # <<>> /\ GetNextMessage(q) /\ got' = [got EXCEPT ![m] = q]
      /\ UNCHANGED <<app, chan, written>>
  BY <1>1 DEF Read, nodeVars
<1>3. PICK l \in Nat : l = Len(queue[q]) /\ m \in Msg /\ Queueing(q, l, m)
  BY <1>1, <1>2, QueueReads
<1>4. got'[m] = q /\ \A o \in Msg : o # m => got'[o] = got[o]
  BY <1>2, <1>3 DEF TypeOK, CoreTypeOK
<1>5. \A o \in Msg, p \in Port, k \in Nat :
        Queueing(p, k, o)' => Queueing(p, k, o) /\ (p # q \/ k # l)
  BY <1>1, <1>2, <1>3, QueueReads
<1>6. \A o \in Msg, k \in Node : Writing(k, o)' <=> Writing(k, o)
  BY <1>2 DEF Writing
<1>7. \A o \in Msg, e \in End, k \in Nat : Flying(e, k, o)' <=> Flying(e, k, o)
  BY <1>2 DEF Flying
<1>8. ASSUME NEW o \in Msg, o # m PROVE InOnePlace(o)'
  BY <1>2, <1>4, <1>5, <1>6, <1>7, <1>8, PlaceStays DEF PlacesInv
<1>9. InOnePlace(m)'
  <2>1. /\ \A e \in End, k \in Nat : ~ Flying(e, k, m)
        /\ \A k \in Node : ~ Writing(k, m)
        /\ \A p \in Port, k \in Nat : Queueing(p, k, m) => p = q /\ k = l
        /\ written[m] # None
    BY <1>3 DEF PlacesInv, InOnePlace
  <2>2. /\ \A e \in End, k \in Nat : ~ Flying(e, k, m)'
        /\ \A k \in Node : ~ Writing(k, m)'
        /\ written'[m] # None
    BY <1>2, <1>3, <1>6, <1>7, <2>1
  <2>3. \A p \in Port, k \in Nat : ~ Queueing(p, k, m)'
    BY <1>3, <1>5, <2>1
  <2> QED
    BY <2>2, <2>3 DEF InOnePlace
<1> QED
  BY <1>3, <1>8, <1>9 DEF PlacesInv

LEMMA PlacesStep ==
    TypeOK /\ HandshakeInv /\ PeersInv /\ PortsInv /\ MessagesInv /\ PlacesInv /\ [Next]_vars
      => PlacesInv'
BY StepKinds, PlacesQuiet, PlacesWrite, PlacesForward, PlacesUserMessage, PlacesRead

LEMMA PlacesStart == Init => PlacesInv
<1> SUFFICES ASSUME Init, NEW m \in Msg PROVE InOnePlace(m)
  BY DEF PlacesInv
<1>1. \A n \in Node : ~ Writing(n, m)
  BY DEF Init, NodeInit, Idle, Writing
<1>2. ASSUME NEW e \in End, NEW k \in Nat, Flying(e, k, m) PROVE FALSE
  <2>1. chan[e] = <<>>
    BY DEF Init, NodeInit, End
  <2>2. Len(chan[e]) = 0
    BY <2>1
  <2> QED
    BY <1>2, <2>2 DEF Flying
<1>3. ASSUME NEW p \in Port, NEW k \in Nat, Queueing(p, k, m) PROVE FALSE
  <2>1. queue[p] = <<>>
    BY DEF Init, PortsInit
  <2>2. Len(queue[p]) = 0
    BY <2>1
  <2> QED
    BY <1>3, <2>2 DEF Queueing
<1>4. got[m] = None
  BY DEF Init
<1> QED
  BY <1>1, <1>2, <1>3, <1>4 DEF InOnePlace

\* No two of the threads, channels, queues and readers ever have the same message.
THEOREM PlacesCorrect == Spec => []PlacesInv
<1>1. Init => PlacesInv
  BY PlacesStart
<1>2. TypeOK /\ HandshakeInv /\ PeersInv /\ PortsInv /\ MessagesInv /\ PlacesInv /\ [Next]_vars
        => PlacesInv'
  BY PlacesStep
<1> QED
  BY <1>1, <1>2, TypeCorrect, HandshakeCorrect, PeersCorrect, PortsCorrect, MessagesCorrect, PTL
     DEF Spec

LEMMA OnePlaceEach ==
    ASSUME NEW m \in Msg, InOnePlace(m), NEW x \in Places(m), NEW y \in Places(m)
    PROVE  x = y
<1>1. \A z \in Places(m) :
        \/ \E n \in Node : z = <<"writing", n>> /\ Writing(n, m)
        \/ \E e \in End, k \in Nat : z = <<"flying", e, k>> /\ Flying(e, k, m)
        \/ \E p \in Port, k \in Nat : z = <<"queued", p, k>> /\ Queueing(p, k, m)
        \/ \E p \in Port : z = <<"read", p>> /\ got[m] = p
  <2> SUFFICES ASSUME NEW z \in Places(m)
               PROVE  \/ \E n \in Node : z = <<"writing", n>> /\ Writing(n, m)
                      \/ \E e \in End, k \in Nat : z = <<"flying", e, k>> /\ Flying(e, k, m)
                      \/ \E p \in Port, k \in Nat : z = <<"queued", p, k>> /\ Queueing(p, k, m)
                      \/ \E p \in Port : z = <<"read", p>> /\ got[m] = p
    OBVIOUS
  <2>1. z \in WritingPlaces(m) => \E n \in Node : z = <<"writing", n>> /\ Writing(n, m)
    BY DEF WritingPlaces, Writing
  <2>2. z \in FlyingPlaces(m) => \E e \in End, k \in Nat : z = <<"flying", e, k>> /\ Flying(e, k, m)
    BY DEF FlyingPlaces, Flying
  <2>3. z \in QueuedPlaces(m) => \E p \in Port, k \in Nat : z = <<"queued", p, k>> /\ Queueing(p, k, m)
    BY DEF QueuedPlaces, Queueing
  <2>4. z \in ReadPlaces(m) => \E p \in Port : z = <<"read", p>> /\ got[m] = p
    BY DEF ReadPlaces
  <2> QED
    BY <2>1, <2>2, <2>3, <2>4 DEF Places
<1>2. CASE \E n \in Node : x = <<"writing", n>> /\ Writing(n, m)
  BY <1>1, <1>2, NoneFacts DEF InOnePlace
<1>3. CASE \E e \in End, k \in Nat : x = <<"flying", e, k>> /\ Flying(e, k, m)
  BY <1>1, <1>3, NoneFacts DEF InOnePlace
<1>4. CASE \E p \in Port, k \in Nat : x = <<"queued", p, k>> /\ Queueing(p, k, m)
  BY <1>1, <1>4, NoneFacts DEF InOnePlace
<1>5. CASE \E p \in Port : x = <<"read", p>> /\ got[m] = p
  BY <1>1, <1>5, NoneFacts DEF InOnePlace
<1> QED
  BY <1>1, <1>2, <1>3, <1>4, <1>5

\* A message that a thread sends, a channel carries or a queue holds is nowhere else, and one
\* that ReadMessage has taken is never found again: nothing is delivered or read twice.
THEOREM AtMostOnceCorrect == Spec => []AtMostOnce
<1>1. PlacesInv => AtMostOnce
  <2> SUFFICES ASSUME PlacesInv, NEW m \in Msg PROVE Cardinality(Places(m)) <= 1
    BY DEF AtMostOnce
  <2>1. CASE Places(m) = {}
    BY <2>1, FS_EmptySet
  <2>2. CASE Places(m) # {}
    <3>1. PICK x : x \in Places(m)
      BY <2>2
    <3>2. Places(m) = {x}
      BY <3>1, OnePlaceEach DEF PlacesInv
    <3> QED
      BY <3>2, FS_Singleton
  <2> QED
    BY <2>1, <2>2
<1> QED
  BY <1>1, PlacesCorrect, PTL

-----------------------------------------------------------------------------
(* Core implements MessagePipe.  A step of Core connects one end, or moves   *)
(* one message, or does nothing that a user of pipes can see.                *)

\* Only the second store of MergePorts connects an end.
LEMMA LinkSteps ==
    ASSUME TypeOK, HandshakeInv, PeersInv, PortsInv, [Next]_vars
    PROVE  \/ \A r \in Port : OtherEnd(r)' = OtherEnd(r)
           \/ \E n \in Node : IoStorePort(n)
<1>1. CASE UNCHANGED <<peerNode, peerPort>>
  BY <1>1 DEF OtherEnd, Linked
<1>2. ASSUME NEW c \in Call, c \notin made, CreatePortPair(c), NEW r \in Port
      PROVE  OtherEnd(r)' = OtherEnd(r)
  <2>1. CASE r[1] = c
    <3>1. ~ Linked(r)'
      BY <1>2, <2>1 DEF Linked, CreatePortPair
    <3>2. peerNode[r] = None
      BY <1>2, <2>1, PairFacts DEF PortsInv, PairInv, Fresh
    <3> QED
      BY <3>1, <3>2 DEF OtherEnd, Linked
  <2>2. CASE r[1] # c
    BY <1>2, <2>2 DEF OtherEnd, Linked, CreatePortPair
  <2> QED
    BY <2>1, <2>2
<1>3. ASSUME NEW c \in Call, NEW node, c \in made, Paired(c), StoreNode(Port1(c), node),
             NEW r \in Port
      PROVE  OtherEnd(r)' = OtherEnd(r)
  <2>1. Points(Port1(c), Port0(c)) /\ Points(Port0(c), Port1(c))
    BY <1>3 DEF PortsInv, PairInv, Paired
  <2>2. UNCHANGED peerPort /\ \A q \in Port : q # Port0(c) => peerNode'[q] = peerNode[q]
    <3>1. /\ UNCHANGED peerPort
          /\ peerNode' = peerNode \/ peerNode' = [peerNode EXCEPT ![Port0(c)] = node]
      BY <1>3, <2>1 DEF StoreNode, Points
    <3> QED
      BY <3>1 DEF TypeOK, PortsTypeOK
  <2>3. peerPort[Port0(c)] = Sibling(Port0(c))
    BY <2>1, PairFacts DEF Points
  <2> QED
    BY <2>2, <2>3 DEF OtherEnd, Linked
<1> QED
  BY <1>1, <1>2, <1>3, AddressSteps

LEMMA ConnectStep ==
    ASSUME TypeOK, HandshakeInv, PeersInv, PortsInv, TwoEnds', [Next]_vars, NEW n \in Node,
           IoStorePort(n)
    PROVE  \E p, q \in Port :
             /\ p # q
             /\ OtherEnd(p)' = q /\ OtherEnd(p) = None
             /\ OtherEnd(q) \in {None, p}
             /\ \A r \in Port : OtherEnd(r) # q
             /\ \A r \in Port : r # p => OtherEnd(r)' = OtherEnd(r)
<1>1. PICK s : s = io[n]
  OBVIOUS
<1>2. s.step = "store_port" /\ StorePort(s.local, s.node, s.port)
  BY <1>1 DEF IoStorePort, IoAt
<1>3. /\ s.port \in Port /\ s.local \in Port /\ s.local[1] \in made /\ Half(s.local[1])
      /\ Owner(s.local) = n /\ s.local[2] = 0 /\ s.node = Owner(s.port) /\ IsPeer(n, s.node)
      /\ Match(s.local, s.port) \/ Match(s.port, s.local)
  BY <1>1, <1>2 DEF PortsInv, IoInv, TypeOK, NodeTypeOK, IoState
<1>4. PICK p \in Port, q \in Port : p = s.local /\ q = s.port
  BY <1>3
<1>5. p[1] # q[1] /\ p[2] = 0 /\ q[2] = 0
  BY <1>3, <1>4, MatchFacts
<1>6. /\ peerNode[p] = Owner(q) /\ peerPort[p] = Sibling(p)
      /\ Owner(q) \in Node /\ Owner(q) # Owner(p)
  <2>1. p = Port0(p[1]) /\ callNode[p[1]] = n /\ s = io[callNode[p[1]]]
    BY <1>1, <1>3, <1>4, PairFacts DEF Owner
  <2> QED
    BY <1>3, <1>4, <2>1, PairFacts DEF Half, IsPeer
<1>7. UNCHANGED peerNode /\ peerPort'[p] = q /\ \A r \in Port : r # p => peerPort'[r] = peerPort[r]
  BY <1>2, <1>4 DEF StorePort, TypeOK, PortsTypeOK
<1>8. ~ Linked(p) /\ Linked(p)'
  BY <1>5, <1>6, <1>7, NoneFacts, PairFacts DEF Linked, Owner, Sibling
<1>9. \A r \in Port : r # p => OtherEnd(r)' = OtherEnd(r)
  BY <1>7 DEF OtherEnd, Linked
<1>10. /\ \A r \in Port : Linked(r)' /\ peerPort'[r] = q => r = p
       /\ Linked(q)' => peerPort'[q] = p
  BY <1>7, <1>8 DEF TwoEnds
<1>11. OtherEnd(q) \in {None, p} /\ \A r \in Port : OtherEnd(r) # q
  BY <1>8, <1>10, LinksKept, NoneFacts DEF OtherEnd
<1> QED
  BY <1>4, <1>5, <1>7, <1>8, <1>9, <1>11 DEF OtherEnd

\* A message that was sent to a connected end.
SentAlong(m) ==
    \E e \in End, k \in Nat : \E u :
      UserAt(e, k, u) /\ u.data = m /\ u.to = peerPort[written[m]]

\* MsgState by what the invariants say of it.
StatesMean ==
    \A m \in Msg :
      LET r == written[m]
      IN  /\ r = None \/ BeingWritten(m) => MsgState(m) = "new"
          /\ r # None /\ ~ BeingWritten(m) =>
               /\ r \in Port
               /\ ~ Linked(r) => MsgState(m) = "lost"
               /\ Linked(r) => MsgState(m) = IF got[m] = peerPort[r] THEN "read"
                                             ELSE IF m \in Queued(peerPort[r]) THEN "ready"
                                             ELSE IF SentAlong(m) THEN "sent"
                                             ELSE "lost"

LEMMA StatesMeanThis == TypeOK /\ PortsInv /\ MessagesInv => StatesMean
<1> SUFFICES ASSUME TypeOK, PortsInv, MessagesInv, NEW m \in Msg, NEW r, r = written[m], r # None,
                    ~ BeingWritten(m)
             PROVE  /\ r \in Port
                    /\ ~ Linked(r) => MsgState(m) = "lost"
                    /\ Linked(r) => MsgState(m) = IF got[m] = peerPort[r] THEN "read"
                                                  ELSE IF m \in Queued(peerPort[r]) THEN "ready"
                                                  ELSE IF SentAlong(m) THEN "sent"
                                                  ELSE "lost"
  BY DEF StatesMean, MsgState
<1>1. r \in Port
  BY DEF TypeOK, CoreTypeOK, PortName
<1>2. OnItsWay(m) <=> Linked(r) /\ SentAlong(m)
  <2>1. ASSUME NEW e \in End, NEW k \in Nat, NEW u, UserAt(e, k, u), u.data = m
        PROVE  u.from = r
    BY <2>1, SentRightAt DEF MessagesInv, SentRight
  <2>2. OnItsWay(m) <=>
          \E e \in End, k \in Nat : \E u :
            UserAt(e, k, u) /\ u.data = m /\ Linked(u.from) /\ u.to = peerPort[u.from]
    BY InFlightAt DEF OnItsWay
  <2> QED
    BY <2>1, <2>2 DEF SentAlong
<1>3. CASE Linked(r)
  <2>1. peerPort[r] \in Port
    BY <1>1, <1>3, LinkedPeer
  <2> QED
    BY <1>1, <1>2, <1>3, <2>1, NoneFacts DEF MsgState, OtherEnd
<1>4. CASE ~ Linked(r)
  BY <1>1, <1>2, <1>4 DEF MsgState, OtherEnd
<1> QED
  BY <1>1, <1>3, <1>4

\* A step that does not touch m leaves its state, also one that connects the end it was
\* written to: what was written there before went to the old peer.
LEMMA StateKept ==
    ASSUME TypeOK, HandshakeInv, PeersInv, PortsInv, MessagesInv, StatesMean, StatesMean',
           TwoEnds', [Next]_vars, NEW m \in Msg,
           written'[m] = written[m], got'[m] = got[m], BeingWritten(m)' <=> BeingWritten(m),
           \A p \in Port : m \in Queued(p)' <=> m \in Queued(p),
           \A e \in End, k \in Nat : \A u : u.data = m =>
             /\ UserAt(e, k, u)' => \E l \in Nat : UserAt(e, l, u)
             /\ UserAt(e, k, u) => \E l \in Nat : UserAt(e, l, u)'
    PROVE  MsgState(m)' = MsgState(m)
<1>1. PICK r : r = written[m] /\ r = written'[m]
  OBVIOUS
<1>2. CASE r = None \/ BeingWritten(m)
  BY <1>1, <1>2 DEF StatesMean
<1>3. CASE r # None /\ ~ BeingWritten(m)
  <2>1. r \in Port
    BY <1>1, <1>3 DEF StatesMean
  <2>2. CASE Linked(r)
    <3>1. Linked(r)' /\ peerPort'[r] = peerPort[r]
      BY <2>1, <2>2, LinksKept
    <3>2. PICK q \in Port : q = peerPort[r] /\ q = peerPort'[r]
      BY <2>1, <2>2, <3>1, LinkedPeer
    <3>3. /\ SentAlong(m) <=> \E e \in End, k \in Nat : \E u : UserAt(e, k, u) /\ u.data = m /\ u.to = q
          /\ SentAlong(m)' <=> \E e \in End, k \in Nat : \E u : UserAt(e, k, u)' /\ u.data = m /\ u.to = q
      BY <1>1, <3>2 DEF SentAlong
    <3>4. SentAlong(m)' <=> SentAlong(m)
      BY <3>3
    <3>5. MsgState(m) = IF got[m] = q THEN "read" ELSE IF m \in Queued(q) THEN "ready"
                        ELSE IF SentAlong(m) THEN "sent" ELSE "lost"
      BY <1>1, <1>3, <2>2, <3>2 DEF StatesMean
    <3>6. MsgState(m)' = IF got'[m] = q THEN "read" ELSE IF m \in Queued(q)' THEN "ready"
                         ELSE IF SentAlong(m)' THEN "sent" ELSE "lost"
      BY <1>1, <1>3, <3>1, <3>2 DEF StatesMean
    <3> QED
      BY <3>2, <3>4, <3>5, <3>6
  <2>3. CASE ~ Linked(r)
    <3>1. MsgState(m) = "lost"
      BY <1>1, <1>3, <2>3 DEF StatesMean
    <3>2. CASE ~ Linked(r)'
      BY <1>1, <1>3, <3>1, <3>2 DEF StatesMean
    <3>3. CASE Linked(r)'
      <4>1. \A p \in Port : got[m] # p /\ m \notin Queued(p)
        BY <1>1, <2>3 DEF MessagesInv, ArrivedInv
      <4>2. ASSUME NEW e \in End, NEW k \in Nat, NEW u, UserAt(e, k, u)', u.data = m,
                   u.to = peerPort'[r]
            PROVE  FALSE
        <5>1. PICK l \in Nat : UserAt(e, l, u)
          BY <4>2
        <5>2. SentRight(u, e[2]) /\ e[2] \in Node
          BY <5>1, SentRightAt, UserAtFacts DEF MessagesInv
        <5>3. u.from = r /\ peerNode[r] = e[2] /\ u.to \in {peerPort[r], Sibling(r)} /\ Owner(r) # e[2]
          BY <1>1, <4>2, <5>2 DEF SentRight
        <5>4. peerPort[r] = Sibling(r)
          BY <2>3, <5>2, <5>3, NoneFacts DEF Linked
        <5> QED
          BY <3>3, <4>2, <5>3, <5>4 DEF Linked
      <4>3. ~ SentAlong(m)'
        BY <1>1, <4>2 DEF SentAlong
      <4>4. PICK q : q = peerPort'[r]
        OBVIOUS
      <4>5. q \in Port
        <5>1. TypeOK' /\ q \in ports'
          BY <2>1, <3>3, <4>4, TypeStep DEF TwoEnds, Registered
        <5> QED
          BY <5>1 DEF TypeOK, PortsTypeOK
      <4>6. MsgState(m)' = IF got'[m] = q THEN "read" ELSE IF m \in Queued(q)' THEN "ready"
                           ELSE IF SentAlong(m)' THEN "sent" ELSE "lost"
        BY <1>1, <1>3, <3>3, <4>4 DEF StatesMean
      <4> QED
        BY <3>1, <4>1, <4>3, <4>4, <4>5, <4>6
    <3> QED
      BY <3>2, <3>3
  <2> QED
    BY <2>2, <2>3
<1> QED
  BY <1>2, <1>3

PipeInv ==
    /\ TypeOK /\ HandshakeInv /\ PeersInv /\ PortsInv /\ MessagesInv /\ PlacesInv /\ TwoEnds
    /\ StatesMean

LEMMA PipeVars ==
    /\ \A p \in Port : PipeOther[p] = OtherEnd(p) /\ PipeOther'[p] = OtherEnd(p)'
    /\ \A m \in Msg : PipeState[m] = MsgState(m) /\ PipeState'[m] = MsgState(m)'
    /\ \A m \in Msg : /\ PipeFrom[m] = IF MsgState(m) = "new" THEN None ELSE written[m]
                      /\ PipeFrom'[m] = IF MsgState(m)' = "new" THEN None ELSE written'[m]
BY DEF PipeOther, PipeState, PipeFrom

LEMMA EndsSame ==
    ASSUME \A p \in Port : OtherEnd(p)' = OtherEnd(p)
    PROVE  PipeOther' = PipeOther
BY DEF PipeOther

LEMMA EndChanges ==
    ASSUME NEW p \in Port, \A r \in Port : r # p => OtherEnd(r)' = OtherEnd(r), NEW q,
           OtherEnd(p)' = q
    PROVE  PipeOther' = [PipeOther EXCEPT ![p] = q]
<1>1. PipeOther' = [r \in Port |-> OtherEnd(r)']
  BY DEF PipeOther
<1>2. [PipeOther EXCEPT ![p] = q] = [r \in Port |-> IF r = p THEN q ELSE OtherEnd(r)]
  BY DEF PipeOther
<1> QED
  BY <1>1, <1>2

LEMMA StatesSame ==
    ASSUME \A m \in Msg : /\ MsgState(m)' = MsgState(m)
                          /\ MsgState(m) = "new" \/ written'[m] = written[m]
    PROVE  UNCHANGED <<PipeState, PipeFrom>>
BY DEF PipeState, PipeFrom

LEMMA StateChanges ==
    ASSUME NEW m \in Msg,
           \A o \in Msg : o # m => MsgState(o)' = MsgState(o) /\ written'[o] = written[o],
           NEW s, MsgState(m)' = s, s # "new"
    PROVE  /\ PipeState' = [PipeState EXCEPT ![m] = s]
           /\ PipeFrom' = [PipeFrom EXCEPT ![m] = written'[m]]
<1>1. PipeState' = [o \in Msg |-> MsgState(o)']
  BY DEF PipeState
<1>2. [PipeState EXCEPT ![m] = s] = [o \in Msg |-> IF o = m THEN s ELSE MsgState(o)]
  BY DEF PipeState
<1>3. PipeFrom' = [o \in Msg |-> IF MsgState(o)' = "new" THEN None ELSE written'[o]]
  BY DEF PipeFrom
<1>4. [PipeFrom EXCEPT ![m] = written'[m]] =
        [o \in Msg |-> IF o = m THEN written'[m] ELSE IF MsgState(o) = "new" THEN None ELSE written[o]]
  BY DEF PipeFrom
<1> QED
  BY <1>1, <1>2, <1>3, <1>4

LEMMA PipeQuiet ==
    ASSUME PipeInv, PipeInv', [Next]_vars, Quiet
    PROVE  [Pipe!Next]_(Pipe!vars)
<1>1. PICK d \in [End -> Nat] : UsersMove(d)
  BY DEF Quiet
<1>2. \A e \in End, k \in Nat : k + d[e] \in Nat
  OBVIOUS
<1>3. ASSUME NEW m \in Msg PROVE MsgState(m)' = MsgState(m)
  <2>1. \A e \in End, k \in Nat : \A u : u.data = m =>
          /\ UserAt(e, k, u)' => \E l \in Nat : UserAt(e, l, u)
          /\ UserAt(e, k, u) => \E l \in Nat : UserAt(e, l, u)'
    BY <1>1, <1>2 DEF UsersMove
  <2>2. BeingWritten(m)' <=> BeingWritten(m)
    BY DEF Quiet, WritersSame, BeingWritten
  <2>3. \A p \in Port : m \in Queued(p)' <=> m \in Queued(p)
    BY DEF Quiet, Queued
  <2> QED
    BY <2>1, <2>2, <2>3, StateKept DEF PipeInv, Quiet
<1>4. UNCHANGED <<PipeState, PipeFrom>>
  BY <1>3, StatesSame DEF Quiet
<1>5. CASE \A r \in Port : OtherEnd(r)' = OtherEnd(r)
  BY <1>4, <1>5, EndsSame DEF Pipe!vars
<1>6. ASSUME NEW n \in Node, IoStorePort(n) PROVE Pipe!Next
  <2>1. PICK p \in Port, q \in Port :
          /\ p # q
          /\ OtherEnd(p)' = q /\ OtherEnd(p) = None
          /\ OtherEnd(q) \in {None, p}
          /\ \A r \in Port : OtherEnd(r) # q
          /\ \A r \in Port : r # p => OtherEnd(r)' = OtherEnd(r)
    BY <1>6, ConnectStep DEF PipeInv
  <2>2. PipeOther' = [PipeOther EXCEPT ![p] = q]
    BY <2>1, EndChanges
  <2>3. Pipe!Connect(p, q)
    BY <1>4, <2>1, <2>2, PipeVars DEF Pipe!Connect
  <2> QED
    BY <2>3 DEF Pipe!Next
<1> QED
  BY <1>5, <1>6, LinkSteps DEF PipeInv

LEMMA AddressesStay ==
    ASSUME UNCHANGED <<peerNode, peerPort>>
    PROVE  (\A p \in Port : Linked(p)' <=> Linked(p)) /\ PipeOther' = PipeOther
<1>1. \A p \in Port : (Linked(p)' <=> Linked(p)) /\ OtherEnd(p)' = OtherEnd(p)
  BY DEF OtherEnd, Linked
<1> QED
  BY <1>1, EndsSame

\* SendUserMessageInternal has the port of its peer, not yet the process: nothing is sent.
LEMMA PipeWrite ==
    ASSUME PipeInv, PipeInv', [Next]_vars, NEW p \in Port, NEW m \in Msg, Write(p, m)
    PROVE  UNCHANGED Pipe!vars
<1>1. PICK n \in Node : n = Owner(p)
  BY PairFacts DEF Owner
<1>2. PICK w : w = [step |-> "write", from |-> p, to |-> peerPort[p], data |-> m]
  OBVIOUS
<1>3. /\ app[n].step = "idle" /\ app' = [app EXCEPT ![n] = w]
      /\ written[m] = None /\ written' = [written EXCEPT ![m] = p]
      /\ UNCHANGED <<portVars, chan, got>>
  BY <1>1, <1>2 DEF Write, AppReady, AppAt, GoApp
<1>4. app'[n] = w /\ \A o \in Node : o # n => app'[o] = app[o]
  BY <1>3 DEF PipeInv, TypeOK, NodeTypeOK
<1>5. written'[m] = p /\ \A o \in Msg : o # m => written'[o] = written[o]
  BY <1>3 DEF PipeInv, TypeOK, CoreTypeOK
<1>6. w.data = m /\ w.step = "write"
  BY <1>2
<1>7. BeingWritten(m)' /\ \A o \in Msg : o # m => (BeingWritten(o)' <=> BeingWritten(o))
  BY <1>3, <1>4, <1>6 DEF BeingWritten
<1>8. MsgState(m) = "new" /\ MsgState(m)' = "new"
  BY <1>3, <1>7 DEF PipeInv, StatesMean
<1>9. ASSUME NEW o \in Msg, o # m PROVE MsgState(o)' = MsgState(o)
  <2>1. \A q \in Port : o \in Queued(q)' <=> o \in Queued(q)
    BY <1>3 DEF Queued, portVars
  <2>2. \A e \in End, k \in Nat : \A u : u.data = o =>
          /\ UserAt(e, k, u)' => \E l \in Nat : UserAt(e, l, u)
          /\ UserAt(e, k, u) => \E l \in Nat : UserAt(e, l, u)'
    BY <1>3 DEF UserAt
  <2> QED
    BY <1>3, <1>5, <1>7, <1>9, <2>1, <2>2, StateKept DEF PipeInv
<1>10. UNCHANGED <<PipeState, PipeFrom>>
  BY <1>5, <1>8, <1>9, StatesSame
<1>11. PipeOther' = PipeOther
  BY <1>3, AddressesStay DEF portVars
<1> QED
  BY <1>10, <1>11 DEF Pipe!vars

LEMMA PipeForward ==
    ASSUME PipeInv, PipeInv', [Next]_vars, NEW n \in Node, WriteForward(n)
    PROVE  Pipe!Next
<1>1. PICK w : w = app[n]
  OBVIOUS
<1>2. /\ w.step = "write" /\ w.data \in Msg /\ w.from \in Port
      /\ app' = [app EXCEPT ![n] = Idle] /\ UNCHANGED <<portVars, coreVars>>
  BY <1>1, ForwardSends DEF PipeInv
<1>3. PICK m \in Msg, p \in Port : m = w.data /\ p = w.from
  BY <1>2
<1>4. /\ \A o \in Node : o # n => app'[o] = app[o]
      /\ app'[n].step = "idle"
  BY <1>2 DEF Idle, PipeInv, TypeOK, NodeTypeOK
<1>5. UNCHANGED <<queue, written, got, peerNode, peerPort>>
  BY <1>2 DEF portVars, coreVars
<1>6. Writing(n, m) /\ InOnePlace(m)
  BY <1>1, <1>2, <1>3 DEF Writing, PipeInv, PlacesInv
<1>7. BeingWritten(m) /\ ~ BeingWritten(m)'
  <2>1. \A o \in Node : Writing(o, m) => o = n
    BY <1>6 DEF InOnePlace
  <2> QED
    BY <1>4, <1>6, <2>1 DEF BeingWritten, Writing
<1>8. \A o \in Msg : o # m => (BeingWritten(o)' <=> BeingWritten(o))
  BY <1>1, <1>3, <1>4 DEF BeingWritten
<1>9. written[m] = p /\ written'[m] = p /\ p # None
  BY <1>1, <1>2, <1>3, <1>5, NoneFacts DEF PipeInv, MessagesInv, WritingInv
<1>10. (\A q \in Port : Linked(q)' <=> Linked(q)) /\ PipeOther' = PipeOther
  BY <1>5, AddressesStay
<1>11. MsgState(m) = "new"
  BY <1>7 DEF PipeInv, StatesMean
<1>12. (Linked(p) /\ MsgState(m)' = "sent") \/ MsgState(m)' = "lost"
  <2>1. got'[m] = None /\ \A q \in Port : m \notin Queued(q)
    BY <1>5, <1>6, QueuedAt DEF InOnePlace, PipeInv
  <2>2. ~ Linked(p) => MsgState(m)' = "lost"
    BY <1>7, <1>9, <1>10 DEF PipeInv, StatesMean
  <2>3. CASE Linked(p)
    <3>1. PICK q \in Port : q = peerPort[p] /\ q = peerPort'[p]
      BY <1>5, <2>3, LinkedPeer DEF PipeInv
    <3>2. m \notin Queued(q)'
      BY <1>5, <2>1 DEF Queued
    <3>3. MsgState(m)' = IF got'[m] = q THEN "read" ELSE IF m \in Queued(q)' THEN "ready"
                         ELSE IF SentAlong(m)' THEN "sent" ELSE "lost"
      BY <1>7, <1>9, <1>10, <2>3, <3>1 DEF PipeInv, StatesMean
    <3> QED
      BY <2>1, <2>3, <3>2, <3>3, NoneFacts
  <2> QED
    BY <2>2, <2>3
<1>13. ASSUME NEW o \in Msg, o # m PROVE MsgState(o)' = MsgState(o)
  <2>1. \A q \in Port : o \in Queued(q)' <=> o \in Queued(q)
    BY <1>5 DEF Queued
  <2>2. ASSUME NEW e \in End, NEW k \in Nat, NEW u, u.data = o
        PROVE  /\ UserAt(e, k, u)' => UserAt(e, k, u)
               /\ UserAt(e, k, u) => UserAt(e, k, u)'
    <3>1. CASE UNCHANGED chan
      BY <3>1 DEF UserAt
    <3>2. CASE chan' # chan
      <4>1. PICK f \in End, v \in Message :
               /\ chan' = [chan EXCEPT ![f] = Append(@, v)]
               /\ v.type = "UserMessage" /\ v.data = w.data
        BY <1>1, <3>2, ForwardSends DEF PipeInv
      <4>2. chan' = [chan EXCEPT ![f] = Append(@, v)] /\ v # u /\ TypeOK
        BY <1>3, <1>13, <2>2, <4>1 DEF PipeInv
      <4>3. /\ UserAt(e, k, u) => UserAt(e, k, u)'
            /\ UserAt(e, k, u)' =>
                 \/ UserAt(e, k, u)
                 \/ e = f /\ k = Len(chan[f]) + 1 /\ u = v /\ ~ \E x : UserAt(e, k, x)
        BY <4>2, UsersSent
      <4> QED
        BY <4>2, <4>3
    <3> QED
      BY <3>1, <3>2
  <2>3. \A e \in End, k \in Nat : \A u : u.data = o =>
          /\ UserAt(e, k, u)' => \E l \in Nat : UserAt(e, l, u)
          /\ UserAt(e, k, u) => \E l \in Nat : UserAt(e, l, u)'
    BY <2>2
  <2> QED
    BY <1>5, <1>8, <1>13, <2>1, <2>3, StateKept DEF PipeInv
<1>14. /\ PipeState' = [PipeState EXCEPT ![m] = MsgState(m)']
       /\ PipeFrom' = [PipeFrom EXCEPT ![m] = p]
  <2>1. PICK s : s = MsgState(m)' /\ s # "new"
    BY <1>12
  <2>2. PipeState' = [PipeState EXCEPT ![m] = s] /\ PipeFrom' = [PipeFrom EXCEPT ![m] = written'[m]]
    BY <1>5, <1>13, <2>1, StateChanges
  <2> QED
    BY <1>9, <2>1, <2>2
<1>15. PipeOther[p] # None <=> Linked(p)
  <2>1. Linked(p) => peerPort[p] \in Port
    BY LinkedPeer DEF PipeInv
  <2> QED
    BY <2>1, PipeVars, NoneFacts DEF OtherEnd
<1>16. PipeFrom'[m] = p /\ PipeState[m] = "new"
  BY <1>9, <1>11, <1>12, PipeVars
<1>17. Pipe!Write(m, p)
  BY <1>10, <1>12, <1>14, <1>15, <1>16 DEF Pipe!Write
<1> QED
  BY <1>17 DEF Pipe!Next

\* OnUserMessage delivers what was sent; what it does not accept was lost already.
LEMMA PipeDeliver ==
    ASSUME PipeInv, PipeInv', [Next]_vars, NEW i \in Inv, NEW n \in Node, <<i, n>> \in End,
           HandleUserMessage(i, n), UNCHANGED coreVars
    PROVE  [Pipe!Next]_(Pipe!vars)
<1>1. PICK u : u = Head(chan[<<i, n>>])
  OBVIOUS
<1>2. /\ chan[<<i, n>>] # <<>> /\ Pop(i, n) /\ UserAt(<<i, n>>, 1, u)
      /\ u.from \in Port /\ u.data \in Msg /\ written[u.data] = u.from /\ peerNode[u.from] = n
      /\ UNCHANGED <<app, peerNode, peerPort, written, got>>
  BY <1>1, UserArrives DEF PipeInv
<1>3. PICK m \in Msg, p \in Port, f \in End : m = u.data /\ p = u.from /\ f = <<i, n>>
  BY <1>2
<1>4. Flying(f, 1, m) /\ InOnePlace(m)
  BY <1>2, <1>3, FlyingAt DEF PipeInv, PlacesInv
<1>5. Up(f) \in [End -> Nat] /\ Up(f)[f] = 1
  BY <1>3, StillUp
<1>6. (\A q \in Port : Linked(q)' <=> Linked(q)) /\ PipeOther' = PipeOther
  BY <1>2, AddressesStay
<1>7. \A o \in Msg : BeingWritten(o)' <=> BeingWritten(o)
  BY <1>2 DEF BeingWritten
<1>8. ~ BeingWritten(m) /\ got[m] = None /\ \A q \in Port : m \notin Queued(q)
  <2>1. /\ \A k \in Node : ~ Writing(k, m)
        /\ \A q \in Port, k \in Nat : ~ Queueing(q, k, m)
        /\ got[m] = None
    BY <1>4 DEF InOnePlace
  <2> QED
    BY <2>1, QueuedAt DEF BeingWritten, Writing, PipeInv
<1>9. ASSUME NEW e \in End, NEW k \in Nat, NEW v, UserAt(e, k, v), v.data = m
      PROVE  v = u
  <2>1. Flying(e, k, m)
    BY <1>9, FlyingAt
  <2>2. e = f /\ k = 1
    BY <1>4, <2>1 DEF InOnePlace
  <2> QED
    BY <1>2, <1>3, <1>9, <2>2 DEF UserAt
<1>10. ASSUME NEW e \in End, NEW k \in Nat, NEW v, UserAt(e, k, v)', v.data = m
       PROVE  FALSE
  <2>1. k + Up(f)[e] \in Nat /\ UserAt(e, k + Up(f)[e], v)
    BY <1>2, <1>3, <1>5, <1>10, UsersTaken DEF PipeInv
  <2>2. Flying(e, k + Up(f)[e], m)
    BY <1>10, <2>1, FlyingAt
  <2>3. e = f /\ k + 1 = 1
    BY <1>4, <1>5, <2>1, <2>2 DEF InOnePlace
  <2>4. k \in 1 .. Len(chan'[e])
    BY <1>10 DEF UserAt
  <2> QED
    BY <2>3, <2>4
<1>11. written[m] = p /\ written'[m] = p /\ p # None
  BY <1>2, <1>3, NoneFacts
<1>12. ~ SentAlong(m)'
  BY <1>10 DEF SentAlong
<1>13. SentAlong(m) <=> u.to = peerPort[p]
  BY <1>2, <1>3, <1>9, <1>11 DEF SentAlong
<1>14. ASSUME NEW o \in Msg, o # m, \A q \in Port : o \in Queued(q)' <=> o \in Queued(q)
       PROVE  MsgState(o)' = MsgState(o)
  <2>1. ASSUME NEW e \in End, NEW k \in Nat, NEW v, v.data = o
        PROVE  /\ UserAt(e, k, v)' => \E l \in Nat : UserAt(e, l, v)
               /\ UserAt(e, k, v) => \E l \in Nat : UserAt(e, l, v)'
    <3>1. k + Up(f)[e] \in Nat
      BY <1>5
    <3>2. UserAt(e, k, v)' => UserAt(e, k + Up(f)[e], v)
      BY <1>2, <1>3, UsersTaken DEF PipeInv
    <3>3. UserAt(e, k, v) => (\E l \in Nat : UserAt(e, l, v)') \/ v = u
      BY <1>1, <1>2, UsersTaken DEF PipeInv
    <3>4. v # u
      BY <1>3, <1>14, <2>1
    <3> QED
      BY <3>1, <3>2, <3>3, <3>4
  <2> QED
    BY <1>2, <1>7, <1>14, <2>1, StateKept DEF PipeInv
<1>15. CASE UNCHANGED queue /\ ~ Registered(n, u.to)
  <2>1. \A o \in Msg, q \in Port : o \in Queued(q)' <=> o \in Queued(q)
    BY <1>15 DEF Queued
  <2>2. ~ (Linked(p) /\ u.to = peerPort[p])
    BY <1>2, <1>3, <1>15 DEF PipeInv, TwoEnds
  <2>3. MsgState(m) = "lost"
    <3>1. CASE ~ Linked(p)
      BY <1>8, <1>11, <3>1 DEF PipeInv, StatesMean
    <3>2. CASE Linked(p)
      <4>1. peerPort[p] \in Port
        BY <3>2, LinkedPeer DEF PipeInv
      <4>2. MsgState(m) = IF got[m] = peerPort[p] THEN "read"
                          ELSE IF m \in Queued(peerPort[p]) THEN "ready"
                          ELSE IF SentAlong(m) THEN "sent" ELSE "lost"
        BY <1>8, <1>11, <3>2 DEF PipeInv, StatesMean
      <4> QED
        BY <1>8, <1>13, <2>2, <3>2, <4>1, <4>2, NoneFacts
    <3> QED
      BY <3>1, <3>2
  <2>4. MsgState(m)' = "lost"
    <3>1. CASE ~ Linked(p)
      BY <1>6, <1>7, <1>8, <1>11, <3>1 DEF PipeInv, StatesMean
    <3>2. CASE Linked(p)
      <4>1. PICK q \in Port : q = peerPort[p] /\ q = peerPort'[p]
        BY <1>2, <3>2, LinkedPeer DEF PipeInv
      <4>2. MsgState(m)' = IF got'[m] = q THEN "read" ELSE IF m \in Queued(q)' THEN "ready"
                           ELSE IF SentAlong(m)' THEN "sent" ELSE "lost"
        BY <1>6, <1>7, <1>8, <1>11, <3>2, <4>1 DEF PipeInv, StatesMean
      <4> QED
        BY <1>2, <1>8, <1>12, <2>1, <4>1, <4>2, NoneFacts
    <3> QED
      BY <3>1, <3>2
  <2>5. \A o \in Msg : MsgState(o)' = MsgState(o)
    BY <1>14, <2>1, <2>3, <2>4
  <2>6. UNCHANGED <<PipeState, PipeFrom>>
    BY <1>2, <2>5, StatesSame
  <2> QED
    BY <1>6, <2>6 DEF Pipe!vars
<1>16. CASE /\ u.to \in Port /\ Linked(u.from) /\ peerPort[u.from] = u.to
            /\ queue' = [queue EXCEPT ![u.to] = Append(@, u.data)]
  <2>1. PICK q \in Port : q = u.to
    BY <1>16
  <2>2. Linked(p) /\ peerPort[p] = q /\ peerPort'[p] = q /\ queue' = [queue EXCEPT ![q] = Append(@, m)]
    BY <1>2, <1>3, <1>16, <2>1
  <2>3. MsgState(m) = "sent"
    <3>1. MsgState(m) = IF got[m] = q THEN "read" ELSE IF m \in Queued(q) THEN "ready"
                        ELSE IF SentAlong(m) THEN "sent" ELSE "lost"
      BY <1>8, <1>11, <2>2 DEF PipeInv, StatesMean
    <3> QED
      BY <1>8, <1>13, <2>1, <2>2, <3>1, NoneFacts
  <2>4. /\ m \in Queued(q)'
        /\ \A o \in Msg, r \in Port : o # m => (o \in Queued(r)' <=> o \in Queued(r))
    <3>1. TypeOK
      BY DEF PipeInv
    <3>2. \E l \in Nat : Queueing(q, l, m)'
      BY <2>2, <3>1, QueueArrives
    <3>3. ASSUME NEW o \in Msg, NEW r \in Port, NEW k \in Nat, o # m
          PROVE  Queueing(r, k, o)' <=> Queueing(r, k, o)
      BY <2>2, <3>1, <3>3, QueueArrives
    <3> QED
      BY <3>1, <3>2, <3>3, QueuedAt
  <2>5. MsgState(m)' = "ready"
    <3>1. MsgState(m)' = IF got'[m] = q THEN "read" ELSE IF m \in Queued(q)' THEN "ready"
                         ELSE IF SentAlong(m)' THEN "sent" ELSE "lost"
      BY <1>6, <1>7, <1>8, <1>11, <2>2 DEF PipeInv, StatesMean
    <3> QED
      BY <1>2, <1>8, <2>4, <3>1, NoneFacts
  <2>6. \A o \in Msg : o # m => MsgState(o)' = MsgState(o) /\ written'[o] = written[o]
    BY <1>2, <1>14, <2>4
  <2>7. PipeState' = [PipeState EXCEPT ![m] = "ready"] /\ PipeFrom' = PipeFrom
    <3>1. PipeState' = [PipeState EXCEPT ![m] = "ready"] /\ PipeFrom' = [PipeFrom EXCEPT ![m] = written'[m]]
      BY <2>5, <2>6, StateChanges
    <3>2. PipeFrom[m] = written'[m]
      BY <1>11, <2>3, PipeVars
    <3> QED
      BY <3>1, <3>2 DEF PipeFrom
  <2>8. Pipe!Deliver(m)
    BY <1>6, <2>3, <2>7, PipeVars DEF Pipe!Deliver
  <2> QED
    BY <2>8 DEF Pipe!Next
<1> QED
  BY <1>1, <1>15, <1>16, UserArrives DEF PipeInv

LEMMA PipeRead ==
    ASSUME PipeInv, PipeInv', [Next]_vars, NEW q \in Port, Read(q)
    PROVE  Pipe!Next
<1>1. PICK m : m = Last(queue[q])
  OBVIOUS
<1>2. /\ queue[q] # <<>> /\ GetNextMessage(q) /\ got' = [got EXCEPT ![m] = q]
      /\ UNCHANGED <<app, chan, written, peerNode, peerPort>>
  BY <1>1 DEF Read, GetNextMessage, nodeVars
<1>3. PICK l \in Nat : l = Len(queue[q]) /\ m \in Msg /\ Queueing(q, l, m)
  BY <1>1, <1>2, QueueReads DEF PipeInv
<1>4. got'[m] = q /\ \A o \in Msg : o # m => got'[o] = got[o]
  BY <1>2, <1>3 DEF PipeInv, TypeOK, CoreTypeOK
<1>5. m \in Queued(q)
  BY <1>3, QueuedAt DEF PipeInv
<1>6. PICK p \in Port : p = written[m] /\ Linked(p) /\ peerPort[p] = q
  BY <1>3, <1>5 DEF PipeInv, MessagesInv, ArrivedInv
<1>7. p # None /\ written'[m] = p /\ peerPort'[p] = q
  BY <1>2, <1>6, NoneFacts
<1>8. (\A r \in Port : Linked(r)' <=> Linked(r)) /\ PipeOther' = PipeOther
  BY <1>2, AddressesStay
<1>9. \A o \in Msg : BeingWritten(o)' <=> BeingWritten(o)
  BY <1>2 DEF BeingWritten
<1>10. ~ BeingWritten(m) /\ got[m] = None
  BY <1>3 DEF PipeInv, PlacesInv, InOnePlace, BeingWritten, Writing
<1>11. MsgState(m) = "ready"
  <2>1. MsgState(m) = IF got[m] = q THEN "read" ELSE IF m \in Queued(q) THEN "ready"
                      ELSE IF SentAlong(m) THEN "sent" ELSE "lost"
    BY <1>3, <1>6, <1>7, <1>10 DEF PipeInv, StatesMean
  <2> QED
    BY <1>5, <1>10, <2>1, NoneFacts
<1>12. MsgState(m)' = "read"
  <2>1. MsgState(m)' = IF got'[m] = q THEN "read" ELSE IF m \in Queued(q)' THEN "ready"
                       ELSE IF SentAlong(m)' THEN "sent" ELSE "lost"
    BY <1>3, <1>6, <1>7, <1>8, <1>9, <1>10 DEF PipeInv, StatesMean
  <2> QED
    BY <1>4, <2>1
<1>13. ASSUME NEW o \in Msg, o # m PROVE MsgState(o)' = MsgState(o)
  <2>1. TypeOK
    BY DEF PipeInv
  <2>2. ASSUME NEW r \in Port, NEW k \in Nat PROVE Queueing(r, k, o)' <=> Queueing(r, k, o)
    BY <1>1, <1>2, <1>13, <2>1, QueueReads
  <2>3. \A r \in Port : o \in Queued(r)' <=> o \in Queued(r)
    BY <2>1, <2>2, QueuedAt
  <2>4. \A e \in End, k \in Nat : \A u : u.data = o =>
          /\ UserAt(e, k, u)' => \E j \in Nat : UserAt(e, j, u)
          /\ UserAt(e, k, u) => \E j \in Nat : UserAt(e, j, u)'
    BY <1>2 DEF UserAt
  <2> QED
    BY <1>2, <1>4, <1>9, <1>13, <2>3, <2>4, StateKept DEF PipeInv
<1>14. PipeState' = [PipeState EXCEPT ![m] = "read"] /\ PipeFrom' = PipeFrom
  <2>1. \A o \in Msg : o # m => MsgState(o)' = MsgState(o) /\ written'[o] = written[o]
    BY <1>2, <1>13
  <2>2. PipeState' = [PipeState EXCEPT ![m] = "read"] /\ PipeFrom' = [PipeFrom EXCEPT ![m] = written'[m]]
    BY <1>3, <1>12, <2>1, StateChanges
  <2>3. PipeFrom[m] = written'[m]
    BY <1>3, <1>6, <1>7, <1>11, PipeVars
  <2> QED
    BY <2>2, <2>3 DEF PipeFrom
<1>15. Pipe!Read(m)
  BY <1>3, <1>8, <1>11, <1>14, PipeVars DEF Pipe!Read
<1> QED
  BY <1>3, <1>15 DEF Pipe!Next

LEMMA PipeStep == PipeInv /\ PipeInv' /\ [Next]_vars => [Pipe!Next]_(Pipe!vars)
<1> SUFFICES ASSUME PipeInv, PipeInv', [Next]_vars PROVE [Pipe!Next]_(Pipe!vars)
  OBVIOUS
<1>1. \/ Quiet
      \/ \E p \in Port, m \in Msg : Write(p, m)
      \/ \E n \in Node : WriteForward(n)
      \/ \E i \in Inv, n \in Node :
           <<i, n>> \in End /\ HandleUserMessage(i, n) /\ UNCHANGED coreVars
      \/ \E p \in Port : Read(p)
  BY StepKinds DEF PipeInv
<1> QED
  BY <1>1, PipeQuiet, PipeWrite, PipeForward, PipeDeliver, PipeRead

LEMMA PipeStart == Init => Pipe!Init
<1> SUFFICES ASSUME Init PROVE Pipe!Init
  OBVIOUS
<1>1. \A p \in Port : OtherEnd(p) = None
  BY DEF Init, PortsInit, OtherEnd, Linked
<1>2. \A m \in Msg : MsgState(m) = "new"
  BY DEF Init, MsgState
<1> QED
  BY <1>1, <1>2 DEF Pipe!Init, PipeOther, PipeState, PipeFrom

\* Application threads, IO threads, sockets, the handshake and the port merges together are
\* a MessagePipe: ends are connected pairwise, once, and a message that SendUserMessage hands
\* over is delivered and read at most once, at the end connected to the one it was written to.
THEOREM ImplementsPipeCorrect == Spec => ImplementsPipe
<1>1. Init => Pipe!Init
  BY PipeStart
<1>2. PipeInv /\ PipeInv' /\ [Next]_vars => [Pipe!Next]_(Pipe!vars)
  BY PipeStep
<1>3. TypeOK /\ HandshakeInv /\ PeersInv /\ PortsInv /\ MessagesInv /\ PlacesInv /\ TwoEnds => PipeInv
  BY StatesMeanThis DEF PipeInv
<1>4. Spec => []PipeInv
  BY <1>3, TypeCorrect, HandshakeCorrect, PeersCorrect, PortsCorrect, MessagesCorrect, PlacesCorrect,
     TwoEndsCorrect, PTL
<1> QED
  BY <1>1, <1>2, <1>4, PTL DEF Spec, ImplementsPipe, Pipe!Spec

=============================================================================
