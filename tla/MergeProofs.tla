------------------------------- MODULE MergeProofs -------------------------------
(***************************************************************************)
(* A request for a port merge is never made twice and never granted to two *)
(* ports: RequestsInv holds, and with it TwoEnds, for any processes,       *)
(* invitations, extractions and messages.  No reserved port is lost while  *)
(* no process invites another one twice: ReservedOnce, ReservedMoved.  A   *)
(* granted request is answered once, AnswersInv; a process dies of a torn  *)
(* write or of a second invitation, CrashOnlyBySecond, and of a torn write *)
(* alone while each has one inviter: CrashOnlyByTornWrite.                 *)
(***************************************************************************)
EXTENDS PortProofs, FiniteSetTheorems

-----------------------------------------------------------------------------
(* What a step does to the requests for the peer of q.  Those in a list may  *)
(* move up in it.                                                            *)

PendingKept(q) ==
    \A k \in Nat : AsksInPending(Owner(q), k, q)' => AsksInPending(Owner(q), k, q)
FlushKept(q, s) ==
    \A k \in Nat : AsksInFlush(Owner(q), k, q)' => AsksInFlush(Owner(q), k + s, q)
AppKept(q) == AsksInApp(Owner(q), q)' => AsksInApp(Owner(q), q)
ChanKept(q, d) ==
    \A e \in End, k \in Nat : AsksInChan(e, k, q)' => AsksInChan(e, k + d[e], q)
GrantsKept(q) == \A p \in Port : Granted(p, q)' => Granted(p, q)

Still == [e \in End |-> 0]
Up(f) == [e \in End |-> IF e = f THEN 1 ELSE 0]

LEMMA StillUp ==
    ASSUME NEW f \in End
    PROVE  /\ Still \in [End -> Nat] /\ Up(f) \in [End -> Nat]
           /\ \A e \in End : Still[e] = 0
           /\ Up(f)[f] = 1 /\ \A e \in End : e # f => Up(f)[e] = 0
BY DEF Still, Up

LEMMA AskedKept ==
    ASSUME NEW q, AskedOnce(q), NEW s \in Nat, NEW d \in [End -> Nat],
           PendingKept(q), FlushKept(q, s), AppKept(q), ChanKept(q, d), GrantsKept(q)
    PROVE  AskedOnce(q)'
<1> DEFINE n == Owner(q)
<1>1. \A k, l \in Nat : AsksInPending(n, k, q)' /\ AsksInPending(n, l, q)' => k = l
  BY DEF AskedOnce, PendingKept
<1>2. ASSUME NEW k \in Nat, NEW l \in Nat, AsksInFlush(n, k, q)', AsksInFlush(n, l, q)'
      PROVE  k = l
  <2>1. AsksInFlush(n, k + s, q) /\ AsksInFlush(n, l + s, q)
    BY <1>2 DEF FlushKept
  <2>2. k + s = l + s
    BY <2>1 DEF AskedOnce
  <2> QED
    BY <2>2
<1>3. ASSUME NEW e \in End, NEW f \in End, NEW k \in Nat, NEW l \in Nat,
             AsksInChan(e, k, q)', AsksInChan(f, l, q)'
      PROVE  e = f /\ k = l
  <2>1. AsksInChan(e, k + d[e], q) /\ AsksInChan(f, l + d[f], q)
    BY <1>3 DEF ChanKept
  <2>2. d[e] \in Nat /\ d[f] \in Nat
    OBVIOUS
  <2>3. e = f /\ k + d[e] = l + d[f]
    BY <2>1, <2>2 DEF AskedOnce
  <2> QED
    BY <2>2, <2>3
<1>4. \A p, r \in Port : Granted(p, q)' /\ Granted(r, q)' => p = r
  BY DEF AskedOnce, GrantsKept
<1>5. /\ \A k \in Nat : AsksInPending(n, k, q)' => \E l \in Nat : AsksInPending(n, l, q)
      /\ \A k \in Nat : AsksInFlush(n, k, q)' => \E l \in Nat : AsksInFlush(n, l, q)
      /\ AsksInApp(n, q)' => AsksInApp(n, q)
      /\ \A e \in End, k \in Nat : AsksInChan(e, k, q)' => \E l \in Nat : AsksInChan(e, l, q)
      /\ \A p \in Port : Granted(p, q)' => Granted(p, q)
  <2>1. \A k \in Nat : k + s \in Nat /\ \A e \in End : k + d[e] \in Nat
    OBVIOUS
  <2> QED
    BY <2>1 DEF PendingKept, FlushKept, AppKept, ChanKept, GrantsKept
<1>6. \A k \in Nat : AsksInPending(n, k, q)' =>
        /\ ~ AsksInApp(n, q)'
        /\ \A l \in Nat : ~ AsksInFlush(n, l, q)'
        /\ \A f \in End, l \in Nat : ~ AsksInChan(f, l, q)'
        /\ \A p \in Port : ~ Granted(p, q)'
  BY <1>5 DEF AskedOnce
<1>7. \A k \in Nat : AsksInFlush(n, k, q)' =>
        /\ ~ AsksInApp(n, q)'
        /\ \A f \in End, l \in Nat : ~ AsksInChan(f, l, q)'
        /\ \A p \in Port : ~ Granted(p, q)'
  BY <1>5 DEF AskedOnce
<1>8. AsksInApp(n, q)' =>
        /\ \A f \in End, l \in Nat : ~ AsksInChan(f, l, q)'
        /\ \A p \in Port : ~ Granted(p, q)'
  BY <1>5 DEF AskedOnce
<1>9. \A e \in End, k \in Nat : AsksInChan(e, k, q)' => \A p \in Port : ~ Granted(p, q)'
  BY <1>5 DEF AskedOnce
<1> QED
  BY <1>1, <1>2, <1>3, <1>4, <1>6, <1>7, <1>8, <1>9 DEF AskedOnce

\* All requests for the peer of q are in places of one kind, where they cannot be twice.
LEMMA AskedOnly ==
    ASSUME NEW q, NEW x,
           \A k \in Nat : AsksInPending(Owner(q), k, q)' => x = "pending",
           \A k \in Nat : AsksInFlush(Owner(q), k, q)' => x = "flush",
           AsksInApp(Owner(q), q)' => x = "app",
           \A e \in End, k \in Nat : AsksInChan(e, k, q)' => x = "chan",
           \A p \in Port : Granted(p, q)' => x = "grant",
           \A k, l \in Nat : AsksInPending(Owner(q), k, q)' /\ AsksInPending(Owner(q), l, q)' => k = l,
           \A k, l \in Nat : AsksInFlush(Owner(q), k, q)' /\ AsksInFlush(Owner(q), l, q)' => k = l,
           \A e, f \in End, k, l \in Nat :
               AsksInChan(e, k, q)' /\ AsksInChan(f, l, q)' => e = f /\ k = l,
           \A p, r \in Port : Granted(p, q)' /\ Granted(r, q)' => p = r
    PROVE  AskedOnce(q)'
<1>1. \A k \in Nat : AsksInPending(Owner(q), k, q)' =>
        /\ ~ AsksInApp(Owner(q), q)'
        /\ \A l \in Nat : ~ AsksInFlush(Owner(q), l, q)'
        /\ \A f \in End, l \in Nat : ~ AsksInChan(f, l, q)'
        /\ \A p \in Port : ~ Granted(p, q)'
  OBVIOUS
<1>2. \A k \in Nat : AsksInFlush(Owner(q), k, q)' =>
        /\ ~ AsksInApp(Owner(q), q)'
        /\ \A f \in End, l \in Nat : ~ AsksInChan(f, l, q)'
        /\ \A p \in Port : ~ Granted(p, q)'
  OBVIOUS
<1>3. AsksInApp(Owner(q), q)' =>
        /\ \A f \in End, l \in Nat : ~ AsksInChan(f, l, q)'
        /\ \A p \in Port : ~ Granted(p, q)'
  OBVIOUS
<1>4. \A e \in End, k \in Nat : AsksInChan(e, k, q)' => \A p \in Port : ~ Granted(p, q)'
  OBVIOUS
<1> QED
  BY <1>1, <1>2, <1>3, <1>4 DEF AskedOnce

\* Only a port that was made asks, or is asked for.
LEMMA AsksMade ==
    ASSUME PortsInv, NEW q \in Port, q[2] = 0, offeredBy[q] = None, q[1] \notin made
    PROVE  /\ \A k \in Nat : ~ AsksInPending(Owner(q), k, q)
           /\ \A k \in Nat : ~ AsksInFlush(Owner(q), k, q)
           /\ ~ AsksInApp(Owner(q), q)
           /\ \A e \in End, k \in Nat : ~ AsksInChan(e, k, q)
           /\ \A p \in Port : ~ Granted(p, q)
<1>1. PICK n \in Node : n = Owner(q)
  BY PairFacts DEF Owner
<1>2. RequestInv(n)
  BY DEF PortsInv
<1>3. \A k \in Nat : ~ AsksInPending(n, k, q)
  BY <1>2 DEF RequestInv, Extracted, AsksInPending
<1>4. \A k \in Nat : ~ AsksInFlush(n, k, q)
  BY <1>2 DEF RequestInv, Extracted, AsksInFlush
<1>5. ~ AsksInApp(n, q)
  BY <1>2 DEF RequestInv, Extracted, AsksInApp
<1>6. ASSUME NEW e \in End, NEW k \in Nat, AsksInChan(e, k, q) PROVE FALSE
  <2>1. PICK m : m = chan[e][k] /\ m.type = "RequestPortMerge" /\ m.connector = q
                 /\ k \in 1 .. Len(chan[e])
    BY <1>6 DEF AsksInChan
  <2>2. MessageInv(e[1], e[2], m)
    BY <2>1 DEF PortsInv, ChanInv
  <2> QED
    BY <2>1, <2>2 DEF MessageInv, Extracted
<1>7. ASSUME NEW p \in Port, Granted(p, q) PROVE FALSE
  <2>1. CASE offeredBy[p] # None /\ Points(p, q)
    <3>1. PICK c \in Call : c = p[1] /\ (p = Port0(c) \/ p = Port1(c))
      BY PairFacts
    <3>2. PairInv(c) /\ OfferInv(c)
      BY DEF PortsInv
    <3>3. c \in made /\ peerPort[p] = q
      BY <2>1, <3>1, <3>2 DEF PairInv, Fresh, Points
    <3>4. q # Port0(c) /\ q # Port1(c)
      BY <3>3, PairFacts
    <3>5. Joined(c) /\ p = Port0(c)
      BY <3>1, <3>2, <3>3, <3>4 DEF PairInv, Points, Paired, Half
    <3>6. Match(p, q)
      BY <2>1, <3>3, <3>5 DEF Joined
    <3> QED
      BY <3>6, MatchFacts
  <2>2. CASE \E s : s = io[Owner(p)] /\ s.step = "store_port" /\ s.respond /\ s.local = p /\ s.port = q
    <3>1. Owner(p) \in Node
      BY PairFacts DEF Owner
    <3>2. Match(p, q)
      BY <2>2, <3>1 DEF PortsInv, IoInv
    <3> QED
      BY <3>2, MatchFacts
  <2> QED
    BY <1>7, <2>1, <2>2 DEF Granted
<1> QED
  BY <1>1, <1>3, <1>4, <1>5, <1>6, <1>7

-----------------------------------------------------------------------------
(* What the steps do to the places of requests.                              *)

LEMMA PendingSame ==
    ASSUME UNCHANGED pendingMerges, NEW q
    PROVE  PendingKept(q)
BY DEF PendingKept, AsksInPending

LEMMA FlushSame ==
    ASSUME \A n \in Node : io'[n] = io[n] \/ io'[n].step # "flush", NEW q \in Port
    PROVE  FlushKept(q, 0)
<1>1. PICK n \in Node : n = Owner(q)
  BY PairFacts DEF Owner
<1>2. \A k \in Nat : k + 0 = k
  OBVIOUS
<1> QED
  BY <1>1, <1>2 DEF FlushKept, AsksInFlush

LEMMA AppSame ==
    ASSUME \A n \in Node : app'[n] = app[n] \/ app'[n].step # "request", NEW q \in Port
    PROVE  AppKept(q)
<1>1. PICK n \in Node : n = Owner(q)
  BY PairFacts DEF Owner
<1> QED
  BY <1>1 DEF AppKept, AsksInApp

LEMMA ChanSame ==
    ASSUME UNCHANGED chan, NEW q
    PROVE  ChanKept(q, Still)
<1>1. \A e \in End, k \in Nat : k + Still[e] = k
  BY DEF Still
<1> QED
  BY <1>1 DEF ChanKept, AsksInChan

LEMMA ChanSends ==
    ASSUME TypeOK, NEW e \in End, NEW m \in Message, chan' = [chan EXCEPT ![e] = Append(@, m)],
           NEW q, m.type # "RequestPortMerge" \/ m.connector # q
    PROVE  ChanKept(q, Still)
<1>1. ASSUME NEW f \in End, NEW k \in Nat, AsksInChan(f, k, q)'
      PROVE  AsksInChan(f, k, q)
  <2>1. k \in 1 .. Len(chan'[f]) /\ chan'[f][k].type = "RequestPortMerge" /\ chan'[f][k].connector = q
    BY <1>1 DEF AsksInChan
  <2>2. k \in 1 .. Len(chan[f]) /\ chan'[f][k] = chan[f][k]
    BY <2>1, SentAt
  <2> QED
    BY <2>1, <2>2 DEF AsksInChan
<1>2. \A f \in End, k \in Nat : k + Still[f] = k
  BY DEF Still
<1> QED
  BY <1>1, <1>2 DEF ChanKept

LEMMA ChanTakes ==
    ASSUME TypeOK, NEW i \in Inv, NEW n \in Node, <<i, n>> \in End, chan[<<i, n>>] # <<>>,
           Pop(i, n), NEW q
    PROVE  ChanKept(q, Up(<<i, n>>))
<1>1. ASSUME NEW f \in End, NEW k \in Nat, AsksInChan(f, k, q)', f # <<i, n>>
      PROVE  AsksInChan(f, k + Up(<<i, n>>)[f], q)
  <2>1. chan'[f] = chan[f] /\ Up(<<i, n>>)[f] = 0 /\ k + 0 = k
    BY <1>1, TookAt, StillUp
  <2> QED
    BY <1>1, <2>1 DEF AsksInChan
<1>2. ASSUME NEW k \in Nat, AsksInChan(<<i, n>>, k, q)'
      PROVE  AsksInChan(<<i, n>>, k + Up(<<i, n>>)[<<i, n>>], q)
  <2>1. /\ k \in 1 .. Len(chan'[<<i, n>>]) /\ chan'[<<i, n>>][k].type = "RequestPortMerge"
        /\ chan'[<<i, n>>][k].connector = q
    BY <1>2 DEF AsksInChan
  <2>2. k + 1 \in 1 .. Len(chan[<<i, n>>]) /\ chan'[<<i, n>>][k] = chan[<<i, n>>][k + 1]
    BY <2>1, TookAt
  <2>3. Up(<<i, n>>)[<<i, n>>] = 1
    BY StillUp
  <2> QED
    BY <2>1, <2>2, <2>3 DEF AsksInChan
<1> QED
  BY <1>1, <1>2 DEF ChanKept

LEMMA GrantsSame ==
    ASSUME UNCHANGED <<peerNode, peerPort, offeredBy>>, NEW q,
           \A n \in Node : io'[n] = io[n] \/ io'[n].step # "store_port"
    PROVE  GrantsKept(q)
<1>1. ASSUME NEW p \in Port, Granted(p, q)' PROVE Granted(p, q)
  <2>1. Owner(p) \in Node
    BY PairFacts DEF Owner
  <2> QED
    BY <1>1, <2>1 DEF Granted, Points
<1> QED
  BY <1>1 DEF GrantsKept

\* Every request stays where it is, or moves up.
LEMMA AllAskedKept ==
    ASSUME TypeOK, PortsInv, PortsKept, RequestsInv, NEW d \in [End -> Nat],
           \A q \in Port : q[2] = 0 /\ offeredBy[q] = None =>
               PendingKept(q) /\ FlushKept(q, 0) /\ AppKept(q) /\ ChanKept(q, d) /\ GrantsKept(q)
    PROVE  RequestsInv'
<1> SUFFICES ASSUME NEW q \in Port, q[2] = 0, offeredBy'[q] = None
             PROVE  AskedOnce(q)'
  BY DEF RequestsInv
<1>1. offeredBy[q] = None
  <2>1. CASE q[1] \in made
    BY <2>1 DEF PortsKept
  <2>2. CASE q[1] \notin made
    <3>1. PairInv(q[1]) /\ q = Port0(q[1])
      BY PairFacts DEF PortsInv
    <3> QED
      BY <2>2, <3>1 DEF PairInv, Fresh
  <2> QED
    BY <2>1, <2>2
<1> QED
  BY <1>1, AskedKept DEF RequestsInv


LEMMA RequestsAside ==
    ASSUME TypeOK, PortsInv, PortsKept, RequestsInv,
           UNCHANGED <<pendingMerges, peerNode, peerPort, offeredBy>>,
           \A n \in Node : io'[n] = io[n] \/ io'[n].step \notin {"flush", "store_port"},
           \A n \in Node : app'[n] = app[n] \/ app'[n].step # "request",
           NEW d \in [End -> Nat], \A q \in Port : ChanKept(q, d)
    PROVE  RequestsInv'
BY PendingSame, FlushSame, AppSame, GrantsSame, AllAskedKept

\* A message is taken that nobody answers.
LEMMA RequestsTake ==
    ASSUME TypeOK, PortsInv, PortsKept, RequestsInv, NEW i \in Inv, NEW n \in Node, <<i, n>> \in End,
           chan[<<i, n>>] # <<>>, Pop(i, n),
           UNCHANGED <<pendingMerges, peerNode, peerPort, offeredBy, app>>,
           \A k \in Node : io'[k] = io[k] \/ io'[k].step \notin {"flush", "store_port"}
    PROVE  RequestsInv'
<1>1. Up(<<i, n>>) \in [End -> Nat] /\ \A q \in Port : ChanKept(q, Up(<<i, n>>))
  BY StillUp, ChanTakes
<1> QED
  BY <1>1, RequestsAside

\* Something else than a request is sent, if anything.
LEMMA RequestsOther ==
    ASSUME TypeOK, PortsInv, PortsKept, RequestsInv,
           UNCHANGED <<pendingMerges, peerNode, peerPort, offeredBy>>,
           \A n \in Node : io'[n] = io[n] \/ io'[n].step \notin {"flush", "store_port"},
           \A n \in Node : app'[n] = app[n] \/ app'[n].step # "request",
           \/ UNCHANGED chan
           \/ \E e \in End, m \in Message :
                chan' = [chan EXCEPT ![e] = Append(@, m)] /\ m.type # "RequestPortMerge"
    PROVE  RequestsInv'
<1>1. Still \in [End -> Nat] /\ \A q \in Port : ChanKept(q, Still)
  BY ChanSame, ChanSends DEF Still
<1> QED
  BY <1>1, RequestsAside

LEMMA RequestsHandle ==
    ASSUME TypeOK, HandshakeInv, PortsInv, PortsKept, RequestsInv, NEW i \in Inv, NEW n \in Node,
           <<i, n>> \in End, UNCHANGED coreVars,
           \/ HandleAcceptInvitee(i, n) \/ HandleAcceptInvitation(i, n) \/ HandleUserMessage(i, n)
    PROVE  RequestsInv'
<1>1. Pop(i, n) /\ chan[<<i, n>>] # <<>>
  BY InviterAcceptPops DEF HandleAcceptInvitee, HandleUserMessage, Receive
<1>2. UNCHANGED <<pendingMerges, peerNode, peerPort, offeredBy, app>>
  BY DEF HandleAcceptInvitee, HandleAcceptInvitation, HandleUserMessage, AcceptMessage, portVars,
         coreVars
<1>3. \A k \in Node : io'[k] = io[k] \/ io'[k].step \notin {"flush", "store_port"}
  <2>1. CASE HandleAcceptInvitee(i, n)
    BY <2>1 DEF HandleAcceptInvitee, GoIo, TypeOK, NodeTypeOK
  <2>2. CASE HandleAcceptInvitation(i, n) \/ HandleUserMessage(i, n)
    BY <2>2 DEF HandleAcceptInvitation, HandleUserMessage
  <2> QED
    BY <2>1, <2>2
<1> QED
  BY <1>1, <1>2, <1>3, RequestsTake

LEMMA SendsAnswer ==
    ASSUME TypeOK, HandshakeInv, NEW n \in Node, IoSendAccept(n)
    PROVE  \E e \in End, m \in Message :
             chan' = [chan EXCEPT ![e] = Append(@, m)] /\ m.type = "AcceptInvitation"
<1>1. PICK i \in Inv : i = io[n].token
  BY DEF IoSendAccept, IoAt, TypeOK, NodeTypeOK, IoState
<1>2. /\ io[n].step = "accept" /\ inviteeOf[i] = n /\ inviterChan[n] = i
  BY <1>1 DEF IoSendAccept, IoAt, HandshakeInv, HandlesOffer
<1>3. chan' = [chan EXCEPT ![<<i, inviterOf[i]>>] = Append(@, Answer(i))]
  BY <1>1, <1>2, InvFacts DEF IoSendAccept, SendTo, Answer
<1>4. <<i, inviterOf[i]>> \in End /\ Answer(i) \in Message /\ Answer(i).type = "AcceptInvitation"
  BY EndPair, InvFacts DEF Answer, Message
<1> QED
  BY <1>3, <1>4

LEMMA SendsOffer ==
    ASSUME NEW i \in Inv, CoreSendInvitation(i)
    PROVE  \E e \in End, m \in Message :
             chan' = [chan EXCEPT ![e] = Append(@, m)] /\ m.type = "AcceptInvitee"
<1>1. chan' = [chan EXCEPT ![<<i, inviteeOf[i]>>] = Append(@, Offer(i))]
  BY InvFacts DEF CoreSendInvitation, SendInvitation, SendTo, Offer
<1>2. <<i, inviteeOf[i]>> \in End /\ Offer(i) \in Message /\ Offer(i).type = "AcceptInvitee"
  BY EndPair, InvFacts DEF Offer, Message
<1> QED
  BY <1>1, <1>2

\* The answer to a granted request goes to the process that asked.
LEMMA SendsResponse ==
    ASSUME TypeOK, HandshakeInv, PeersInv, PortsInv, NEW n \in Node, IoRespond(n)
    PROVE  \/ UNCHANGED chan
           \/ \E e \in End, m \in Message :
                chan' = [chan EXCEPT ![e] = Append(@, m)] /\ m.type = "ResponsePortMerge"
<1>1. PICK s : s = io[n]
  OBVIOUS
<1>2. s.step = "respond"
  BY <1>1 DEF IoRespond, IoAt
<1>3. /\ Match(s.local, s.port) /\ s.node = Owner(s.port) /\ IsPeer(n, s.node)
  BY <1>1, <1>2 DEF PortsInv, IoInv
<1>4. PICK i \in Inv : i = peers[<<n, s.node>>] /\ <<i, n>> \in End /\ s.node = Other(i, n)
  <2>1. s.node \in NodeName /\ peers[<<n, s.node>>] # None
    BY <1>3 DEF IsPeer, NodeName
  <2> QED
    BY <2>1 DEF PeersInv, PeersAreEnds, End
<1>5. PICK m \in Message : m = [type |-> "ResponsePortMerge", connector |-> s.port, port |-> s.local]
  BY <1>3, MatchFacts DEF Message, PortName
<1>6. <<i, Other(i, n)>> \in End
  BY <1>4, EndPair
<1>7. chan' = [chan EXCEPT ![<<i, Other(i, n)>>] = Append(@, m)]
  BY <1>1, <1>4, <1>5, NoneFacts DEF IoRespond, SendTo
<1> QED
  BY <1>5, <1>6, <1>7

\* A user message goes to the process that its port points at.
LEMMA SendsUserMessage ==
    ASSUME TypeOK, HandshakeInv, PeersInv, PortsInv, NEW n \in Node, WriteForward(n)
    PROVE  LET w == app[n]
           IN  \/ UNCHANGED chan
               \/ \E e \in End, m \in Message :
                    /\ chan' = [chan EXCEPT ![e] = Append(@, m)]
                    /\ e[2] = peerNode[w.from] /\ e[2] # n
                    /\ m = [type |-> "UserMessage", from |-> w.from, to |-> w.to, data |-> w.data]
<1>1. PICK w : w = app[n]
  OBVIOUS
<1>2. PICK node : node = peerNode[w.from]
  OBVIOUS
<1>3. /\ w.step = "write" /\ w.from \in Port /\ w.to \in PortName /\ w.data \in Msg
      /\ node \in NodeName
  BY <1>1, <1>2 DEF WriteForward, AppAt, AppState, TypeOK, NodeTypeOK, PortsTypeOK
<1>4. node = n \/ IsPeer(n, node)
  BY <1>1, <1>2, <1>3, PeerOfPort DEF PortsInv, PipesInv
<1>5. PICK m \in Message :
          m = [type |-> "UserMessage", from |-> w.from, to |-> w.to, data |-> w.data]
  BY <1>3 DEF Message
<1>6. ForwardEvent(n, node, m)
  BY <1>1, <1>2, <1>5 DEF WriteForward
<1>7. CASE node = n
  BY <1>6, <1>7, <1>1 DEF ForwardEvent
<1>8. CASE IsPeer(n, node)
  <2>1. PICK i \in Inv : i = peers[<<n, node>>] /\ <<i, n>> \in End /\ node = Other(i, n)
    BY <1>3, <1>8 DEF IsPeer, PeersInv, PeersAreEnds, End
  <2>2. PICK e \in End : e = <<i, node>>
    <3>1. <<i, Other(i, n)>> \in End
      BY <2>1, EndPair
    <3> QED
      BY <2>1, <3>1
  <2>3. chan' = [chan EXCEPT ![e] = Append(@, m)]
    BY <1>6, <1>8, <2>1, <2>2, NoneFacts DEF ForwardEvent, SendTo, IsPeer
  <2>4. node # n
    BY <1>8 DEF IsPeer
  <2> QED
    BY <1>1, <1>2, <1>5, <2>2, <2>3, <2>4
<1> QED
  BY <1>4, <1>7, <1>8

LEMMA RequestsSend ==
    ASSUME TypeOK, HandshakeInv, PeersInv, PortsInv, PortsKept, RequestsInv, NEW n \in Node,
           IoSendAccept(n) \/ IoAddPeer(n) \/ IoRespond(n) \/ WriteForward(n), UNCHANGED coreVars
    PROVE  RequestsInv'
<1>1. UNCHANGED <<pendingMerges, peerNode, peerPort, offeredBy>>
  BY DEF IoSendAccept, IoAddPeer, IoRespond, WriteForward, portVars, coreVars
<1>2. /\ \A k \in Node : io'[k] = io[k] \/ io'[k].step \notin {"flush", "store_port"}
      /\ \A k \in Node : app'[k] = app[k] \/ app'[k].step # "request"
  <2>1. CASE IoSendAccept(n)
    BY <2>1 DEF IoSendAccept, GoIo, TypeOK, NodeTypeOK
  <2>2. CASE IoAddPeer(n)
    BY <2>2 DEF IoAddPeer, GoIo, TypeOK, NodeTypeOK
  <2>3. CASE IoRespond(n)
    BY <2>3 DEF IoRespond, GoIo, Idle, TypeOK, NodeTypeOK
  <2>4. CASE WriteForward(n)
    BY <2>4 DEF WriteForward, GoApp, Idle, TypeOK, NodeTypeOK
  <2> QED
    BY <2>1, <2>2, <2>3, <2>4
<1>3. \/ UNCHANGED chan
      \/ \E e \in End, m \in Message :
           chan' = [chan EXCEPT ![e] = Append(@, m)] /\ m.type # "RequestPortMerge"
  <2>1. CASE IoSendAccept(n)
    BY <2>1, SendsAnswer
  <2>2. CASE IoAddPeer(n)
    BY <2>2, AddPeerSilent
  <2>3. CASE IoRespond(n)
    BY <2>3, SendsResponse
  <2>4. CASE WriteForward(n)
    <3>1. UNCHANGED chan \/ \E e \in End, m \in Message :
            chan' = [chan EXCEPT ![e] = Append(@, m)] /\ m.type = "UserMessage"
      BY <2>4, SendsUserMessage
    <3> QED
      BY <3>1
  <2> QED
    BY <2>1, <2>2, <2>3, <2>4
<1> QED
  BY <1>1, <1>2, <1>3, RequestsOther

LEMMA RequestsCall ==
    ASSUME TypeOK, PortsInv, PortsKept, RequestsInv,
           \/ \E i \in Inv : CoreSendInvitation(i) \/ CoreAcceptInvitation(i)
           \/ \E i \in Inv, name \in Name : ExtractLocal(i, name)
           \/ \E p \in Port, m \in Msg : Write(p, m)
           \/ \E p \in Port : Read(p)
           \/ UNCHANGED vars
    PROVE  RequestsInv'
<1>1. UNCHANGED <<pendingMerges, peerNode, peerPort, offeredBy, io>>
  BY DEF CoreSendInvitation, SendInvitation, CoreAcceptInvitation, AcceptInvitation, ExtractLocal,
         Write, Read, GetNextMessage, vars, portVars, nodeVars, coreVars
<1>2. \A k \in Node : app'[k] = app[k] \/ app'[k].step # "request"
  <2>1. ASSUME NEW p \in Port, NEW m \in Msg, Write(p, m)
        PROVE  \A k \in Node : app'[k] = app[k] \/ app'[k].step # "request"
    BY <2>1 DEF Write, GoApp, TypeOK, NodeTypeOK
  <2> QED
    BY <2>1 DEF CoreSendInvitation, SendInvitation, CoreAcceptInvitation, AcceptInvitation,
       ExtractLocal, Read, vars, nodeVars
<1>3. \/ UNCHANGED chan
      \/ \E e \in End, m \in Message :
           chan' = [chan EXCEPT ![e] = Append(@, m)] /\ m.type # "RequestPortMerge"
  <2>1. ASSUME NEW i \in Inv, CoreSendInvitation(i)
        PROVE  \E e \in End, m \in Message :
                 chan' = [chan EXCEPT ![e] = Append(@, m)] /\ m.type # "RequestPortMerge"
    BY <2>1, SendsOffer
  <2> QED
    BY <2>1 DEF CoreAcceptInvitation, AcceptInvitation, ExtractLocal, Write, Read, vars, nodeVars
<1> QED
  BY <1>1, <1>2, <1>3, RequestsOther


-----------------------------------------------------------------------------
(* Steps that move requests.                                                 *)

\* HandlePendingMergePort takes the whole list.
LEMMA RequestsTakePending ==
    ASSUME TypeOK, PortsInv, PortsKept, RequestsInv, NEW n \in Node, IoTakePending(n),
           UNCHANGED coreVars
    PROVE  RequestsInv'
<1>1. /\ io[n].step = "take"
      /\ io'[n] = Flush(pendingMerges[n]) /\ \A k \in Node \ {n} : io'[k] = io[k]
      /\ pendingMerges'[n] = <<>>
      /\ \A k \in Node \ {n} : pendingMerges'[k] = pendingMerges[k]
      /\ UNCHANGED <<portVars, chan, app>>
  BY DEF IoTakePending, IoAt, GoIo, TypeOK, NodeTypeOK
<1>2. io'[n].step # "store_port"
  BY <1>1 DEF Flush, Idle
<1>3. ASSUME NEW q \in Port PROVE AppKept(q) /\ ChanKept(q, Still) /\ GrantsKept(q)
  <2>1. \A k \in Node : io'[k] = io[k] \/ io'[k].step # "store_port"
    BY <1>1, <1>2
  <2> QED
    BY <1>1, <2>1, AppSame, ChanSame, GrantsSame DEF portVars, coreVars
<1> SUFFICES ASSUME NEW q \in Port, q[2] = 0, offeredBy'[q] = None
             PROVE  AskedOnce(q)'
  BY DEF RequestsInv
<1>4. AskedOnce(q)
  BY DEF RequestsInv, coreVars
<1>5. CASE Owner(q) # n
  <2>1. PICK o \in Node : o = Owner(q) /\ o # n
    BY <1>5, PairFacts DEF Owner
  <2>2. PendingKept(q) /\ FlushKept(q, 0)
    <3>1. \A k \in Nat : k + 0 = k
      OBVIOUS
    <3> QED
      BY <1>1, <2>1, <3>1 DEF PendingKept, FlushKept, AsksInPending, AsksInFlush
  <2>3. Still \in [End -> Nat] /\ 0 \in Nat
    BY DEF Still
  <2> QED
    BY <1>3, <1>4, <2>2, <2>3, AskedKept
<1>6. CASE Owner(q) = n
  <2>1. \A k \in Nat : ~ AsksInPending(n, k, q)'
    <3>1. Len(<<>>) = 0
      OBVIOUS
    <3> QED
      BY <1>1, <3>1 DEF AsksInPending
  <2>2. \A k \in Nat : AsksInFlush(n, k, q)' => AsksInPending(n, k, q)
    <3>1. io'[n].step = "flush" => io'[n].merges = pendingMerges[n]
      BY <1>1 DEF Flush, Idle
    <3> QED
      BY <3>1 DEF AsksInFlush, AsksInPending
  <2>3. CASE \E k \in Nat : AsksInPending(n, k, q)
    <3>1. /\ ~ AsksInApp(n, q)'
          /\ \A p \in Port : ~ Granted(p, q)'
      BY <1>3, <1>4, <1>6, <2>3 DEF AskedOnce, AppKept, GrantsKept
    <3>2. \A e \in End, k \in Nat : ~ AsksInChan(e, k, q)'
      BY <1>1, <1>4, <1>6, <2>3 DEF AskedOnce, AsksInChan
    <3>3. \A k, l \in Nat : AsksInFlush(n, k, q)' /\ AsksInFlush(n, l, q)' => k = l
      BY <1>4, <1>6, <2>2 DEF AskedOnce
    <3> QED
      BY <1>6, <2>1, <3>1, <3>2, <3>3, AskedOnly
  <2>4. CASE ~ \E k \in Nat : AsksInPending(n, k, q)
    <3>1. PendingKept(q) /\ FlushKept(q, 0)
      BY <1>6, <2>1, <2>2, <2>4 DEF PendingKept, FlushKept
    <3>2. Still \in [End -> Nat] /\ 0 \in Nat
      BY DEF Still
    <3> QED
      BY <1>3, <1>4, <3>1, <3>2, AskedKept
  <2> QED
    BY <2>3, <2>4
<1> QED
  BY <1>5, <1>6

\* A request that is sent is behind everything else in its channel.
LEMMA ChanSendsRequest ==
    ASSUME TypeOK, NEW e \in End, NEW name \in Name, NEW q \in Port,
           chan' = [chan EXCEPT ![e] = Append(@, RequestPortMerge(name, q))],
           \A f \in End, k \in Nat : ~ AsksInChan(f, k, q)
    PROVE  \A f, g \in End, k, l \in Nat :
             AsksInChan(f, k, q)' /\ AsksInChan(g, l, q)' => f = g /\ k = l
<1>1. PICK m \in Message : m = RequestPortMerge(name, q)
  BY DEF RequestPortMerge, Message
<1>2. ASSUME NEW f \in End, NEW k \in Nat, AsksInChan(f, k, q)'
      PROVE  f = e /\ k = Len(chan[e]) + 1
  <2>1. k \in 1 .. Len(chan'[f]) /\ chan'[f][k].type = "RequestPortMerge" /\ chan'[f][k].connector = q
    BY <1>2 DEF AsksInChan
  <2>2. ~ (k \in 1 .. Len(chan[f]) /\ chan'[f][k] = chan[f][k])
    BY <2>1 DEF AsksInChan
  <2> QED
    BY <1>1, <2>1, <2>2, SentAt
<1> QED
  BY <1>2

\* The channel that RequestPortMerge goes out on.
LEMMA SendsRequest ==
    ASSUME TypeOK, HandshakeInv, NEW n \in Node, NEW i \in Inv, CanUse(n, i), NEW m,
           SendTo(i, n, m)
    PROVE  \E e \in End : chan' = [chan EXCEPT ![e] = Append(@, m)]
BY CanUseFacts DEF SendTo

LEMMA RequestsFlush ==
    ASSUME TypeOK, HandshakeInv, PortsInv, PortsKept, RequestsInv, NEW n \in Node, IoFlush(n),
           UNCHANGED coreVars
    PROVE  RequestsInv'
<1> DEFINE i == GetInviterChannel(n)
           s == io[n].merges
<1>1. /\ io[n].step = "flush"
      /\ UNCHANGED <<portVars, pendingMerges, app, offeredBy>>
  BY DEF IoFlush, IoAt, coreVars
<1>2. s \in Seq(Name \X Port) /\ s # <<>>
  BY <1>1 DEF TypeOK, NodeTypeOK, IoState
<1>3. /\ Head(s) = s[1] /\ 1 \in 1 .. Len(s) /\ Head(s)[1] \in Name /\ Head(s)[2] \in Port
      /\ Len(Tail(s)) = Len(s) - 1 /\ Len(s) \in Nat
      /\ \A k \in 1 .. Len(Tail(s)) : Tail(s)[k] = s[k + 1] /\ k + 1 \in 1 .. Len(s)
  <2> HIDE DEF s
  <2>1. Len(s) \in Nat /\ Len(s) # 0
    BY <1>2, EmptySeq, LenProperties
  <2>2. Head(s) = s[1] /\ Len(Tail(s)) = Len(s) - 1 /\ Head(s) \in Name \X Port
        /\ \A k \in 1 .. Len(Tail(s)) : Tail(s)[k] = s[k + 1]
    BY <1>2, HeadTailProperties
  <2> QED
    BY <2>1, <2>2
<1>4. CASE i = None
  <2>1. UNCHANGED <<chan, io>>
    BY <1>4 DEF IoFlush
  <2> QED
    BY <1>1, <2>1, RequestsOther DEF portVars
<1>5. CASE i # None
  <2>1. PICK name \in Name, r \in Port : name = Head(s)[1] /\ r = Head(s)[2]
    BY <1>3
  <2>2. /\ SendTo(i, n, RequestPortMerge(name, r))
        /\ io'[n] = Flush(Tail(s)) /\ \A k \in Node \ {n} : io'[k] = io[k]
    BY <1>5, <2>1 DEF IoFlush, GoIo, TypeOK, NodeTypeOK
  <2>3. i \in Inv /\ CanUse(n, i)
    BY <1>5, InviterInPeers DEF CanUse
  <2>4. PICK e \in End : chan' = [chan EXCEPT ![e] = Append(@, RequestPortMerge(name, r))]
    <3> HIDE DEF i
    <3> QED
      BY <2>2, <2>3, SendsRequest
  <2>5. io'[n].step # "store_port"
    BY <2>2 DEF Flush, Idle
  <2>6. \A k \in Nat : io'[n].step = "flush" /\ k \in 1 .. Len(io'[n].merges) =>
          k + 1 \in 1 .. Len(io[n].merges) /\ io'[n].merges[k] = io[n].merges[k + 1]
    <3>1. io'[n].step = "flush" => io'[n].merges = Tail(s)
      <4> HIDE DEF s
      <4> QED
        BY <2>2 DEF Flush, Idle
    <3> QED
      BY <1>3, <3>1
  <2>7. RequestInv(n)
    BY DEF PortsInv
  <2>8. Owner(r) = n /\ AsksInFlush(n, 1, r)
    <3>1. Extracted(s[1][2], n, s[1][1])
      BY <1>1, <1>3, <2>7 DEF RequestInv
    <3> QED
      BY <1>1, <1>3, <2>1, <3>1 DEF AsksInFlush, Extracted
  <2> HIDE DEF s, i
  <2>9. ASSUME NEW q \in Port PROVE PendingKept(q) /\ AppKept(q) /\ GrantsKept(q)
    <3>1. \A k \in Node : io'[k] = io[k] \/ io'[k].step # "store_port"
      BY <2>2, <2>5
    <3> QED
      BY <1>1, <3>1, PendingSame, AppSame, GrantsSame DEF portVars
  <2>10. ASSUME NEW q \in Port, Owner(q) = n, NEW k \in Nat, AsksInFlush(n, k, q)'
         PROVE  AsksInFlush(n, k + 1, q)
    BY <1>1, <2>6, <2>10 DEF AsksInFlush
  <2> SUFFICES ASSUME NEW q \in Port, q[2] = 0, offeredBy'[q] = None
               PROVE  AskedOnce(q)'
    BY DEF RequestsInv
  <2>11. AskedOnce(q)
    BY <1>1 DEF RequestsInv
  <2>12. Still \in [End -> Nat] /\ 0 \in Nat /\ 1 \in Nat
    BY DEF Still
  <2>13. CASE q # r
    <3>1. ChanKept(q, Still)
      <4>1. PICK m \in Message : m = RequestPortMerge(name, r)
        BY DEF RequestPortMerge, Message
      <4>2. m.connector = r
        BY <4>1 DEF RequestPortMerge
      <4> QED
        BY <2>4, <2>13, <4>1, <4>2, ChanSends
    <3>2. CASE Owner(q) = n
      <4>1. FlushKept(q, 1)
        BY <2>10, <3>2 DEF FlushKept
      <4> QED
        BY <2>9, <2>11, <2>12, <3>1, <4>1, AskedKept
    <3>3. CASE Owner(q) # n
      <4>1. FlushKept(q, 0)
        <5>1. PICK o \in Node : o = Owner(q) /\ o # n
          BY <3>3, PairFacts DEF Owner
        <5>2. \A k \in Nat : k + 0 = k
          OBVIOUS
        <5> QED
          BY <2>2, <5>1, <5>2 DEF FlushKept, AsksInFlush
      <4> QED
        BY <2>9, <2>11, <2>12, <3>1, <4>1, AskedKept
    <3> QED
      BY <3>2, <3>3
  <2>14. CASE q = r
    <3>1. AsksInFlush(n, 1, q) /\ Owner(q) = n
      BY <2>8, <2>14
    <3>2. /\ \A k \in Nat : ~ AsksInPending(n, k, q)'
          /\ ~ AsksInApp(n, q)'
          /\ \A p \in Port : ~ Granted(p, q)'
          /\ \A f \in End, k \in Nat : ~ AsksInChan(f, k, q)
      BY <2>9, <2>11, <2>12, <3>1 DEF AskedOnce, PendingKept, AppKept, GrantsKept
    <3>3. ASSUME NEW k \in Nat, AsksInFlush(n, k, q)' PROVE FALSE
      <4>1. AsksInFlush(n, k + 1, q) /\ k + 1 \in Nat
        BY <2>10, <3>1, <3>3
      <4>2. k + 1 = 1
        BY <2>11, <2>12, <3>1, <4>1 DEF AskedOnce
      <4>3. k \in 1 .. Len(io'[n].merges)
        BY <3>3 DEF AsksInFlush
      <4> QED
        BY <4>2, <4>3
    <3>4. \A f, g \in End, k, l \in Nat :
            AsksInChan(f, k, q)' /\ AsksInChan(g, l, q)' => f = g /\ k = l
      BY <2>4, <2>14, <3>2, ChanSendsRequest
    <3> QED
      BY <3>1, <3>2, <3>3, <3>4, AskedOnly
  <2> QED
    BY <2>13, <2>14
<1> QED
  BY <1>4, <1>5

\* The application thread sends the request it has prepared.
LEMMA RequestsSendRequest ==
    ASSUME TypeOK, HandshakeInv, PortsInv, PortsKept, RequestsInv, NEW n \in Node,
           CoreSendRequest(n)
    PROVE  RequestsInv'
<1>1. /\ app[n].step = "request"
      /\ UNCHANGED <<portVars, pendingMerges, io, offeredBy>>
  BY DEF CoreSendRequest, SendRequest, AppAt, coreVars
<1>2. PICK i \in Inv, name \in Name, r \in Port :
        i = app[n].channel /\ name = app[n].name /\ r = app[n].port
  BY <1>1 DEF TypeOK, NodeTypeOK, AppState
<1>3. /\ SendTo(i, n, RequestPortMerge(name, r))
      /\ app'[n] = Idle /\ \A k \in Node \ {n} : app'[k] = app[k]
  BY <1>2 DEF CoreSendRequest, SendRequest, GoApp, TypeOK, NodeTypeOK
<1>4. PICK e \in End : chan' = [chan EXCEPT ![e] = Append(@, RequestPortMerge(name, r))]
  <2>1. CanUse(n, i)
    BY <1>1, <1>2 DEF CanUse
  <2> QED
    BY <1>3, <2>1, SendsRequest
<1>5. Owner(r) = n /\ AsksInApp(n, r)
  <2>1. RequestInv(n)
    BY DEF PortsInv
  <2> QED
    BY <1>1, <1>2, <2>1 DEF RequestInv, Extracted, AsksInApp
<1>6. ASSUME NEW q \in Port PROVE PendingKept(q) /\ FlushKept(q, 0) /\ AppKept(q) /\ GrantsKept(q)
  <2>1. \A k \in Node : app'[k] = app[k] \/ app'[k].step # "request"
    BY <1>3 DEF Idle
  <2> QED
    BY <1>1, <2>1, PendingSame, FlushSame, AppSame, GrantsSame DEF portVars
<1> SUFFICES ASSUME NEW q \in Port, q[2] = 0, offeredBy'[q] = None
             PROVE  AskedOnce(q)'
  BY DEF RequestsInv
<1>7. AskedOnce(q)
  BY <1>1 DEF RequestsInv
<1>8. CASE q # r
  <2>1. PICK m \in Message : m = RequestPortMerge(name, r)
    BY DEF RequestPortMerge, Message
  <2>2. m.connector = r
    BY <2>1 DEF RequestPortMerge
  <2>3. ChanKept(q, Still)
    BY <1>4, <1>8, <2>1, <2>2, ChanSends
  <2>4. Still \in [End -> Nat] /\ 0 \in Nat
    BY DEF Still
  <2> QED
    BY <1>6, <1>7, <2>3, <2>4, AskedKept
<1>9. CASE q = r
  <2>1. AsksInApp(n, q) /\ Owner(q) = n
    BY <1>5, <1>9
  <2>2. /\ \A k \in Nat : ~ AsksInPending(n, k, q)'
        /\ \A p \in Port : ~ Granted(p, q)'
        /\ \A f \in End, k \in Nat : ~ AsksInChan(f, k, q)
    BY <1>6, <1>7, <2>1 DEF AskedOnce, PendingKept, GrantsKept
  <2>3. \A k \in Nat : ~ AsksInFlush(n, k, q)'
    BY <1>1, <1>7, <2>1 DEF AskedOnce, AsksInFlush
  <2>4. ~ AsksInApp(n, q)'
    BY <1>3 DEF AsksInApp, Idle
  <2>5. \A f, g \in End, k, l \in Nat :
          AsksInChan(f, k, q)' /\ AsksInChan(g, l, q)' => f = g /\ k = l
    BY <1>4, <1>9, <2>2, ChanSendsRequest
  <2> QED
    BY <2>1, <2>2, <2>3, <2>4, <2>5, AskedOnly
<1> QED
  BY <1>8, <1>9


-----------------------------------------------------------------------------
(* Steps that change ports.                                                  *)

\* A step that changes the pair of c alone grants nothing to other ports.
LEMMA GrantsElse ==
    ASSUME NEW c \in Call, \A d \in Call : d # c => PairKept(d),
           \A n \in Node : \/ io'[n] = io[n]
                           \/ io'[n].step # "store_port"
                           \/ io'[n].local[1] = c,
           NEW q, NEW p \in Port, p[1] # c, Granted(p, q)'
    PROVE  Granted(p, q)
<1>1. p[1] \in Call /\ p \in {Port0(p[1]), Port1(p[1])}
  BY PairFacts
<1>2. peerNode'[p] = peerNode[p] /\ peerPort'[p] = peerPort[p] /\ offeredBy'[p] = offeredBy[p]
  BY <1>1 DEF PairKept
<1>3. PICK o \in Node : o = Owner(p)
  BY PairFacts DEF Owner
<1>4. CASE offeredBy'[p] # None /\ Points(p, q)'
  BY <1>2, <1>4 DEF Granted, Points
<1>5. CASE /\ io'[o].step = "store_port" /\ io'[o].respond
           /\ io'[o].local = p /\ io'[o].port = q
  BY <1>3, <1>5 DEF Granted
<1> QED
  BY <1>3, <1>4, <1>5 DEF Granted

\* The request that is taken was the only one.
LEMMA TakesRequest ==
    ASSUME TypeOK, NEW i \in Inv, NEW n \in Node, <<i, n>> \in End, chan[<<i, n>>] # <<>>,
           Pop(i, n), NEW q \in Port, Head(chan[<<i, n>>]).type = "RequestPortMerge",
           Head(chan[<<i, n>>]).connector = q, AskedOnce(q)
    PROVE  /\ AsksInChan(<<i, n>>, 1, q)
           /\ \A e \in End, k \in Nat : ~ AsksInChan(e, k, q)'
<1>1. AsksInChan(<<i, n>>, 1, q)
  <2>1. chan[<<i, n>>] \in Seq(Message)
    BY DEF TypeOK, NodeTypeOK
  <2>2. Head(chan[<<i, n>>]) = chan[<<i, n>>][1] /\ 1 \in 1 .. Len(chan[<<i, n>>])
    BY <2>1, EmptySeq, LenProperties, HeadTailProperties
  <2> QED
    BY <2>2 DEF AsksInChan
<1>2. ASSUME NEW e \in End, NEW k \in Nat, AsksInChan(e, k, q)' PROVE FALSE
  <2>1. PICK u \in Nat : u = Up(<<i, n>>)[e]
    BY StillUp
  <2>2. AsksInChan(e, k + u, q)
    BY <1>2, <2>1, ChanTakes DEF ChanKept
  <2>3. e = <<i, n>> /\ k + u = 1
    BY <1>1, <2>2 DEF AskedOnce
  <2>4. k # 0
    BY <1>2 DEF AsksInChan
  <2>5. u = 1
    BY <2>1, <2>3, StillUp
  <2> QED
    BY <2>3, <2>4, <2>5
<1> QED
  BY <1>1, <1>2

LEMMA RequestsRequestPortMerge ==
    ASSUME TypeOK, HandshakeInv, PeersInv, PortsInv, PortsKept, RequestsInv, NEW i \in Inv,
           NEW n \in Node, <<i, n>> \in End, HandleRequestPortMerge(i, n), UNCHANGED coreVars
    PROVE  RequestsInv'
<1>1. PICK m, from : m = Head(chan[<<i, n>>]) /\ from = Other(i, n)
  OBVIOUS
<1>2. /\ Pop(i, n) /\ io[n] = Idle /\ chan[<<i, n>>] # <<>> /\ m.type = "RequestPortMerge"
      /\ UNCHANGED <<pendingMerges, app, made, offeredBy, nameOf, peers>>
      /\ m.connector \in Port
  BY <1>1, RequestMerge
<1>3. CASE UNCHANGED <<portVars, io>>
  BY <1>2, <1>3, RequestsTake DEF portVars
<1>4. ASSUME NEW c \in Call, NEW j \in Inv,
             c \in made, callNode[c] = n, Paired(c), offeredBy[Port0(c)] = j,
             StoreNode(Port1(c), from),
             io' = [io EXCEPT ![n] = [step |-> "store_port", local |-> Port0(c), node |-> from,
                                      port |-> m.connector, respond |-> TRUE]]
      PROVE  RequestsInv'
  <2>1. /\ \A d \in Call : d # c => PairKept(d)
        /\ peerPort'[Port0(c)] = Port1(c) /\ Points(Port1(c), Port0(c))'
    BY <1>2, <1>4, MergeBegins
  <2>2. /\ \A k \in Node \ {n} : io'[k] = io[k]
        /\ io'[n].step = "store_port" /\ io'[n].local = Port0(c) /\ io'[n].port = m.connector
    BY <1>4 DEF TypeOK, NodeTypeOK
  <2>3. \A k \in Node : \/ io'[k] = io[k]
                        \/ io'[k].step # "store_port"
                        \/ io'[k].local[1] = c
    BY <2>2, PairFacts
  <2>4. \A q \in Port : PendingKept(q) /\ FlushKept(q, 0) /\ AppKept(q) /\ ChanKept(q, Up(<<i, n>>))
    <3>1. \A k \in Node : io'[k] = io[k] \/ io'[k].step # "flush"
      BY <2>2
    <3> QED
      BY <1>2, <3>1, PendingSame, FlushSame, AppSame, ChanTakes
  <2> SUFFICES ASSUME NEW q \in Port, q[2] = 0, offeredBy'[q] = None
               PROVE  AskedOnce(q)'
    BY DEF RequestsInv
  <2>5. AskedOnce(q) /\ offeredBy[q] = None
    BY <1>2 DEF RequestsInv
  <2>6. ASSUME NEW r \in Port, Granted(r, q)'
        PROVE  Granted(r, q) \/ (r = Port0(c) /\ q = m.connector)
    <3>1. CASE r[1] # c
      BY <2>1, <2>3, <2>6, <3>1, GrantsElse
    <3>2. CASE r[1] = c
      <4>1. r = Port0(c) \/ r = Port1(c)
        BY <3>2, PairFacts
      <4>2. ~ Points(r, q)'
        <5>1. q # Port0(c) /\ q # Port1(c)
          BY <1>4, <2>5, NoneFacts, PairFacts
        <5> QED
          BY <2>1, <4>1, <5>1 DEF Points
      <4>3. io'[n].local = r /\ io'[n].port = q
        <5>1. Owner(r) = n
          BY <1>4, <4>1, PairFacts
        <5> QED
          BY <2>6, <4>2, <5>1 DEF Granted
      <4> QED
        BY <2>2, <4>3
    <3> QED
      BY <3>1, <3>2
  <2>7. Up(<<i, n>>) \in [End -> Nat] /\ 0 \in Nat
    BY StillUp
  <2>8. CASE q # m.connector
    <3>1. GrantsKept(q)
      BY <2>6, <2>8 DEF GrantsKept
    <3> QED
      BY <2>4, <2>5, <2>7, <3>1, AskedKept
  <2>9. CASE q = m.connector
    <3>1. AsksInChan(<<i, n>>, 1, q) /\ \A e \in End, k \in Nat : ~ AsksInChan(e, k, q)'
      BY <1>1, <1>2, <2>5, <2>9, TakesRequest
    <3>2. /\ \A k \in Nat : ~ AsksInPending(Owner(q), k, q)
          /\ \A k \in Nat : ~ AsksInFlush(Owner(q), k, q)
          /\ ~ AsksInApp(Owner(q), q)
          /\ \A r \in Port : ~ Granted(r, q)
      <4>1. 1 \in Nat
        OBVIOUS
      <4> QED
        BY <2>5, <3>1, <4>1 DEF AskedOnce
    <3>3. /\ \A k \in Nat : ~ AsksInPending(Owner(q), k, q)'
          /\ \A k \in Nat : ~ AsksInFlush(Owner(q), k, q)'
          /\ ~ AsksInApp(Owner(q), q)'
      <4>1. \A k \in Nat : k + 0 \in Nat
        OBVIOUS
      <4> QED
        BY <2>4, <3>2, <4>1 DEF PendingKept, FlushKept, AppKept
    <3>4. \A r \in Port : Granted(r, q)' => r = Port0(c)
      BY <2>6, <3>2
    <3> QED
      BY <3>1, <3>3, <3>4, AskedOnly
  <2> QED
    BY <2>8, <2>9
<1> QED
  BY <1>1, <1>3, <1>4, RequestMerge

\* The answer is about a request that has been granted long since.
LEMMA RequestsResponsePortMerge ==
    ASSUME TypeOK, HandshakeInv, PeersInv, PortsInv, PortsKept, RequestsInv, NEW i \in Inv,
           NEW n \in Node, <<i, n>> \in End, HandleResponsePortMerge(i, n), UNCHANGED coreVars
    PROVE  RequestsInv'
<1>1. PICK m, from : m = Head(chan[<<i, n>>]) /\ from = Other(i, n)
  OBVIOUS
<1>2. /\ Pop(i, n) /\ io[n] = Idle /\ chan[<<i, n>>] # <<>>
      /\ UNCHANGED <<pendingMerges, app, made, offeredBy, nameOf, peers>>
  BY <1>1, ResponseMerge
<1>3. CASE UNCHANGED <<portVars, io>>
  BY <1>2, <1>3, RequestsTake DEF portVars
<1>4. ASSUME NEW c \in Call, c \in made, callNode[c] = n, Paired(c), offeredBy[Port0(c)] = None,
             StoreNode(Port1(c), from),
             io' = [io EXCEPT ![n] = [step |-> "store_port", local |-> Port0(c), node |-> from,
                                      port |-> m.port, respond |-> FALSE]]
      PROVE  RequestsInv'
  <2>1. /\ \A k \in Node \ {n} : io'[k] = io[k]
        /\ io'[n].step = "store_port" /\ io'[n].local = Port0(c) /\ ~ io'[n].respond
    BY <1>4 DEF TypeOK, NodeTypeOK
  <2>2. \A d \in Call : d # c => PairKept(d)
    BY <1>2, <1>4, MergeBegins
  <2>3. \A k \in Node : \/ io'[k] = io[k]
                        \/ io'[k].step # "store_port"
                        \/ io'[k].local[1] = c
    BY <2>1, PairFacts
  <2>4. ASSUME NEW q \in Port, NEW r \in Port, Granted(r, q)' PROVE Granted(r, q)
    <3>1. CASE r[1] # c
      BY <2>2, <2>3, <2>4, <3>1, GrantsElse
    <3>2. CASE r[1] = c
      <4>1. r = Port0(c) \/ r = Port1(c)
        BY <3>2, PairFacts
      <4>2. offeredBy'[r] = None
        <5>1. OfferInv(c)
          BY DEF PortsInv
        <5> QED
          BY <1>2, <1>4, <4>1, <5>1 DEF OfferInv
      <4>3. Owner(r) = n
        BY <1>4, <4>1, PairFacts
      <4> QED
        BY <2>1, <2>4, <4>2, <4>3 DEF Granted
    <3> QED
      BY <3>1, <3>2
  <2>5. \A q \in Port : /\ PendingKept(q) /\ FlushKept(q, 0) /\ AppKept(q)
                        /\ ChanKept(q, Up(<<i, n>>)) /\ GrantsKept(q)
    <3>1. \A k \in Node : io'[k] = io[k] \/ io'[k].step # "flush"
      BY <2>1
    <3>2. \A q \in Port : GrantsKept(q)
      BY <2>4 DEF GrantsKept
    <3> QED
      BY <1>2, <3>1, <3>2, PendingSame, FlushSame, AppSame, ChanTakes
  <2> QED
    BY <2>5, StillUp, AllAskedKept
<1> QED
  BY <1>1, <1>3, <1>4, ResponseMerge

\* The second store of MergePorts does what the first one has announced.
LEMMA RequestsStorePort ==
    ASSUME TypeOK, PortsInv, PortsKept, RequestsInv, NEW n \in Node, IoStorePort(n),
           UNCHANGED coreVars
    PROVE  RequestsInv'
<1>1. PICK s : s = io[n]
  OBVIOUS
<1>2. /\ s.step = "store_port"
      /\ StorePort(s.local, s.node, s.port)
      /\ io' = [io EXCEPT ![n] =
                  IF s.respond
                    THEN [step |-> "respond", local |-> s.local, node |-> s.node, port |-> s.port]
                    ELSE Idle]
      /\ UNCHANGED <<chan, pendingMerges, app, offeredBy>>
  BY <1>1 DEF IoStorePort, IoAt, GoIo, coreVars
<1>3. /\ s.port \in Port /\ s.local[1] \in made
      /\ Owner(s.local) = n /\ s.local[2] = 0
      /\ ~ s.respond => Match(s.port, s.local)
  BY <1>1, <1>2 DEF PortsInv, IoInv
<1>4. s.local \in Port
  BY <1>1, <1>2 DEF TypeOK, NodeTypeOK, IoState
<1>5. /\ peerPort'[s.local] = s.port
      /\ \A p \in Port : p # s.local => peerPort'[p] = peerPort[p]
      /\ UNCHANGED peerNode
  BY <1>2, <1>4 DEF StorePort, TypeOK, PortsTypeOK
<1>6. /\ \A k \in Node \ {n} : io'[k] = io[k]
      /\ io'[n].step \in {"respond", "idle"}
  BY <1>2 DEF TypeOK, NodeTypeOK, Idle
<1>7. ASSUME NEW q \in Port, NEW r \in Port, Granted(r, q)' PROVE Granted(r, q)
  <2>1. PICK o \in Node : o = Owner(r)
    BY PairFacts DEF Owner
  <2>2. CASE offeredBy'[r] # None /\ Points(r, q)'
    <3>1. CASE r = s.local
      <4>1. q = s.port /\ s.respond
        BY <1>2, <1>3, <1>5, <2>2, <3>1, MatchFacts DEF Points
      <4> QED
        BY <1>1, <1>2, <1>3, <3>1, <4>1 DEF Granted
    <3>2. CASE r # s.local
      <4>1. Points(r, q) /\ offeredBy[r] # None
        BY <1>2, <1>5, <2>2, <3>2 DEF Points
      <4> QED
        BY <4>1 DEF Granted
    <3> QED
      BY <3>1, <3>2
  <2>3. CASE /\ io'[o].step = "store_port" /\ io'[o].respond
             /\ io'[o].local = r /\ io'[o].port = q
    BY <1>6, <2>1, <2>3 DEF Granted
  <2> QED
    BY <1>7, <2>1, <2>2, <2>3 DEF Granted
<1>8. \A q \in Port : /\ PendingKept(q) /\ FlushKept(q, 0) /\ AppKept(q)
                      /\ ChanKept(q, Still) /\ GrantsKept(q)
  <2>1. \A k \in Node : io'[k] = io[k] \/ io'[k].step # "flush"
    BY <1>6
  <2>2. \A q \in Port : GrantsKept(q)
    BY <1>7 DEF GrantsKept
  <2> QED
    BY <1>2, <2>1, <2>2, PendingSame, FlushSame, AppSame, ChanSame
<1>9. Still \in [End -> Nat]
  BY DEF Still
<1> QED
  BY <1>8, <1>9, AllAskedKept


\* A new pair is granted nothing, and nobody is granted its port0.
LEMMA CreateGrants ==
    ASSUME TypeOK, PortsInv, NEW c \in Call, c \notin made, CreatePortPair(c), UNCHANGED io,
           made' = made \cup {c},
           \A p \in Port : p[1] # c => offeredBy'[p] = offeredBy[p] /\ nameOf'[p] = nameOf[p],
           UNCHANGED peers, OfferInv(c)', NEW q \in Port, offeredBy'[q] = None
    PROVE  GrantsKept(q)
<1>1. \A d \in Call : d # c => PairKept(d)
  BY CreateKept
<1>2. ASSUME NEW r \in Port, Granted(r, q)' PROVE Granted(r, q)
  <2>1. CASE r[1] # c
    BY <1>1, <1>2, <2>1, GrantsElse
  <2>2. CASE r[1] = c
    <3>1. r = Port0(c) \/ r = Port1(c)
      BY <2>2, PairFacts
    <3>2. peerPort'[r] = Sibling(r) /\ offeredBy'[Port1(c)] = offeredBy'[Port0(c)]
      BY <2>2 DEF CreatePortPair, OfferInv
    <3>3. ~ (offeredBy'[r] # None /\ Points(r, q)')
      BY <3>1, <3>2, PairFacts DEF Points
    <3>4. PICK o \in Node : o = Owner(r)
      BY PairFacts DEF Owner
    <3> QED
      BY <1>2, <3>3, <3>4 DEF Granted
  <2> QED
    BY <2>1, <2>2
<1> QED
  BY <1>2 DEF GrantsKept

LEMMA RequestsAttach ==
    ASSUME TypeOK, PortsInv, PortsInv', PortsKept, RequestsInv, NEW c \in Call, NEW i \in Inv,
           NEW name \in Name, Attach(c, i, name)
    PROVE  RequestsInv'
<1>1. /\ c \notin made /\ made' = made \cup {c} /\ CreatePortPair(c)
      /\ UNCHANGED <<chan, peers, pendingMerges, io, app>>
  BY DEF Attach, nodeVars
<1>2. \A p \in Port : p[1] # c => offeredBy'[p] = offeredBy[p] /\ nameOf'[p] = nameOf[p]
  BY PairFacts DEF Attach, TypeOK, CoreTypeOK
<1>3. OfferInv(c)' /\ PairInv(c)
  BY DEF PortsInv
<1> SUFFICES ASSUME NEW q \in Port, q[2] = 0, offeredBy'[q] = None
             PROVE  AskedOnce(q)'
  BY DEF RequestsInv
<1>4. offeredBy[q] = None
  <2>1. CASE q[1] = c
    BY <1>1, <1>3, <2>1, PairFacts DEF PairInv, Fresh
  <2> QED
    BY <1>2, <2>1
<1>5. PendingKept(q) /\ FlushKept(q, 0) /\ AppKept(q) /\ ChanKept(q, Still) /\ GrantsKept(q)
  BY <1>1, <1>2, <1>3, PendingSame, FlushSame, AppSame, ChanSame, CreateGrants
<1>6. Still \in [End -> Nat] /\ 0 \in Nat
  BY DEF Still
<1> QED
  BY <1>4, <1>5, <1>6, AskedKept DEF RequestsInv

\* ExtractMessagePipeFromInvitation asks for a port that was made just now.
LEMMA RequestsExtract ==
    ASSUME TypeOK, PortsInv, PortsInv', PortsKept, RequestsInv, NEW c \in Call, NEW i \in Inv,
           NEW name \in Name, Extract(c, i, name)
    PROVE  RequestsInv'
<1>1. PICK n \in Node : n = callNode[c]
  BY PairFacts
<1>2. /\ c \notin made /\ made' = made \cup {c} /\ CreatePortPair(c)
      /\ nameOf' = [nameOf EXCEPT ![Port0(c)] = name]
      /\ MergePortIntoInviter(n, name, Port0(c))
      /\ UNCHANGED <<chan, peers, io, offeredBy>>
  BY <1>1 DEF Extract
<1>3. \A p \in Port : p[1] # c => offeredBy'[p] = offeredBy[p] /\ nameOf'[p] = nameOf[p]
  BY <1>2, PairFacts DEF TypeOK, CoreTypeOK
<1>4. /\ \A k \in Node \ {n} : pendingMerges'[k] = pendingMerges[k] /\ app'[k] = app[k]
      /\ \/ pendingMerges'[n] = Append(pendingMerges[n], <<name, Port0(c)>>) /\ app'[n] = app[n]
         \/ /\ pendingMerges'[n] = pendingMerges[n]
            /\ app'[n].step = "request" /\ app'[n].port = Port0(c)
  <2>1. app \in [Node -> AppState] /\ pendingMerges \in [Node -> Seq(Name \X Port)]
    BY DEF TypeOK, NodeTypeOK
  <2> QED
    BY <1>2, <2>1 DEF MergePortIntoInviter, GoApp
<1>5. \A k \in Nat : AsksInPending(n, k, Port0(c))' => AsksInPending(n, k, Port0(c))
                                                       \/ k = Len(pendingMerges[n]) + 1
  <2>1. \A k \in Nat : k \in 1 .. Len(pendingMerges'[n]) =>
          \/ k \in 1 .. Len(pendingMerges[n]) /\ pendingMerges'[n][k] = pendingMerges[n][k]
          \/ k = Len(pendingMerges[n]) + 1
    <3>1. pendingMerges[n] \in Seq(Name \X Port) /\ <<name, Port0(c)>> \in Name \X Port
      BY PairFacts DEF TypeOK, NodeTypeOK
    <3> DEFINE s == pendingMerges[n]
               t == Append(s, <<name, Port0(c)>>)
    <3>2. Len(s) \in Nat /\ Len(t) = Len(s) + 1 /\ \A l \in 1 .. Len(s) : t[l] = s[l]
      BY <3>1, AppendProperties, LenProperties
    <3> HIDE DEF s, t
    <3>3. pendingMerges'[n] = t \/ pendingMerges'[n] = s
      BY <1>4 DEF s, t
    <3>4. \A k \in Nat : k \in 1 .. Len(pendingMerges'[n]) =>
            \/ k \in 1 .. Len(s) /\ pendingMerges'[n][k] = s[k]
            \/ k = Len(s) + 1
      BY <3>2, <3>3
    <3> QED
      BY <3>4 DEF s
  <2> QED
    BY <2>1 DEF AsksInPending
<1>6. ASSUME NEW q \in Port, q # Port0(c), NEW k \in Nat, AsksInPending(n, k, q)'
      PROVE  AsksInPending(n, k, q)
  <2>1. pendingMerges[n] \in Seq(Name \X Port) /\ <<name, Port0(c)>> \in Name \X Port
    BY PairFacts DEF TypeOK, NodeTypeOK
  <2> DEFINE s == pendingMerges[n]
             x == <<name, Port0(c)>>
             t == Append(s, x)
  <2>2. /\ Len(s) \in Nat /\ Len(t) = Len(s) + 1 /\ t[Len(s) + 1] = x
        /\ \A l \in 1 .. Len(s) : t[l] = s[l]
    BY <2>1, AppendProperties, LenProperties
  <2>3. x[2] = Port0(c)
    OBVIOUS
  <2> HIDE DEF s, t, x
  <2>4. pendingMerges'[n] = t \/ pendingMerges'[n] = s
    BY <1>4 DEF s, t, x
  <2>5. k \in 1 .. Len(pendingMerges'[n]) /\ pendingMerges'[n][k][2] = q
    BY <1>6 DEF AsksInPending
  <2>6. k \in 1 .. Len(s) /\ s[k][2] = q
    BY <1>6, <2>2, <2>3, <2>4, <2>5
  <2> QED
    BY <2>6 DEF AsksInPending, s
<1>7. OfferInv(c)' /\ PairInv(c)
  BY DEF PortsInv
<1> SUFFICES ASSUME NEW q \in Port, q[2] = 0, offeredBy'[q] = None
             PROVE  AskedOnce(q)'
  BY DEF RequestsInv
<1>8. offeredBy[q] = None /\ AskedOnce(q)
  BY <1>2 DEF RequestsInv
<1>9. FlushKept(q, 0) /\ ChanKept(q, Still) /\ GrantsKept(q)
  BY <1>2, <1>3, <1>7, FlushSame, ChanSame, CreateGrants
<1>10. PICK o \in Node : o = Owner(q)
  BY PairFacts DEF Owner
<1>11. CASE q # Port0(c)
  <2>1. PendingKept(q)
    <3>1. CASE o = n
      BY <1>6, <1>10, <1>11, <3>1 DEF PendingKept
    <3>2. CASE o # n
      BY <1>4, <1>10, <3>2 DEF PendingKept, AsksInPending
    <3> QED
      BY <3>1, <3>2
  <2>2. AppKept(q)
    BY <1>4, <1>10, <1>11 DEF AppKept, AsksInApp
  <2>3. Still \in [End -> Nat] /\ 0 \in Nat
    BY DEF Still
  <2> QED
    BY <1>8, <1>9, <2>1, <2>2, <2>3, AskedKept
<1>12. CASE q = Port0(c)
  <2>1. q[1] \notin made /\ o = n
    BY <1>1, <1>2, <1>10, <1>12, PairFacts
  <2>2. /\ \A k \in Nat : ~ AsksInPending(n, k, q)
        /\ \A k \in Nat : ~ AsksInFlush(n, k, q)
        /\ ~ AsksInApp(n, q)
        /\ \A e \in End, k \in Nat : ~ AsksInChan(e, k, q)
        /\ \A p \in Port : ~ Granted(p, q)
    BY <1>8, <1>10, <2>1, AsksMade
  <2>3. /\ \A k \in Nat : ~ AsksInFlush(n, k, q)'
        /\ \A e \in End, k \in Nat : ~ AsksInChan(e, k, q)'
        /\ \A p \in Port : ~ Granted(p, q)'
    BY <1>2, <1>9, <2>2 DEF AsksInFlush, AsksInChan, GrantsKept
  <2>4. \A k \in Nat : AsksInPending(n, k, q)' => k = Len(pendingMerges[n]) + 1
    BY <1>5, <1>12, <2>2
  <2>5. CASE app'[n] = app[n]
    <3>1. ~ AsksInApp(n, q)'
      BY <2>2, <2>5 DEF AsksInApp
    <3> QED
      BY <1>10, <2>1, <2>3, <2>4, <3>1, AskedOnly
  <2>6. CASE pendingMerges'[n] = pendingMerges[n]
    <3>1. \A k \in Nat : ~ AsksInPending(n, k, q)'
      BY <2>2, <2>6 DEF AsksInPending
    <3> QED
      BY <1>10, <2>1, <2>3, <3>1, AskedOnly
  <2> QED
    BY <1>4, <2>5, <2>6
<1> QED
  BY <1>11, <1>12


-----------------------------------------------------------------------------
(* The theorems.                                                             *)

LEMMA RequestsStart == Init => RequestsInv
<1> SUFFICES ASSUME Init, NEW q \in Port PROVE AskedOnce(q)
  BY DEF RequestsInv
<1>1. Len(<<>>) = 0
  OBVIOUS
<1>2. PICK n \in Node : n = Owner(q)
  BY PairFacts DEF Owner
<1>3. /\ pendingMerges[n] = <<>> /\ io[n].step = "idle" /\ app[n].step = "idle"
      /\ \A e \in End : chan[e] = <<>>
  BY DEF Init, NodeInit, Idle, End
<1>4. \A k \in Nat : ~ AsksInPending(n, k, q) /\ ~ AsksInFlush(n, k, q)
  BY <1>1, <1>3 DEF AsksInPending, AsksInFlush
<1>5. ~ AsksInApp(n, q) /\ \A e \in End, k \in Nat : ~ AsksInChan(e, k, q)
  BY <1>1, <1>3 DEF AsksInApp, AsksInChan
<1>6. ASSUME NEW p \in Port PROVE ~ Granted(p, q)
  <2>1. PICK o \in Node : o = Owner(p)
    BY PairFacts DEF Owner
  <2>2. io[o].step = "idle" /\ offeredBy[p] = None
    BY DEF Init, NodeInit, Idle
  <2> QED
    BY <2>1, <2>2 DEF Granted
<1> QED
  BY <1>2, <1>4, <1>5, <1>6 DEF AskedOnce

LEMMA RequestsStep ==
    ASSUME TypeOK, HandshakeInv, PeersInv, PortsInv, RequestsInv, [Next]_vars
    PROVE  RequestsInv'
<1>1. PortsInv' /\ PortsKept
  BY PortsStep, PortsKeptStep
<1>2. ASSUME NEW e \in End, Handle(e[1], e[2]), UNCHANGED coreVars
      PROVE  RequestsInv'
  <2>1. e[1] \in Inv /\ e[2] \in Node /\ <<e[1], e[2]>> \in End
    BY DEF End
  <2> QED
    BY <1>1, <1>2, <2>1, RequestsHandle, RequestsRequestPortMerge, RequestsResponsePortMerge
    DEF Handle
<1>3. ASSUME NEW n \in Node, IoContinue(n), UNCHANGED coreVars
      PROVE  RequestsInv'
  BY <1>1, <1>3, RequestsSend, RequestsTakePending, RequestsFlush, RequestsStorePort
  DEF IoContinue
<1>4. ASSUME App
      PROVE  RequestsInv'
  <2>1. ASSUME NEW n \in Node, WriteForward(n)
        PROVE  RequestsInv'
    BY <1>1, <2>1, RequestsSend DEF WriteForward
  <2> QED
    BY <1>1, <1>4, <2>1, RequestsAttach, RequestsExtract, RequestsSendRequest, RequestsCall DEF App
<1>5. CASE UNCHANGED vars
  BY <1>1, <1>5, RequestsCall
<1> QED
  BY <1>2, <1>3, <1>4, <1>5 DEF Next, Io

\* A request for a port merge is made once: it waits in pending_port_merges_, is being
\* flushed, is with the application thread, is on its way, or has been granted to one port,
\* and is in one place only.
THEOREM RequestsCorrect == Spec => []RequestsInv
<1>1. Init => RequestsInv
  BY RequestsStart
<1>2. TypeOK /\ HandshakeInv /\ PeersInv /\ PortsInv /\ RequestsInv /\ [Next]_vars => RequestsInv'
  BY RequestsStep
<1> QED
  BY <1>1, <1>2, TypeCorrect, HandshakeCorrect, PeersCorrect, PortsCorrect, PTL DEF Spec

\* A port that is pointed at has one port that points at it.
LEMMA OnePointsAt ==
    ASSUME TypeOK, PortsInv, RequestsInv, NEW p \in Port, NEW r \in Port, Linked(p), Linked(r),
           peerPort[p] = peerPort[r]
    PROVE  p = r
<1>1. PICK q \in Port : q = peerPort[p] /\ q[2] = 0
  BY LinkedPeer
<1>2. /\ Points(p, q)
      /\ offeredBy[p] # None => Match(p, q)
      /\ offeredBy[p] = None => Match(q, p) /\ Points(q, p)
  BY <1>1, LinkedPeer
<1>3. /\ Points(r, q)
      /\ offeredBy[r] # None => Match(r, q)
      /\ offeredBy[r] = None => Match(q, r) /\ Points(q, r)
  BY <1>1, LinkedPeer
<1>4. CASE offeredBy[p] # None /\ offeredBy[r] # None
  <2>1. offeredBy[q] = None /\ Granted(p, q) /\ Granted(r, q)
    BY <1>2, <1>3, <1>4, MatchFacts, LinkedPeer, <1>1 DEF Granted
  <2> QED
    BY <1>1, <2>1 DEF RequestsInv, AskedOnce
<1>5. CASE offeredBy[p] = None /\ offeredBy[r] = None
  BY <1>2, <1>3, <1>5 DEF Points
<1>6. CASE offeredBy[p] # None <=> offeredBy[r] = None
  BY <1>2, <1>3, <1>6, MatchFacts
<1> QED
  BY <1>4, <1>5, <1>6

\* The two ends of a merged pipe are each other's peers, got under one name, at the inviter
\* and at the process that accepts its invitation, and no third port points at either.
THEOREM TwoEndsCorrect == Spec => []TwoEnds
<1>1. TypeOK /\ PortsInv /\ RequestsInv => TwoEnds
  <2> SUFFICES ASSUME TypeOK, PortsInv, RequestsInv, NEW p \in Port, Linked(p), NEW q, q = peerPort[p]
               PROVE  /\ Registered(peerNode[p], q)
                      /\ nameOf[q] = nameOf[p]
                      /\ offeredBy[p] # None => peerNode[p] = inviteeOf[offeredBy[p]]
                      /\ Linked(q) => peerPort[q] = p
                      /\ \A r \in Port : Linked(r) /\ peerPort[r] = q => r = p
    BY DEF TwoEnds
  <2>1. /\ q \in Port /\ q[2] = 0 /\ q[1] \in made /\ Points(p, q)
        /\ offeredBy[p] # None => Match(p, q)
        /\ offeredBy[p] = None => Match(q, p) /\ Points(q, p)
    BY LinkedPeer
  <2>2. Registered(peerNode[p], q)
    <3>1. PairInv(q[1]) /\ q = Port0(q[1])
      BY <2>1, PairFacts DEF PortsInv
    <3> QED
      BY <2>1, <3>1 DEF PairInv, Registered, Points
  <2>3. /\ nameOf[q] = nameOf[p]
        /\ offeredBy[p] # None => peerNode[p] = inviteeOf[offeredBy[p]]
    BY <2>1 DEF Match, Extracted, Points
  <2>4. ASSUME Linked(q) PROVE peerPort[q] = p
    <3>1. CASE offeredBy[p] = None
      BY <2>1, <3>1 DEF Points
    <3>2. CASE offeredBy[p] # None
      <4>1. PICK r \in Port : r = peerPort[q] /\ r[2] = 0
        BY <2>1, <2>4, LinkedPeer
      <4>2. offeredBy[q] = None /\ Match(r, q) /\ Points(r, q)
        BY <2>1, <2>4, <3>2, <4>1, LinkedPeer, MatchFacts
      <4>3. offeredBy[r] # None
        BY <4>2, MatchFacts
      <4>4. Granted(p, q) /\ Granted(r, q)
        BY <2>1, <3>2, <4>2, <4>3 DEF Granted
      <4> QED
        BY <2>1, <4>1, <4>2, <4>4 DEF RequestsInv, AskedOnce
    <3> QED
      BY <3>1, <3>2
  <2>5. \A r \in Port : Linked(r) /\ peerPort[r] = q => r = p
    BY OnePointsAt
  <2> QED
    BY <2>2, <2>3, <2>4, <2>5
<1> QED
  BY <1>1, TypeCorrect, PortsCorrect, RequestsCorrect, PTL


-----------------------------------------------------------------------------
(* No attached port is lost.                                                 *)

\* The controllers' maps and the applications' tables a port can be found in stay as they are.
LEMMA SomePlaceStays ==
    ASSUME PortsKept, NEW c \in Call, SomePlace(c), c \in made' => c \in made,
           UNCHANGED <<attached, reserved, pipes, ports>>
    PROVE  SomePlace(c)'
<1> SUFFICES ASSUME c \in made', offeredBy'[Port1(c)] # None
             PROVE  SomePlace(c)'
  BY DEF SomePlace
<1>1. offeredBy'[Port1(c)] = offeredBy[Port1(c)] /\ nameOf'[Port1(c)] = nameOf[Port1(c)]
  BY PairFacts DEF PortsKept
<1> QED
  BY <1>1 DEF SomePlace, ReservedPort

\* The side of an invitation that its inviter sees.
SameKeys == UNCHANGED reserved /\ \A i \in Inv : remote'[<<i, inviterOf[i]>>] = remote[<<i, inviterOf[i]>>]

LEMMA KeysStay ==
    ASSUME KeysInv, SameKeys
    PROVE  KeysInv'
BY DEF KeysInv, SameKeys

LEMMA KeptQuiet ==
    ASSUME KeptInv, PortsKept, SameKeys, UNCHANGED <<attached, pipes, ports, made>>
    PROVE  KeptInv'
BY KeysStay, SomePlaceStays DEF KeptInv, SameKeys

LEMMA KeptAttach ==
    ASSUME TypeOK, PortsInv, KeptInv, PortsKept,
           NEW c \in Call, NEW i \in Inv, NEW name \in Name, Attach(c, i, name)
    PROVE  KeptInv'
<1>1. /\ c \notin made /\ made' = made \cup {c} /\ ports' = ports \cup {Port0(c), Port1(c)}
      /\ UNCHANGED <<reserved, remote>>
  BY DEF Attach, nodeVars, CreatePortPair
<1>2. /\ attached \in [Inv \X Name -> PortName] /\ pipes \subseteq Port
      /\ nameOf \in [Port -> Name \cup {None}] /\ offeredBy \in [Port -> Inv \cup {None}]
  BY DEF TypeOK, CoreTypeOK
<1>3. KeysInv'
  BY <1>1, KeysStay DEF KeptInv, SameKeys
<1>4. offeredBy[Port1(c)] = None
  BY <1>1, PairFacts DEF PortsInv, PairInv, Fresh
<1>5. SomePlace(c)'
  <2>1. CASE attached[<<i, name>>] = None
    <3>1. attached'[<<i, name>>] = Port1(c) /\ offeredBy'[Port1(c)] = i /\ nameOf'[Port1(c)] = name
      BY <1>2, <2>1, PairFacts DEF Attach
    <3> QED
      BY <1>1, <3>1 DEF SomePlace
  <2>2. CASE attached[<<i, name>>] # None
    <3>1. offeredBy'[Port1(c)] = None
      BY <1>4, <2>2 DEF Attach
    <3> QED
      BY <3>1 DEF SomePlace
  <2> QED
    BY <2>1, <2>2
<1>6. ASSUME NEW d \in Call, d # c PROVE SomePlace(d)'
  <2> SUFFICES ASSUME d \in made', offeredBy'[Port1(d)] # None
               PROVE  SomePlace(d)'
    BY DEF SomePlace
  <2>1. d \in made /\ offeredBy'[Port1(d)] = offeredBy[Port1(d)] /\ nameOf'[Port1(d)] = nameOf[Port1(d)]
    BY <1>1, <1>6, PairFacts DEF PortsKept
  <2>2. /\ Port1(d) \in ports' <=> Port1(d) \in ports
        /\ Port1(d) \in pipes' <=> Port1(d) \in pipes
    BY <1>1, <1>6, PairFacts DEF Attach, GetHandle
  <2>3. \A e \in Inv \X Name : attached[e] = Port1(d) => attached'[e] = Port1(d)
    BY <1>2, PairFacts, NoneFacts DEF Attach
  <2>4. offeredBy[Port1(d)] \in Inv /\ nameOf[Port1(d)] \in Name
    <3>1. OfferInv(d)
      BY DEF PortsInv
    <3>2. offeredBy[Port1(d)] \in Inv
      BY <1>2, <2>1, PairFacts
    <3> QED
      BY <2>1, <3>1, <3>2 DEF OfferInv
  <2>5. <<offeredBy[Port1(d)], nameOf[Port1(d)]>> \in Inv \X Name
    BY <2>4
  <2>6. SomePlace(d)
    BY DEF KeptInv
  <2>7. \A n, k, m : ReservedPort(n, k, m)' = ReservedPort(n, k, m)
    BY <1>1 DEF ReservedPort
  <2> QED
    BY <2>1, <2>2, <2>3, <2>5, <2>6, <2>7 DEF SomePlace
<1> QED
  BY <1>3, <1>5, <1>6 DEF KeptInv

LEMMA KeptExtract ==
    ASSUME TypeOK, PortsInv, KeptInv, PortsKept,
           NEW c \in Call, NEW i \in Inv, NEW name \in Name, Extract(c, i, name)
    PROVE  KeptInv'
<1>1. /\ c \notin made /\ made' = made \cup {c} /\ ports' = ports \cup {Port0(c), Port1(c)}
      /\ pipes' = pipes \cup {Port0(c)}
      /\ UNCHANGED <<reserved, remote, attached, offeredBy>>
  BY DEF Extract, CreatePortPair, GetHandle
<1>2. KeysInv'
  BY <1>1, KeysStay DEF KeptInv, SameKeys
<1>3. offeredBy'[Port1(c)] = None
  BY <1>1, PairFacts DEF PortsInv, PairInv, Fresh
<1>4. SomePlace(c)'
  BY <1>3 DEF SomePlace
<1>5. ASSUME NEW d \in Call, d # c PROVE SomePlace(d)'
  <2>1. CASE d \notin made
    BY <1>1, <1>5, <2>1 DEF SomePlace
  <2>2. CASE d \in made
    <3>1. offeredBy'[Port1(d)] = offeredBy[Port1(d)] /\ nameOf'[Port1(d)] = nameOf[Port1(d)]
      BY <2>2, PairFacts DEF PortsKept
    <3>2. /\ Port1(d) \in ports' <=> Port1(d) \in ports
          /\ Port1(d) \in pipes' <=> Port1(d) \in pipes
      BY <1>1, <1>5, PairFacts
    <3>3. SomePlace(d)
      BY DEF KeptInv
    <3>4. \A n, k, m : ReservedPort(n, k, m)' = ReservedPort(n, k, m)
      BY <1>1 DEF ReservedPort
    <3> QED
      BY <1>1, <2>2, <3>1, <3>2, <3>3, <3>4 DEF SomePlace
  <2> QED
    BY <2>1, <2>2
<1> QED
  BY <1>2, <1>4, <1>5 DEF KeptInv

LEMMA OfferedPort ==
    ASSUME TypeOK, PortsInv, NEW d \in Call, offeredBy[Port1(d)] # None
    PROVE  \E j \in Inv, name \in Name, p \in Port :
             j = offeredBy[Port1(d)] /\ name = nameOf[Port1(d)] /\ p = Port1(d)
<1>1. OfferInv(d)
  BY DEF PortsInv
<1>2. offeredBy[Port1(d)] \in Inv
  BY PairFacts DEF TypeOK, CoreTypeOK
<1> QED
  BY <1>1, <1>2, PairFacts DEF OfferInv

\* The table of the dispatcher becomes the entry of the temporary name, which is new.
LEMMA KeptSendInvitation ==
    ASSUME TypeOK, PortsInv, KeptInv, PortsKept, NEW i \in Inv, CoreSendInvitation(i)
    PROVE  KeptInv'
<1>1. PICK n \in Node : n = inviterOf[i]
  BY InvFacts
<1>2. /\ remote[<<i, n>>] = None /\ remote' = [remote EXCEPT ![<<i, n>>] = i]
      /\ reserved' = [reserved EXCEPT ![<<n, i>>] = [m \in Name |-> attached[<<i, m>>]]]
      /\ attached' = [e \in Inv \X Name |-> IF e[1] = i THEN None ELSE attached[e]]
      /\ UNCHANGED <<ports, made, pipes, nameOf, offeredBy>>
  BY <1>1 DEF CoreSendInvitation, SendInvitation, portVars
<1>3. /\ reserved \in [Node \X NodeName -> PortMap \cup {None}]
      /\ remote \in [Inv \X Node -> NodeName] /\ i \in NodeName /\ i # None
      /\ [m \in Name |-> attached[<<i, m>>]] # None
  <2>1. reserved \in [Node \X NodeName -> PortMap \cup {None}] /\ remote \in [Inv \X Node -> NodeName]
    BY DEF TypeOK, NodeTypeOK
  <2>2. [m \in Name |-> attached[<<i, m>>]] \in [Name -> PortName]
    BY DEF TypeOK, CoreTypeOK
  <2> QED
    BY <2>1, <2>2, NoneFacts, InvitationAssumption DEF NodeName
<1>4. /\ \A m \in Name : ReservedPort(n, i, m) = None /\ ReservedPort(n, i, m)' = attached[<<i, m>>]
      /\ \A k \in Node, l \in NodeName, m \in Name :
           <<k, l>> # <<n, i>> => ReservedPort(k, l, m)' = ReservedPort(k, l, m)
  <2>1. reserved[<<n, i>>] = None
    BY <1>1, <1>2 DEF KeptInv, KeysInv
  <2> QED
    BY <1>2, <1>3, <2>1 DEF ReservedPort
<1>5. KeysInv'
  <2> SUFFICES ASSUME NEW j \in Inv
               PROVE  /\ reserved'[<<inviterOf[j], j>>] # None => remote'[<<j, inviterOf[j]>>] # None
                      /\ reserved'[<<inviterOf[j], inviteeOf[j]>>] # None
                           => remote'[<<j, inviterOf[j]>>] = inviteeOf[j]
    BY DEF KeysInv
  <2>1. /\ inviterOf[j] \in Node /\ inviteeOf[j] \in Node /\ inviteeOf[j] \in NodeName /\ j \in NodeName
        /\ inviteeOf[j] # i
    BY InvFacts, NoneFacts DEF NodeName
  <2>2. reserved'[<<inviterOf[j], inviteeOf[j]>>] = reserved[<<inviterOf[j], inviteeOf[j]>>]
    BY <1>2, <1>3, <2>1
  <2>3. j # i => /\ reserved'[<<inviterOf[j], j>>] = reserved[<<inviterOf[j], j>>]
                 /\ remote'[<<j, inviterOf[j]>>] = remote[<<j, inviterOf[j]>>]
    BY <1>2, <1>3, <2>1
  <2>4. remote'[<<i, n>>] = i
    BY <1>2, <1>3
  <2>5. /\ reserved[<<inviterOf[j], j>>] # None => remote[<<j, inviterOf[j]>>] # None
        /\ reserved[<<inviterOf[j], inviteeOf[j]>>] # None => remote[<<j, inviterOf[j]>>] = inviteeOf[j]
    BY DEF KeptInv, KeysInv
  <2>6. CASE j = i
    <3>1. reserved[<<n, inviteeOf[i]>>] = None
      BY <1>1, <1>2, <2>1, <2>5, <2>6, NoneFacts
    <3> QED
      BY <1>1, <1>3, <2>2, <2>4, <2>6, <3>1
  <2>7. CASE j # i
    BY <2>2, <2>3, <2>5, <2>7
  <2> QED
    BY <2>6, <2>7
<1>6. ASSUME NEW d \in Call PROVE SomePlace(d)'
  <2> SUFFICES ASSUME d \in made, offeredBy[Port1(d)] # None
               PROVE  SomePlace(d)'
    BY <1>2 DEF SomePlace
  <2>1. PICK j \in Inv, name \in Name, p \in Port :
          j = offeredBy[Port1(d)] /\ name = nameOf[Port1(d)] /\ p = Port1(d)
    BY OfferedPort
  <2>2. /\ \/ attached[<<j, name>>] = p
           \/ \E k \in {j, inviteeOf[j]} : ReservedPort(inviterOf[j], k, name) = p
           \/ p \in pipes
           \/ p \notin ports
        /\ p \in pipes => p \in ports
    BY <2>1 DEF KeptInv, SomePlace
  <2>3. inviterOf[j] \in Node /\ inviteeOf[j] \in NodeName /\ j \in NodeName
    BY InvFacts DEF NodeName
  <2>4. attached[<<j, name>>] = p =>
          attached'[<<j, name>>] = p \/ ReservedPort(inviterOf[j], j, name)' = p
    BY <1>1, <1>2, <1>4
  <2>5. \A k \in {j, inviteeOf[j]} :
          ReservedPort(inviterOf[j], k, name) = p => ReservedPort(inviterOf[j], k, name)' = p
    BY <1>4, <2>3, NoneFacts
  <2> QED
    BY <1>2, <2>1, <2>2, <2>4, <2>5 DEF SomePlace
<1> QED
  BY <1>5, <1>6 DEF KeptInv

LEMMA KeptExtractLocal ==
    ASSUME TypeOK, PortsInv, KeptInv, PortsKept, NEW i \in Inv, NEW name \in Name,
           ExtractLocal(i, name)
    PROVE  KeptInv'
<1>1. PICK p \in Port : p = attached[<<i, name>>]
  BY DEF ExtractLocal, TypeOK, CoreTypeOK, PortName
<1>2. /\ attached' = [attached EXCEPT ![<<i, name>>] = None] /\ pipes' = pipes \cup {p}
      /\ UNCHANGED <<ports, made, nameOf, offeredBy, reserved, remote>>
  BY <1>1 DEF ExtractLocal, GetHandle, portVars, nodeVars
<1>3. p \in ports
  BY <1>1 DEF PortsInv, AttachedInv, Waits
<1>4. KeysInv'
  BY <1>2, KeysStay DEF KeptInv, SameKeys
<1>5. ASSUME NEW d \in Call PROVE SomePlace(d)'
  <2>1. SomePlace(d)
    BY DEF KeptInv
  <2>2. \A e : attached[e] = Port1(d) => attached'[e] = Port1(d) \/ e = <<i, name>>
    BY <1>2 DEF TypeOK, CoreTypeOK
  <2>3. \A n, k, m : ReservedPort(n, k, m)' = ReservedPort(n, k, m)
    BY <1>2 DEF ReservedPort
  <2> QED
    BY <1>1, <1>2, <1>3, <2>1, <2>2, <2>3 DEF SomePlace
<1> QED
  BY <1>4, <1>5 DEF KeptInv

\* The entry of the invitee's real name is free when the answer comes, so the ports of the
\* temporary entry move into it.
LEMMA KeptInviterAccept ==
    ASSUME InvitedOnce, TypeOK, HandshakeInv, PortsInv, KeptInv, PortsKept,
           NEW i \in Inv, NEW n \in Node, <<i, n>> \in End,
           HandleAcceptInvitation(i, n), UNCHANGED coreVars
    PROVE  KeptInv'
<1>1. PICK b \in Node : b = inviteeOf[i]
  BY InvFacts
<1>2. /\ n = inviterOf[i] /\ remote[<<i, n>>] = i
      /\ remote' = [remote EXCEPT ![<<i, n>>] = b]
      /\ reserved' = MoveReserved(n, i, b)
      /\ UNCHANGED <<ports, made, pipes, nameOf, offeredBy, attached>>
  BY <1>1, InviterAcceptStep DEF Answered, Pending, portVars, coreVars
<1>3. /\ reserved \in [Node \X NodeName -> PortMap \cup {None}]
      /\ remote \in [Inv \X Node -> NodeName]
      /\ i \in NodeName /\ b \in NodeName /\ b # i
  BY NoneFacts DEF TypeOK, NodeTypeOK, NodeName
<1>4. reserved[<<n, b>>] = None
  BY <1>1, <1>2, <1>3 DEF KeptInv, KeysInv
<1>5. /\ reserved'[<<n, i>>] = None /\ reserved'[<<n, b>>] = reserved[<<n, i>>]
      /\ \A k \in Node, l \in NodeName :
           <<k, l>> \notin {<<n, i>>, <<n, b>>} => reserved'[<<k, l>>] = reserved[<<k, l>>]
  BY <1>2, <1>3, <1>4 DEF MoveReserved
<1>6. /\ \A m \in Name : ReservedPort(n, b, m)' = ReservedPort(n, i, m) /\ ReservedPort(n, b, m) = None
      /\ \A k \in Node, l \in NodeName, m \in Name :
           <<k, l>> \notin {<<n, i>>, <<n, b>>} => ReservedPort(k, l, m)' = ReservedPort(k, l, m)
  BY <1>4, <1>5 DEF ReservedPort
<1>7. KeysInv'
  <2> SUFFICES ASSUME NEW j \in Inv
               PROVE  /\ reserved'[<<inviterOf[j], j>>] # None => remote'[<<j, inviterOf[j]>>] # None
                      /\ reserved'[<<inviterOf[j], inviteeOf[j]>>] # None
                           => remote'[<<j, inviterOf[j]>>] = inviteeOf[j]
    BY DEF KeysInv
  <2>1. /\ inviterOf[j] \in Node /\ inviteeOf[j] \in NodeName /\ j \in NodeName
        /\ inviteeOf[j] # i /\ j # b
    BY InvFacts, NoneFacts DEF NodeName
  <2>2. /\ reserved[<<inviterOf[j], j>>] # None => remote[<<j, inviterOf[j]>>] # None
        /\ reserved[<<inviterOf[j], inviteeOf[j]>>] # None => remote[<<j, inviterOf[j]>>] = inviteeOf[j]
    BY DEF KeptInv, KeysInv
  <2>3. remote'[<<i, n>>] = b
    BY <1>2, <1>3
  <2>4. CASE j = i
    BY <1>1, <1>2, <2>3, <2>4, NoneFacts
  <2>5. CASE j # i
    <3>1. remote'[<<j, inviterOf[j]>>] = remote[<<j, inviterOf[j]>>]
      BY <1>2, <1>3, <2>1, <2>5
    <3>2. <<inviterOf[j], inviteeOf[j]>> \notin {<<n, i>>, <<n, b>>}
      BY <1>1, <1>2, <2>1, <2>5 DEF InvitedOnce
    <3>3. <<inviterOf[j], j>> \notin {<<n, i>>, <<n, b>>}
      BY <2>1, <2>5
    <3> QED
      BY <1>5, <2>1, <2>2, <3>1, <3>2, <3>3
  <2> QED
    BY <2>4, <2>5
<1>8. ASSUME NEW d \in Call PROVE SomePlace(d)'
  <2> SUFFICES ASSUME d \in made, offeredBy[Port1(d)] # None
               PROVE  SomePlace(d)'
    BY <1>2 DEF SomePlace
  <2>1. PICK j \in Inv, name \in Name, p \in Port :
          j = offeredBy[Port1(d)] /\ name = nameOf[Port1(d)] /\ p = Port1(d)
    BY OfferedPort
  <2>2. SomePlace(d)
    BY DEF KeptInv
  <2>3. ASSUME NEW k \in {j, inviteeOf[j]}, ReservedPort(inviterOf[j], k, name) = p
        PROVE  \E l \in {j, inviteeOf[j]} : ReservedPort(inviterOf[j], l, name)' = p
    <3>1. inviterOf[j] \in Node /\ inviteeOf[j] \in Node /\ k \in NodeName
      BY InvFacts DEF NodeName
    <3>2. CASE <<inviterOf[j], k>> = <<n, i>>
      <4>1. j = i
        BY <3>1, <3>2, NoneFacts
      <4> QED
        BY <1>1, <1>2, <1>6, <2>3, <3>2, <4>1
    <3>3. CASE <<inviterOf[j], k>> = <<n, b>>
      BY <1>6, <2>3, <3>3, NoneFacts
    <3>4. CASE <<inviterOf[j], k>> \notin {<<n, i>>, <<n, b>>}
      BY <1>6, <2>3, <3>1, <3>4
    <3> QED
      BY <3>2, <3>3, <3>4
  <2> QED
    BY <1>2, <2>1, <2>2, <2>3 DEF SomePlace
<1> QED
  BY <1>7, <1>8 DEF KeptInv

\* The reserved port that a request is granted is merged, and the other ones stay.
LEMMA KeptRequestPortMerge ==
    ASSUME TypeOK, HandshakeInv, PeersInv, PortsInv, KeptInv, PortsKept,
           NEW i \in Inv, NEW n \in Node, <<i, n>> \in End,
           HandleRequestPortMerge(i, n), UNCHANGED coreVars
    PROVE  KeptInv'
<1>1. PICK m, from : m = Head(chan[<<i, n>>]) /\ from = Other(i, n)
  OBVIOUS
<1>2. /\ from \in Node /\ m.name \in Name
      /\ UNCHANGED <<remote, made, offeredBy, nameOf, pipes, attached>>
  BY <1>1, RequestMerge DEF HandleRequestPortMerge, coreVars
<1>3. CASE UNCHANGED <<portVars, reserved, io>>
  BY <1>2, <1>3, KeptQuiet DEF SameKeys, portVars
<1>4. ASSUME NEW c \in Call, NEW j \in Inv, c \in made, Paired(c),
             ReservedPort(n, from, m.name) = Port1(c),
             ReservedFor(Port1(c), j, n, from, m.name),
             reserved' = TakeReserved(n, from, m.name), StoreNode(Port1(c), from)
      PROVE  KeptInv'
  <2>1. ports' = ports \ {Port1(c)} /\ Port1(c) \notin pipes
    BY <1>4 DEF StoreNode, ReservedFor, Waits
  <2>2. reserved \in [Node \X NodeName -> PortMap \cup {None}] /\ from \in NodeName
    BY <1>2 DEF TypeOK, NodeTypeOK, NodeName
  <2>3. reserved[<<n, from>>] \in PortMap /\ reserved[<<n, from>>] # None
    BY <1>4, <2>2, PairFacts, NoneFacts DEF ReservedPort
  <2>4. PICK left : left = [reserved[<<n, from>>] EXCEPT ![m.name] = None]
    OBVIOUS
  <2>5. /\ \A l \in Name \ {m.name} : left[l] = reserved[<<n, from>>][l]
        /\ left \in PortMap
    BY <2>3, <2>4 DEF PortMap, PortName
  <2>6. /\ \A k \in Node, l \in NodeName :
             <<k, l>> # <<n, from>> => reserved'[<<k, l>>] = reserved[<<k, l>>]
        /\ reserved'[<<n, from>>] = IF left = EmptyPortMap THEN None ELSE left
    BY <1>4, <2>2, <2>4 DEF TakeReserved
  <2>7. ASSUME NEW k \in Node, NEW l \in NodeName, NEW name \in Name,
               <<k, l, name>> # <<n, from, m.name>>
        PROVE  ReservedPort(k, l, name)' = ReservedPort(k, l, name)
    <3>1. CASE <<k, l>> # <<n, from>>
      BY <2>6, <3>1 DEF ReservedPort
    <3>2. CASE <<k, l>> = <<n, from>> /\ left = EmptyPortMap
      <4>1. left[name] = None
        BY <3>2 DEF EmptyPortMap
      <4> QED
        BY <2>3, <2>5, <2>6, <2>7, <3>2, <4>1 DEF ReservedPort
    <3>3. CASE <<k, l>> = <<n, from>> /\ left # EmptyPortMap
      <4>1. left # None
        BY <2>5, InvitationAssumption DEF PortMap
      <4> QED
        BY <2>3, <2>5, <2>6, <2>7, <3>3, <4>1 DEF ReservedPort
    <3> QED
      BY <3>1, <3>2, <3>3
  <2>8. KeysInv'
    <3>1. \A e \in Node \X NodeName : reserved'[e] # None => reserved[e] # None
      BY <2>3, <2>6
    <3>2. \A x \in Inv : inviterOf[x] \in Node /\ inviteeOf[x] \in NodeName /\ x \in NodeName
      BY InvFacts DEF NodeName
    <3> QED
      BY <1>2, <3>1, <3>2 DEF KeptInv, KeysInv
  <2>9. ASSUME NEW d \in Call PROVE SomePlace(d)'
    <3> SUFFICES ASSUME d \in made, offeredBy[Port1(d)] # None
                 PROVE  SomePlace(d)'
      BY <1>2 DEF SomePlace
    <3>1. PICK x \in Inv, name \in Name, p \in Port :
            x = offeredBy[Port1(d)] /\ name = nameOf[Port1(d)] /\ p = Port1(d)
      BY OfferedPort
    <3>2. SomePlace(d)
      BY DEF KeptInv
    <3>3. CASE p = Port1(c)
      BY <1>2, <2>1, <3>1, <3>3 DEF SomePlace
    <3>4. CASE p # Port1(c)
      <4>1. \A k \in {x, inviteeOf[x]} : ReservedPort(inviterOf[x], k, name) = p
              => ReservedPort(inviterOf[x], k, name)' = p
        <5>1. inviterOf[x] \in Node /\ inviteeOf[x] \in NodeName /\ x \in NodeName
          BY InvFacts DEF NodeName
        <5> QED
          BY <1>4, <2>7, <3>4, <5>1
      <4> QED
        BY <1>2, <2>1, <3>1, <3>2, <3>4, <4>1 DEF SomePlace
    <3> QED
      BY <3>3, <3>4
  <2> QED
    BY <2>8, <2>9 DEF KeptInv
<1> QED
  BY <1>1, <1>3, <1>4, RequestMerge

\* The answer merges the pair of an extracted end, which was attached to nothing.
LEMMA KeptResponsePortMerge ==
    ASSUME TypeOK, HandshakeInv, PeersInv, PortsInv, KeptInv, PortsKept,
           NEW i \in Inv, NEW n \in Node, <<i, n>> \in End,
           HandleResponsePortMerge(i, n), UNCHANGED coreVars
    PROVE  KeptInv'
<1>1. PICK m, from : m = Head(chan[<<i, n>>]) /\ from = Other(i, n)
  OBVIOUS
<1>2. UNCHANGED <<remote, reserved, made, offeredBy, nameOf, pipes, attached>>
  BY DEF HandleResponsePortMerge, coreVars
<1>3. CASE UNCHANGED <<portVars, io>>
  BY <1>2, <1>3, KeptQuiet DEF SameKeys, portVars
<1>4. ASSUME NEW c \in Call, offeredBy[Port0(c)] = None, StoreNode(Port1(c), from)
      PROVE  KeptInv'
  <2>1. ports' = ports \ {Port1(c)}
    BY <1>4 DEF StoreNode
  <2>2. offeredBy[Port1(c)] = None
    BY <1>4 DEF PortsInv, OfferInv
  <2>3. KeysInv'
    BY <1>2, KeysStay DEF KeptInv, SameKeys
  <2>4. ASSUME NEW d \in Call PROVE SomePlace(d)'
    <3>1. SomePlace(d)
      BY DEF KeptInv
    <3>2. \A k, l, y : ReservedPort(k, l, y)' = ReservedPort(k, l, y)
      BY <1>2 DEF ReservedPort
    <3>3. CASE offeredBy[Port1(d)] = None
      BY <1>2, <3>3 DEF SomePlace
    <3>4. CASE offeredBy[Port1(d)] # None
      <4>1. Port1(d) \in ports' <=> Port1(d) \in ports
        BY <2>1, <2>2, <3>4
      <4> QED
        BY <1>2, <3>1, <3>2, <4>1 DEF SomePlace
    <3> QED
      BY <3>3, <3>4
  <2> QED
    BY <2>3, <2>4 DEF KeptInv
<1> QED
  BY <1>1, <1>3, <1>4, ResponseMerge

\* What the invitee's threads write on its side of a channel is not the inviter's.
LEMMA InviteesSide ==
    ASSUME TypeOK, HandshakeInv, NEW n \in Node, IoSendAccept(n) \/ IoAddPeer(n)
    PROVE  \A i \in Inv : remote'[<<i, inviterOf[i]>>] = remote[<<i, inviterOf[i]>>]
<1>1. PICK j \in Inv, k \in Node : inviteeOf[j] = n /\ remote' = [remote EXCEPT ![<<j, n>>] = k]
  <2>1. crashed[n] = "no" /\ io[n].step \in {"accept", "add_peer"}
    BY DEF IoSendAccept, IoAddPeer, IoAt
  <2>2. io[n].token \in Inv /\ io[n].inviter \in Node
    BY <2>1 DEF TypeOK, NodeTypeOK, IoState
  <2>3. inviterChan[n] = io[n].token /\ inviteeOf[io[n].token] = n
    BY <2>1 DEF HandshakeInv, HandlesOffer
  <2> QED
    BY <2>2, <2>3 DEF IoSendAccept, IoAddPeer
<1> QED
  BY <1>1, InvFacts DEF TypeOK, NodeTypeOK

LEMMA KeptStep ==
    ASSUME InvitedOnce, TypeOK, HandshakeInv, PeersInv, PortsInv, KeptInv, [Next]_vars
    PROVE  KeptInv'
<1>1. PortsKept
  BY PortsKeptStep
<1>2. ASSUME NEW e \in End, Handle(e[1], e[2]), UNCHANGED coreVars
      PROVE  KeptInv'
  <2>1. e[1] \in Inv /\ e[2] \in Node /\ <<e[1], e[2]>> \in End
    BY DEF End
  <2>2. HandleAcceptInvitee(e[1], e[2]) \/ HandleUserMessage(e[1], e[2]) => KeptInv'
    BY <1>1, <1>2, KeptQuiet DEF HandleAcceptInvitee, HandleUserMessage, AcceptMessage, portVars,
       coreVars, SameKeys
  <2> QED
    BY <1>1, <1>2, <2>1, <2>2, KeptInviterAccept, KeptRequestPortMerge, KeptResponsePortMerge DEF Handle
<1>3. ASSUME NEW n \in Node, IoContinue(n), UNCHANGED coreVars
      PROVE  KeptInv'
  <2>1. IoTakePending(n) \/ IoFlush(n) \/ IoStorePort(n) \/ IoRespond(n) => KeptInv'
    BY <1>1, <1>3, KeptQuiet DEF IoTakePending, IoFlush, IoStorePort, StorePort, IoRespond,
       portVars, coreVars, SameKeys
  <2>2. IoSendAccept(n) \/ IoAddPeer(n) => KeptInv'
    <3>1. ASSUME IoSendAccept(n) \/ IoAddPeer(n) PROVE KeptInv'
      <4>1. SameKeys /\ UNCHANGED <<attached, pipes, ports, made>>
        BY <1>3, <3>1, InviteesSide DEF IoSendAccept, IoAddPeer, portVars, coreVars, SameKeys
      <4> QED
        BY <1>1, <4>1, KeptQuiet
    <3> QED
      BY <3>1
  <2> QED
    BY <1>3, <2>1, <2>2 DEF IoContinue
<1>4. ASSUME App
      PROVE  KeptInv'
  <2>1. ASSUME NEW i \in Inv, CoreAcceptInvitation(i) PROVE KeptInv'
    BY <1>1, <2>1, KeptQuiet DEF CoreAcceptInvitation, AcceptInvitation, portVars, coreVars, SameKeys
  <2>2. ASSUME NEW n \in Node, CoreSendRequest(n) \/ WriteForward(n) PROVE KeptInv'
    BY <1>1, <2>2, KeptQuiet DEF CoreSendRequest, SendRequest, WriteForward, portVars, coreVars, SameKeys
  <2>3. ASSUME NEW p \in Port, NEW m \in Msg, Write(p, m) PROVE KeptInv'
    BY <1>1, <2>3, KeptQuiet DEF Write, portVars, SameKeys
  <2>4. ASSUME NEW p \in Port, Read(p) PROVE KeptInv'
    BY <1>1, <2>4, KeptQuiet DEF Read, GetNextMessage, nodeVars, SameKeys
  <2> QED
    BY <1>1, <1>4, <2>1, <2>2, <2>3, <2>4, KeptAttach, KeptSendInvitation, KeptExtractLocal,
       KeptExtract DEF App
<1>5. CASE UNCHANGED vars
  BY <1>1, <1>5, KeptQuiet DEF vars, portVars, nodeVars, coreVars, SameKeys
<1> QED
  BY <1>2, <1>3, <1>4, <1>5 DEF Next, Io

LEMMA KeptAlways == ASSUME InvitedOnce PROVE Spec => []KeptInv
<1>1. Init => KeptInv
  BY InvFacts DEF Init, NodeInit, KeptInv, KeysInv, SomePlace, NodeName
<1>2. TypeOK /\ HandshakeInv /\ PeersInv /\ PortsInv /\ KeptInv /\ [Next]_vars => KeptInv'
  BY KeptStep
<1> QED
  BY <1>1, <1>2, TypeCorrect, HandshakeCorrect, PeersCorrect, PortsCorrect, PTL DEF Spec

\* The place of a port: each of the four kinds rules out the others and itself elsewhere.
LEMMA OnePlaceLeft ==
    ASSUME TypeOK, PortsInv, KeptInv, NEW c \in Call, offeredBy[Port1(c)] # None
    PROVE  \E x : { <<"attached", e>> : e \in { e \in Inv \X Name : attached[e] = Port1(c) } }
                  \cup { <<"reserved", e>> : e \in { e \in Node \X NodeName :
                             \E m \in Name : ReservedPort(e[1], e[2], m) = Port1(c) } }
                  \cup { <<"extracted", q>> : q \in pipes \cap {Port1(c)} }
                  \cup { <<"merged", q>> : q \in {Port1(c)} \ ports } = {x}
<1>1. PICK i \in Inv, name \in Name, p \in Port :
        i = offeredBy[Port1(c)] /\ name = nameOf[Port1(c)] /\ p = Port1(c)
  BY OfferedPort
<1>2. PICK n \in Node, b \in Node : n = inviterOf[i] /\ b = inviteeOf[i]
  BY InvFacts
<1>3. c \in made
  BY PairFacts DEF PortsInv, PairInv, Fresh
<1>4. /\ attached[<<i, name>>] = p \/ ReservedPort(n, i, name) = p \/ ReservedPort(n, b, name) = p
           \/ p \in pipes \/ p \notin ports
      /\ p \in pipes => p \in ports
  BY <1>1, <1>2, <1>3 DEF KeptInv, SomePlace
<1> DEFINE A == { e \in Inv \X Name : attached[e] = p }
           R == { e \in Node \X NodeName : \E m \in Name : ReservedPort(e[1], e[2], m) = p }
<1>5. ASSUME NEW e \in A
      PROVE  e = <<i, name>> /\ p \in ports /\ p \notin pipes /\ attached[<<i, name>>] = p
  <2>1. Waits(p, e[1], e[2]) /\ e = <<e[1], e[2]>>
    BY DEF PortsInv, AttachedInv
  <2> QED
    BY <1>1, <2>1 DEF Waits
<1>6. ASSUME NEW e \in R
      PROVE  /\ e \in {<<n, i>>, <<n, b>>} /\ p \in ports /\ p \notin pipes
             /\ ReservedPort(e[1], e[2], name) = p
             /\ attached[<<i, name>>] # p
             /\ e = <<n, i>> => ReservedPort(n, b, name) # p
  <2>1. PICK m \in Name : ReservedPort(e[1], e[2], m) = p
    OBVIOUS
  <2>2. PICK j \in Inv : ReservedFor(p, j, e[1], e[2], m)
    BY <2>1 DEF PortsInv, ReservedInv
  <2>3. j = i /\ m = name /\ p \in ports /\ p \notin pipes
    BY <1>1, <2>2 DEF ReservedFor, Waits
  <2> QED
    BY <1>2, <2>1, <2>2, <2>3 DEF ReservedFor
<1>7. \A e \in R, f \in R : e = f
  <2>1. i # b
    BY <1>2, NoneFacts
  <2> QED
    BY <1>6, <2>1
<1>8. CASE A # {}
  <2>1. A = {<<i, name>>} /\ R = {} /\ pipes \cap {p} = {} /\ {p} \ ports = {}
    BY <1>5, <1>6, <1>8
  <2>2. { <<"attached", e>> : e \in A } \cup { <<"reserved", e>> : e \in R }
        \cup { <<"extracted", q>> : q \in pipes \cap {p} } \cup { <<"merged", q>> : q \in {p} \ ports }
        = {<<"attached", <<i, name>>>>}
    BY <2>1
  <2> QED
    BY ZenonT(60), <1>1, <2>2
<1>9. CASE R # {}
  <2>1. PICK e \in R : TRUE
    BY <1>9
  <2>2. A = {} /\ R = {e} /\ pipes \cap {p} = {} /\ {p} \ ports = {}
    BY <1>5, <1>6, <1>7, <2>1
  <2>3. { <<"attached", f>> : f \in A } \cup { <<"reserved", f>> : f \in R }
        \cup { <<"extracted", q>> : q \in pipes \cap {p} } \cup { <<"merged", q>> : q \in {p} \ ports }
        = {<<"reserved", e>>}
    BY <2>2
  <2> QED
    BY <1>1, <2>3
<1>10. CASE A = {} /\ R = {}
  <2>1. p \in pipes \/ p \notin ports
    <3>1. n \in Node /\ i \in NodeName /\ b \in NodeName
      BY DEF NodeName
    <3>2. ASSUME NEW k \in {i, b} PROVE ReservedPort(n, k, name) # p
      <4>1. <<n, k>> \notin R
        BY <1>10
      <4> QED
        BY <3>1, <4>1
    <3>3. attached[<<i, name>>] # p
      BY <1>10
    <3> QED
      BY <1>4, <3>2, <3>3
  <2>2. CASE p \in pipes
    <3>1. { <<"attached", e>> : e \in A } \cup { <<"reserved", e>> : e \in R }
          \cup { <<"extracted", q>> : q \in pipes \cap {p} } \cup { <<"merged", q>> : q \in {p} \ ports }
          = {<<"extracted", p>>}
      BY <1>4, <1>10, <2>2
    <3> QED
      BY ZenonT(60), <1>1, <3>1
  <2>3. CASE p \notin ports
    <3>1. { <<"attached", e>> : e \in A } \cup { <<"reserved", e>> : e \in R }
          \cup { <<"extracted", q>> : q \in pipes \cap {p} } \cup { <<"merged", q>> : q \in {p} \ ports }
          = {<<"merged", p>>}
      BY <1>4, <1>10, <2>3
    <3> QED
      BY <1>1, <3>1
  <2> QED
    BY <2>1, <2>2, <2>3
<1> QED
  BY <1>8, <1>9, <1>10

\* While no process invites another one twice, OnAcceptInvitation moves the ports of the
\* temporary entry to a free one, and so a port that was attached is in just one place: it
\* is neither lost nor given to two requests.
THEOREM ReservedOnceCorrect == InvitedOnce /\ Spec => []ReservedOnce
<1>1. TypeOK /\ PortsInv /\ KeptInv => ReservedOnce
  BY OnePlaceLeft, FS_Singleton DEF ReservedOnce
<1>2. ASSUME InvitedOnce PROVE Spec => []ReservedOnce
  BY <1>1, <1>2, KeptAlways, TypeCorrect, PortsCorrect, PTL
<1> QED
  BY <1>2

\* Swapping the temporary name's entry into one under the real name loses no port, while no
\* process invites another one twice (of node_controller.cc:235, which `double' refutes for
\* repeated invitations).
THEOREM ReservedMovedCorrect == InvitedOnce /\ Spec => ReservedMoved
<1>1. ASSUME InvitedOnce, TypeOK, HandshakeInv, PeersInv, PortsInv, KeptInv, Next,
             NEW i \in Inv, NEW n, n = inviterOf[i], NEW b, b = inviteeOf[i],
             reserved[<<n, i>>] # None, reserved'[<<n, i>>] = None,
             NEW m \in Name, ReservedPort(n, i, m) # None
      PROVE  reserved'[<<n, b>>] # None /\ reserved'[<<n, b>>][m] = ReservedPort(n, i, m)
  <2>1. /\ reserved \in [Node \X NodeName -> PortMap \cup {None}]
        /\ n \in Node /\ b \in Node /\ i \in NodeName /\ b \in NodeName /\ i \notin Node
    BY <1>1, InvFacts, NoneFacts DEF TypeOK, NodeTypeOK, NodeName
  <2>2. reserved' # reserved
    BY <1>1
  <2>3. ASSUME NEW j \in Inv, CoreSendInvitation(j) PROVE FALSE
    <3>1. /\ reserved' = [reserved EXCEPT ![<<inviterOf[j], j>>] = [x \in Name |-> attached[<<j, x>>]]]
          /\ remote[<<j, inviterOf[j]>>] = None
      BY <2>3 DEF CoreSendInvitation, SendInvitation
    <3>2. reserved[<<inviterOf[j], j>>] = None
      BY <1>1, <3>1 DEF KeptInv, KeysInv
    <3>3. reserved'[<<n, i>>] = reserved[<<n, i>>]
      BY <1>1, <2>1, <3>1, <3>2
    <3> QED
      BY <1>1, <3>3
  <2>4. ASSUME NEW e \in End, HandleRequestPortMerge(e[1], e[2]), UNCHANGED coreVars PROVE FALSE
    <3>1. e[1] \in Inv /\ e[2] \in Node /\ <<e[1], e[2]>> \in End /\ Other(e[1], e[2]) \in Node
      BY EndPair DEF End
    <3>2. \/ UNCHANGED reserved
          \/ \E x : reserved' = TakeReserved(e[2], Other(e[1], e[2]), x)
      BY SMTT(60), <1>1, <2>4, <3>1, RequestMerge
    <3>3. <<n, i>> # <<e[2], Other(e[1], e[2])>>
      BY <2>1, <3>1
    <3>4. reserved'[<<n, i>>] = reserved[<<n, i>>]
      BY <2>1, <3>2, <3>3 DEF TakeReserved
    <3> QED
      BY <1>1, <3>4
  <2>5. PICK e \in End : HandleAcceptInvitation(e[1], e[2]) /\ UNCHANGED coreVars
    <3>1. ASSUME NEW e \in End, Handle(e[1], e[2]), ~ HandleAcceptInvitation(e[1], e[2]), UNCHANGED coreVars
          PROVE  FALSE
      BY <2>2, <2>4, <3>1 DEF Handle, HandleAcceptInvitee, HandleResponsePortMerge, HandleUserMessage
    <3>2. ASSUME NEW k \in Node, IoContinue(k) PROVE FALSE
      BY <2>2, <3>2 DEF IoContinue, IoSendAccept, IoAddPeer, IoTakePending, IoFlush, IoStorePort, IoRespond
    <3>3. ASSUME App PROVE FALSE
      BY <2>2, <2>3, <3>3 DEF App, Attach, CoreAcceptInvitation, AcceptInvitation, ExtractLocal, Extract,
         CoreSendRequest, SendRequest, Write, WriteForward, Read, nodeVars
    <3> QED
      BY <1>1, <3>1, <3>2, <3>3 DEF Next, Io
  <2>6. PICK j \in Inv, k \in Node : <<j, k>> \in End /\ HandleAcceptInvitation(j, k)
    BY <2>5 DEF End
  <2>7. /\ k = inviterOf[j] /\ remote[<<j, k>>] = j /\ inviteeOf[j] \in NodeName /\ inviteeOf[j] \in Node
        /\ reserved' = MoveReserved(k, j, inviteeOf[j])
    BY <1>1, <2>6, InviterAcceptStep, InvFacts DEF Answered, Pending, NodeName
  <2>8. j = i
    <3>1. CASE <<k, j>> # <<n, i>>
      <4>1. <<k, inviteeOf[j]>> # <<n, i>>
        BY <2>1, <2>7
      <4>2. reserved'[<<n, i>>] = reserved[<<n, i>>]
        BY <2>1, <2>7, <3>1, <4>1 DEF MoveReserved
      <4> QED
        BY <1>1, <4>2
    <3> QED
      BY <3>1
  <2>9. reserved[<<n, b>>] = None
    BY <1>1, <2>1, <2>7, <2>8, NoneFacts DEF KeptInv, KeysInv
  <2>10. reserved'[<<n, b>>] = reserved[<<n, i>>]
    BY <1>1, <2>1, <2>7, <2>8, <2>9 DEF MoveReserved
  <2> QED
    BY <1>1, <2>10 DEF ReservedPort
<1>2. InvitedOnce /\ TypeOK /\ HandshakeInv /\ PeersInv /\ PortsInv /\ KeptInv /\ [Next]_vars =>
        [\A i \in Inv :
         LET n == inviterOf[i]
             b == inviteeOf[i]
         IN  reserved[<<n, i>>] # None /\ reserved'[<<n, i>>] = None =>
               \A m \in Name : ReservedPort(n, i, m) # None =>
                 /\ reserved'[<<n, b>>] # None
                 /\ reserved'[<<n, b>>][m] = ReservedPort(n, i, m)]_vars
  BY <1>1
<1>3. ASSUME InvitedOnce PROVE Spec => ReservedMoved
  BY <1>2, <1>3, KeptAlways, TypeCorrect, HandshakeCorrect, PeersCorrect, PortsCorrect, PTL
     DEF Spec, ReservedMoved
<1> QED
  BY <1>3

-----------------------------------------------------------------------------
(* Each granted request is answered once.                                    *)

AnswersKept(q, d) ==
    \A e \in End, k \in Nat : AnswersInChan(e, k, q)' => AnswersInChan(e, k + d[e], q)

LEMMA AnswersSame ==
    ASSUME UNCHANGED chan, NEW q
    PROVE  AnswersKept(q, Still)
<1>1. \A e \in End, k \in Nat : k + Still[e] = k
  BY DEF Still
<1> QED
  BY <1>1 DEF AnswersKept, AnswersInChan

LEMMA AnswersSent ==
    ASSUME TypeOK, NEW e \in End, NEW m \in Message, chan' = [chan EXCEPT ![e] = Append(@, m)],
           NEW q, m.type # "ResponsePortMerge" \/ m.connector # q
    PROVE  AnswersKept(q, Still)
<1>1. ASSUME NEW f \in End, NEW k \in Nat, AnswersInChan(f, k, q)'
      PROVE  AnswersInChan(f, k, q)
  <2>1. k \in 1 .. Len(chan'[f]) /\ chan'[f][k].type = "ResponsePortMerge" /\ chan'[f][k].connector = q
    BY <1>1 DEF AnswersInChan
  <2>2. k \in 1 .. Len(chan[f]) /\ chan'[f][k] = chan[f][k]
    BY <2>1, SentAt
  <2> QED
    BY <2>1, <2>2 DEF AnswersInChan
<1>2. \A f \in End, k \in Nat : k + Still[f] = k
  BY DEF Still
<1> QED
  BY <1>1, <1>2 DEF AnswersKept

LEMMA AnswersTaken ==
    ASSUME TypeOK, NEW i \in Inv, NEW n \in Node, <<i, n>> \in End, chan[<<i, n>>] # <<>>,
           Pop(i, n), NEW q
    PROVE  AnswersKept(q, Up(<<i, n>>))
<1>1. ASSUME NEW f \in End, NEW k \in Nat, AnswersInChan(f, k, q)', f # <<i, n>>
      PROVE  AnswersInChan(f, k + Up(<<i, n>>)[f], q)
  <2>1. chan'[f] = chan[f] /\ Up(<<i, n>>)[f] = 0 /\ k + 0 = k
    BY <1>1, TookAt, StillUp
  <2> QED
    BY <1>1, <2>1 DEF AnswersInChan
<1>2. ASSUME NEW k \in Nat, AnswersInChan(<<i, n>>, k, q)'
      PROVE  AnswersInChan(<<i, n>>, k + Up(<<i, n>>)[<<i, n>>], q)
  <2>1. /\ k \in 1 .. Len(chan'[<<i, n>>]) /\ chan'[<<i, n>>][k].type = "ResponsePortMerge"
        /\ chan'[<<i, n>>][k].connector = q
    BY <1>2 DEF AnswersInChan
  <2>2. k + 1 \in 1 .. Len(chan[<<i, n>>]) /\ chan'[<<i, n>>][k] = chan[<<i, n>>][k + 1]
    BY <2>1, TookAt
  <2>3. Up(<<i, n>>)[<<i, n>>] = 1
    BY StillUp
  <2> QED
    BY <2>1, <2>2, <2>3 DEF AnswersInChan
<1> QED
  BY <1>1, <1>2 DEF AnswersKept

\* An answer to the peer of q stays where it is, moves up in its channel, or is taken, and
\* the pair of q stays whole.
LEMMA AnsweredKept ==
    ASSUME NEW q, AnsweredOnce(q), NEW d \in [End -> Nat], AnswersKept(q, d),
           \A n \in Node : AnswersInIo(n, q)' => AnswersInIo(n, q),
           Sibling(q) \in ports => Sibling(q) \in ports'
    PROVE  AnsweredOnce(q)'
<1>1. \A e \in End, k \in Nat : AnswersInChan(e, k, q)' => k + d[e] \in Nat /\ AnswersInChan(e, k + d[e], q)
  BY DEF AnswersKept
<1>2. \A e, f \in End, k, l \in Nat :
        AnswersInChan(e, k, q)' /\ AnswersInChan(f, l, q)' => e = f /\ k = l
  <2> SUFFICES ASSUME NEW e \in End, NEW f \in End, NEW k \in Nat, NEW l \in Nat,
                      AnswersInChan(e, k, q)', AnswersInChan(f, l, q)'
               PROVE  e = f /\ k = l
    OBVIOUS
  <2>1. e = f /\ k + d[e] = l + d[f]
    BY <1>1 DEF AnsweredOnce
  <2>2. d[e] \in Nat
    OBVIOUS
  <2> QED
    BY <2>1, <2>2
<1>3. \A n \in Node : AnswersInIo(n, q)' =>
         /\ Sibling(q) \in ports'
         /\ \A e \in End, k \in Nat : ~ AnswersInChan(e, k, q)'
  BY <1>1 DEF AnsweredOnce
<1>4. \A e \in End, k \in Nat : AnswersInChan(e, k, q)' => Sibling(q) \in ports'
  BY <1>1 DEF AnsweredOnce
<1> QED
  BY <1>2, <1>3, <1>4 DEF AnsweredOnce

LEMMA AnswersAside ==
    ASSUME AnswersInv, UNCHANGED <<ports, peerMap>>,
           \A n \in Node : io'[n] = io[n] \/ io'[n].step \notin {"respond", "store_port"},
           NEW d \in [End -> Nat], \A q \in Port : AnswersKept(q, d)
    PROVE  AnswersInv'
<1>1. \A q \in Port, n \in Node : AnswersInIo(n, q)' => AnswersInIo(n, q)
  BY DEF AnswersInIo
<1> QED
  BY <1>1, AnsweredKept DEF AnswersInv, WholePairs

LEMMA AnswersTake ==
    ASSUME TypeOK, AnswersInv, NEW i \in Inv, NEW n \in Node, <<i, n>> \in End,
           chan[<<i, n>>] # <<>>, Pop(i, n), UNCHANGED <<ports, peerMap>>,
           \A k \in Node : io'[k] = io[k] \/ io'[k].step \notin {"respond", "store_port"}
    PROVE  AnswersInv'
BY StillUp, AnswersTaken, AnswersAside

\* Something else than an answer is sent, if anything.
LEMMA AnswersOther ==
    ASSUME TypeOK, AnswersInv, UNCHANGED <<ports, peerMap>>,
           \A n \in Node : io'[n] = io[n] \/ io'[n].step \notin {"respond", "store_port"},
           \/ UNCHANGED chan
           \/ \E e \in End, m \in Message :
                chan' = [chan EXCEPT ![e] = Append(@, m)] /\ m.type # "ResponsePortMerge"
    PROVE  AnswersInv'
<1>1. Still \in [End -> Nat] /\ \A q \in Port : AnswersKept(q, Still)
  BY AnswersSame, AnswersSent DEF Still
<1> QED
  BY <1>1, AnswersAside

LEMMA AnswersHandle ==
    ASSUME TypeOK, HandshakeInv, PortsInv, AnswersInv, NEW i \in Inv, NEW n \in Node,
           <<i, n>> \in End,
           \/ HandleAcceptInvitee(i, n) \/ HandleAcceptInvitation(i, n) \/ HandleUserMessage(i, n)
    PROVE  AnswersInv'
<1>1. Pop(i, n) /\ chan[<<i, n>>] # <<>>
  BY InviterAcceptPops DEF HandleAcceptInvitee, HandleUserMessage, Receive
<1>2. UNCHANGED <<ports, peerMap>>
  BY InviterAcceptStep DEF HandleAcceptInvitee, HandleUserMessage, AcceptMessage, portVars
<1>3. \A k \in Node : io'[k] = io[k] \/ io'[k].step \notin {"respond", "store_port"}
  <2>1. CASE HandleAcceptInvitee(i, n)
    BY <2>1 DEF HandleAcceptInvitee, GoIo, TypeOK, NodeTypeOK
  <2>2. CASE HandleAcceptInvitation(i, n) \/ HandleUserMessage(i, n)
    BY <2>2 DEF HandleAcceptInvitation, HandleUserMessage
  <2> QED
    BY <2>1, <2>2
<1> QED
  BY <1>1, <1>2, <1>3, AnswersTake

LEMMA AnswersContinue ==
    ASSUME TypeOK, HandshakeInv, PortsInv, AnswersInv, NEW n \in Node,
           IoSendAccept(n) \/ IoAddPeer(n) \/ IoTakePending(n) \/ IoFlush(n)
    PROVE  AnswersInv'
<1>1. UNCHANGED <<ports, peerMap>>
  BY DEF IoSendAccept, IoAddPeer, IoTakePending, IoFlush, portVars
<1>2. \A k \in Node : io'[k] = io[k] \/ io'[k].step \notin {"respond", "store_port"}
  <2>1. CASE IoSendAccept(n)
    BY <2>1 DEF IoSendAccept, GoIo, TypeOK, NodeTypeOK
  <2>2. CASE IoAddPeer(n)
    BY <2>2 DEF IoAddPeer, GoIo, TypeOK, NodeTypeOK
  <2>3. CASE IoTakePending(n)
    BY <2>3 DEF IoTakePending, GoIo, Flush, Idle, TypeOK, NodeTypeOK
  <2>4. CASE IoFlush(n)
    BY <2>4 DEF IoFlush, GoIo, Flush, Idle, TypeOK, NodeTypeOK
  <2> QED
    BY <2>1, <2>2, <2>3, <2>4
<1>3. CASE IoSendAccept(n)
  BY <1>1, <1>2, <1>3, SendsAnswer, AnswersOther
<1>4. CASE IoAddPeer(n) \/ IoTakePending(n)
  BY <1>1, <1>2, <1>4, AddPeerSilent, AnswersOther DEF IoTakePending
<1>5. CASE IoFlush(n)
  <2>1. PICK i : i = GetInviterChannel(n)
    OBVIOUS
  <2>2. CASE i = None
    BY <1>1, <1>2, <1>5, <2>1, <2>2, AnswersOther DEF IoFlush
  <2>3. CASE i # None
    <3>1. i \in Inv /\ CanUse(n, i)
      BY <2>1, <2>3, InviterInPeers DEF CanUse
    <3>2. PICK request \in Name \X Port : request = Head(io[n].merges)
      <4>1. io[n].merges \in Seq(Name \X Port) /\ io[n].merges # <<>>
        BY <1>5 DEF IoFlush, IoAt, TypeOK, NodeTypeOK, IoState
      <4> QED
        BY <4>1, HeadTailProperties
    <3>3. PICK m \in Message : m = RequestPortMerge(request[1], request[2])
      BY <3>2 DEF RequestPortMerge, Message
    <3>4. SendTo(i, n, m)
      BY <1>5, <2>1, <2>3, <3>2, <3>3 DEF IoFlush
    <3>5. PICK e \in End : chan' = [chan EXCEPT ![e] = Append(@, m)]
      BY <3>1, <3>4, SendsRequest
    <3> QED
      BY <1>1, <1>2, <3>3, <3>5, AnswersOther DEF RequestPortMerge
  <2> QED
    BY <2>2, <2>3
<1> QED
  BY <1>3, <1>4, <1>5

\* A call that makes a pair makes it whole.
LEMMA AnswersCreate ==
    ASSUME TypeOK, AnswersInv, NEW c \in Call, CreatePortPair(c), UNCHANGED <<chan, io>>
    PROVE  AnswersInv'
<1>1. /\ ports' = ports \cup {Port0(c), Port1(c)}
      /\ peerMap \subseteq peerMap'
      /\ <<callNode[c], callNode[c], Port0(c), Port1(c)>> \in peerMap'
  BY DEF CreatePortPair
<1>2. WholePairs'
  <2>1. \A d \in Call : d # c => Port1(d) \notin {Port0(c), Port1(c)}
    BY PairFacts
  <2> QED
    BY <1>1, <2>1 DEF AnswersInv, WholePairs
<1>3. \A q \in Port : AnsweredOnce(q)'
  <2>1. Still \in [End -> Nat]
    BY DEF Still
  <2>2. \A q, n : AnswersInIo(n, q)' => AnswersInIo(n, q)
    BY DEF AnswersInIo
  <2> QED
    BY <1>1, <2>1, <2>2, AnswersSame, AnsweredKept DEF AnswersInv
<1> QED
  BY <1>2, <1>3 DEF AnswersInv

LEMMA AnswersApp ==
    ASSUME TypeOK, HandshakeInv, PeersInv, PortsInv, AnswersInv, App
    PROVE  AnswersInv'
<1>1. ASSUME NEW c \in Call, NEW i \in Inv, NEW name \in Name,
             Attach(c, i, name) \/ Extract(c, i, name)
      PROVE  AnswersInv'
  BY <1>1, AnswersCreate DEF Attach, Extract, nodeVars
<1>2. ASSUME NEW i \in Inv, CoreSendInvitation(i)
      PROVE  AnswersInv'
  <2>1. UNCHANGED <<ports, peerMap, io>>
    BY <1>2 DEF CoreSendInvitation, SendInvitation, portVars
  <2> QED
    BY <1>2, <2>1, SendsOffer, AnswersOther
<1>3. ASSUME NEW n \in Node, CoreSendRequest(n)
      PROVE  AnswersInv'
  <2>1. app[n].step = "request" /\ UNCHANGED <<ports, peerMap, io>>
    BY <1>3 DEF CoreSendRequest, SendRequest, AppAt, portVars
  <2>2. PICK i \in Inv, m \in Message :
          i = app[n].channel /\ m = RequestPortMerge(app[n].name, app[n].port)
    BY <2>1 DEF TypeOK, NodeTypeOK, AppState, RequestPortMerge, Message
  <2>3. CanUse(n, i) /\ SendTo(i, n, m)
    BY <1>3, <2>1, <2>2 DEF CoreSendRequest, SendRequest, CanUse
  <2> QED
    BY <2>1, <2>2, <2>3, SendsRequest, AnswersOther DEF RequestPortMerge
<1>4. ASSUME NEW n \in Node, WriteForward(n)
      PROVE  AnswersInv'
  <2>1. UNCHANGED <<ports, peerMap, io>>
    BY <1>4 DEF WriteForward, portVars
  <2>2. UNCHANGED chan \/ \E e \in End, m \in Message :
          chan' = [chan EXCEPT ![e] = Append(@, m)] /\ m.type = "UserMessage"
    BY <1>4, SendsUserMessage
  <2> QED
    BY <2>1, <2>2, AnswersOther
<1>5. ASSUME \/ \E i \in Inv : CoreAcceptInvitation(i)
             \/ \E i \in Inv, name \in Name : ExtractLocal(i, name)
             \/ \E p \in Port, m \in Msg : Write(p, m)
             \/ \E p \in Port : Read(p)
      PROVE  AnswersInv'
  <2>1. UNCHANGED <<ports, peerMap, io, chan>>
    BY <1>5 DEF CoreAcceptInvitation, AcceptInvitation, ExtractLocal, Write, Read, GetNextMessage,
       portVars, nodeVars
  <2> QED
    BY <2>1, AnswersOther
<1> QED
  BY <1>1, <1>2, <1>3, <1>4, <1>5 DEF App

\* A port that is asked for has not been answered, and its pair is whole.
LEMMA AskedNotAnswered ==
    ASSUME TypeOK, PortsInv, RequestsInv, NEW e \in End, NEW k \in Nat, NEW q \in Port,
           AsksInChan(e, k, q), q[2] = 0, q[1] \in made, offeredBy[q] = None
    PROVE  /\ \A n \in Node : ~ AnswersInIo(n, q)
           /\ \A f \in End, l \in Nat : ~ AnswersInChan(f, l, q)
           /\ Sibling(q) \in ports
<1>1. \A p \in Port : ~ Granted(p, q)
  BY DEF RequestsInv, AskedOnce
<1>2. ASSUME NEW n \in Node, AnswersInIo(n, q) PROVE FALSE
  <2>1. PICK s : s = io[n]
    OBVIOUS
  <2>2. IoInv(n)
    BY DEF PortsInv
  <2>3. CASE s.step = "respond"
    <3>1. s.port = q /\ Match(s.local, q) /\ Points(s.local, q)
      BY <1>2, <2>1, <2>2, <2>3 DEF AnswersInIo, IoInv
    <3> QED
      BY <1>1, <3>1, MatchFacts DEF Granted
  <2>4. CASE s.step = "store_port" /\ s.respond
    <3>1. s.port = q /\ Match(s.local, q) /\ Owner(s.local) = n
      BY <1>2, <2>1, <2>2, <2>4 DEF AnswersInIo, IoInv
    <3> QED
      BY <1>1, <2>1, <2>4, <3>1, MatchFacts DEF Granted
  <2> QED
    BY <1>2, <2>1, <2>3, <2>4 DEF AnswersInIo
<1>3. ASSUME NEW f \in End, NEW l \in Nat, AnswersInChan(f, l, q) PROVE FALSE
  <2>1. PICK m : m = chan[f][l]
    OBVIOUS
  <2>2. l \in 1 .. Len(chan[f]) /\ m.type = "ResponsePortMerge" /\ m.connector = q
    BY <1>3, <2>1 DEF AnswersInChan
  <2>3. MessageInv(f[1], f[2], m)
    BY <2>1, <2>2 DEF PortsInv, ChanInv
  <2>4. Match(m.port, q) /\ Points(m.port, q)
    BY <2>2, <2>3 DEF MessageInv
  <2> QED
    BY <1>1, <2>4, MatchFacts DEF Granted
<1>4. PICK c \in Call : c \in made /\ q = Port0(c)
  BY PairFacts
<1>5. PairInv(c)
  BY DEF PortsInv
<1>6. CASE Paired(c)
  BY <1>2, <1>3, <1>4, <1>6, PairFacts DEF Paired
<1>7. CASE Half(c)
  <2>1. PICK n \in Node : n = callNode[c]
    BY PairFacts
  <2>2. PICK s : s = io[n]
    OBVIOUS
  <2>3. IoInv(n) /\ s.step = "store_port" /\ s.local = q
    BY <1>4, <1>7, <2>1, <2>2 DEF PortsInv, Half
  <2>4. ~ s.respond
    <3>1. s.respond => Match(q, s.port)
      BY <2>2, <2>3 DEF IoInv
    <3> QED
      BY <3>1, MatchFacts
  <2>5. Match(s.port, q) /\ Points(s.port, q)
    BY <2>2, <2>3, <2>4 DEF IoInv
  <2> QED
    BY <1>1, <2>5, MatchFacts DEF Granted
<1>8. CASE Joined(c)
  <2>1. Match(peerPort[q], q) /\ Points(peerPort[q], q)
    BY <1>4, <1>8 DEF Joined
  <2> QED
    BY <1>1, <2>1, MatchFacts DEF Granted
<1> QED
  BY <1>2, <1>3, <1>4, <1>5, <1>6, <1>7, <1>8 DEF PairInv

\* The first store of a merge leaves the other pairs whole.
LEMMA WholePairsMerge ==
    ASSUME TypeOK, PortsInv, AnswersInv, NEW c \in Call, c \in made, Paired(c), NEW node,
           StoreNode(Port1(c), node)
    PROVE  WholePairs' /\ ports' = ports \ {Port1(c)}
<1>1. Registered(Owner(Port1(c)), peerPort[Port1(c)])
  BY PairFacts DEF PortsInv, PairInv, Points, Registered
<1>2. ports' = ports \ {Port1(c)} /\ \A e \in peerMap : e[3] # Port1(c) => e \in peerMap'
  BY <1>1 DEF StoreNode
<1>3. ASSUME NEW d \in Call, Port1(d) \in ports'
      PROVE  <<callNode[d], callNode[d], Port0(d), Port1(d)>> \in peerMap'
  <2>1. Port0(d) # Port1(c)
    BY PairFacts
  <2> QED
    BY <1>2, <1>3, <2>1 DEF AnswersInv, WholePairs
<1> QED
  BY <1>2, <1>3 DEF WholePairs

\* A granted request is to be answered from here on.
LEMMA AnswersRequestPortMerge ==
    ASSUME TypeOK, HandshakeInv, PeersInv, PortsInv, RequestsInv, AnswersInv,
           NEW i \in Inv, NEW n \in Node, <<i, n>> \in End,
           HandleRequestPortMerge(i, n), UNCHANGED coreVars
    PROVE  AnswersInv'
<1>1. PICK m, from : m = Head(chan[<<i, n>>]) /\ from = Other(i, n)
  OBVIOUS
<1>2. /\ Pop(i, n) /\ io[n] = Idle /\ chan[<<i, n>>] # <<>> /\ m.type = "RequestPortMerge"
      /\ m.connector \in Port /\ Extracted(m.connector, from, m.name)
  BY <1>1, RequestMerge
<1>3. CASE UNCHANGED <<portVars, io>>
  BY <1>2, <1>3, AnswersTake DEF portVars
<1>4. ASSUME NEW c \in Call, NEW j \in Inv,
             c \in made, callNode[c] = n, Paired(c), offeredBy[Port0(c)] = j,
             StoreNode(Port1(c), from),
             io' = [io EXCEPT ![n] = [step |-> "store_port", local |-> Port0(c), node |-> from,
                                      port |-> m.connector, respond |-> TRUE]]
      PROVE  AnswersInv'
  <2>1. WholePairs' /\ ports' = ports \ {Port1(c)}
    BY <1>4, WholePairsMerge
  <2>2. /\ \A k \in Node \ {n} : io'[k] = io[k]
        /\ io'[n].step = "store_port" /\ io'[n].port = m.connector
    BY <1>4 DEF TypeOK, NodeTypeOK
  <2>3. PICK q \in Port : q = m.connector
    BY <1>2
  <2>4. q[2] = 0 /\ q[1] \in made /\ offeredBy[q] = None
    BY <1>2, <2>3 DEF Extracted
  <2>5. AsksInChan(<<i, n>>, 1, q)
    <3>1. AskedOnce(q)
      BY <2>4 DEF RequestsInv
    <3> QED
      BY <1>1, <1>2, <2>3, <3>1, TakesRequest
  <2>6. /\ \A k \in Node : ~ AnswersInIo(k, q)
        /\ \A f \in End, l \in Nat : ~ AnswersInChan(f, l, q)
        /\ Sibling(q) \in ports
    <3>1. 1 \in Nat
      OBVIOUS
    <3> QED
      BY <2>4, <2>5, <3>1, AskedNotAnswered
  <2>7. Sibling(q) \in ports'
    <3>1. q # Port0(c)
      BY <1>4, <2>4, NoneFacts
    <3>2. Sibling(q) # Port1(c)
      BY <2>4, <3>1, PairFacts
    <3> QED
      BY <2>1, <2>6, <3>2
  <2>8. \A r \in Port : AnswersKept(r, Up(<<i, n>>))
    BY <1>2, AnswersTaken
  <2>9. Up(<<i, n>>) \in [End -> Nat]
    BY StillUp
  <2>10. AnsweredOnce(q)'
    <3>1. \A k \in Node : AnswersInIo(k, q)' => k = n
      BY <2>2, <2>6 DEF AnswersInIo
    <3>2. \A f \in End, l \in Nat : ~ AnswersInChan(f, l, q)'
      BY <2>6, <2>8, <2>9 DEF AnswersKept
    <3> QED
      BY <2>7, <3>1, <3>2 DEF AnsweredOnce
  <2>11. ASSUME NEW r \in Port, r # q PROVE AnsweredOnce(r)'
    <3>1. \A k \in Node : AnswersInIo(k, r)' => AnswersInIo(k, r)
      BY <2>2, <2>3, <2>11 DEF AnswersInIo
    <3>2. CASE Sibling(r) # Port1(c)
      BY <2>1, <2>8, <2>9, <3>1, <3>2, AnsweredKept DEF AnswersInv
    <3>3. CASE Sibling(r) = Port1(c)
      <4>1. r = Port0(c)
        BY <3>3, PairFacts DEF Sibling, Port0, Port1
      <4>2. \A k \in Node : ~ AnswersInIo(k, r)
        <5>1. ASSUME NEW k \in Node, AnswersInIo(k, r) PROVE FALSE
          <6>1. Match(io[k].local, r)
            BY <5>1 DEF AnswersInIo, PortsInv, IoInv
          <6> QED
            BY <1>4, <4>1, <6>1, MatchFacts, NoneFacts
        <5> QED
          BY <5>1
      <4>3. \A f \in End, l \in Nat : ~ AnswersInChan(f, l, r)
        <5>1. ASSUME NEW f \in End, NEW l \in Nat, AnswersInChan(f, l, r) PROVE FALSE
          <6>1. MessageInv(f[1], f[2], chan[f][l])
            BY <5>1 DEF AnswersInChan, PortsInv, ChanInv
          <6>2. Match(chan[f][l].port, r)
            BY <5>1, <6>1 DEF AnswersInChan, MessageInv
          <6> QED
            BY <1>4, <4>1, <6>2, MatchFacts, NoneFacts
        <5> QED
          BY <5>1
      <4>4. \A f \in End, l \in Nat : ~ AnswersInChan(f, l, r)'
        BY <2>8, <2>9, <4>3 DEF AnswersKept
      <4> QED
        BY <3>1, <4>2, <4>4 DEF AnsweredOnce
    <3> QED
      BY <3>2, <3>3
  <2> QED
    BY <2>1, <2>3, <2>10, <2>11 DEF AnswersInv
<1> QED
  BY <1>1, <1>3, <1>4, RequestMerge

\* The answer that is taken was the only one.
LEMMA AnswersResponsePortMerge ==
    ASSUME TypeOK, HandshakeInv, PeersInv, PortsInv, AnswersInv,
           NEW i \in Inv, NEW n \in Node, <<i, n>> \in End,
           HandleResponsePortMerge(i, n), UNCHANGED coreVars
    PROVE  AnswersInv'
<1>1. PICK m, from : m = Head(chan[<<i, n>>]) /\ from = Other(i, n)
  OBVIOUS
<1>2. /\ Pop(i, n) /\ io[n] = Idle /\ chan[<<i, n>>] # <<>> /\ m.type = "ResponsePortMerge"
  BY <1>1, ResponseMerge
<1>3. CASE UNCHANGED <<portVars, io>>
  BY <1>2, <1>3, AnswersTake DEF portVars
<1>4. ASSUME NEW c \in Call, c \in made, callNode[c] = n, Paired(c), m.connector = Port0(c),
             StoreNode(Port1(c), from),
             io' = [io EXCEPT ![n] = [step |-> "store_port", local |-> Port0(c), node |-> from,
                                      port |-> m.port, respond |-> FALSE]]
      PROVE  AnswersInv'
  <2>1. WholePairs' /\ ports' = ports \ {Port1(c)}
    BY <1>4, WholePairsMerge
  <2>2. \A r \in Port, k \in Node : AnswersInIo(k, r)' => AnswersInIo(k, r)
    <3>1. /\ \A k \in Node \ {n} : io'[k] = io[k]
          /\ io'[n].step = "store_port" /\ ~ io'[n].respond
      BY <1>4 DEF TypeOK, NodeTypeOK
    <3> QED
      BY <3>1 DEF AnswersInIo
  <2>3. \A r \in Port : AnswersKept(r, Up(<<i, n>>))
    BY <1>2, AnswersTaken
  <2>4. Up(<<i, n>>) \in [End -> Nat]
    BY StillUp
  <2>5. PICK q \in Port : q = m.connector /\ q = Port0(c)
    BY <1>4, PairFacts
  <2>6. AnswersInChan(<<i, n>>, 1, q) /\ AnsweredOnce(q)
    <3>1. m = chan[<<i, n>>][1] /\ 1 \in 1 .. Len(chan[<<i, n>>])
      BY <1>1, <1>2, TookAt
    <3> QED
      BY <1>2, <2>5, <3>1 DEF AnswersInChan, AnswersInv
  <2>7. \A f \in End, l \in Nat : ~ AnswersInChan(f, l, q)'
    <3> SUFFICES ASSUME NEW f \in End, NEW l \in Nat, AnswersInChan(f, l, q)' PROVE FALSE
      OBVIOUS
    <3>1. PICK u \in Nat : u = Up(<<i, n>>)[f]
      BY <2>4
    <3>2. AnswersInChan(f, l + u, q)
      BY <2>3, <3>1 DEF AnswersKept
    <3>3. f = <<i, n>> /\ l + u = 1
      BY <2>6, <3>2 DEF AnsweredOnce
    <3>4. l # 0 /\ u = 1
      BY <3>1, <3>3, StillUp DEF AnswersInChan
    <3> QED
      BY <3>3, <3>4
  <2>8. \A k \in Node : ~ AnswersInIo(k, q)'
    BY <2>2, <2>6 DEF AnsweredOnce
  <2>9. ASSUME NEW r \in Port, r # q PROVE AnsweredOnce(r)'
    <3>1. Sibling(r) # Port1(c)
      BY <2>5, <2>9, PairFacts DEF Sibling, Port0, Port1
    <3> QED
      BY <2>1, <2>2, <2>3, <2>4, <3>1, AnsweredKept DEF AnswersInv
  <2>10. AnsweredOnce(q)'
    BY <2>7, <2>8 DEF AnsweredOnce
  <2> QED
    BY <2>1, <2>9, <2>10 DEF AnswersInv
<1> QED
  BY <1>1, <1>3, <1>4, ResponseMerge

LEMMA AnswersStorePort ==
    ASSUME TypeOK, AnswersInv, NEW n \in Node, IoStorePort(n)
    PROVE  AnswersInv'
<1>1. PICK s : s = io[n]
  OBVIOUS
<1>2. /\ s.step = "store_port" /\ StorePort(s.local, s.node, s.port) /\ UNCHANGED chan
      /\ io' = [io EXCEPT ![n] =
                  IF s.respond
                    THEN [step |-> "respond", local |-> s.local, node |-> s.node, port |-> s.port]
                    ELSE Idle]
  BY <1>1 DEF IoStorePort, IoAt, GoIo
<1>3. UNCHANGED ports /\ peerMap \subseteq peerMap'
  BY <1>2 DEF StorePort
<1>4. /\ \A k \in Node \ {n} : io'[k] = io[k]
      /\ s.respond => io'[n].step = "respond" /\ io'[n].port = s.port
      /\ ~ s.respond => io'[n].step = "idle"
  BY <1>2 DEF TypeOK, NodeTypeOK, Idle
<1>5. \A q \in Port, k \in Node : AnswersInIo(k, q)' => AnswersInIo(k, q)
  BY <1>1, <1>2, <1>4 DEF AnswersInIo
<1>6. Still \in [End -> Nat] /\ \A q \in Port : AnswersKept(q, Still)
  BY <1>2, AnswersSame DEF Still
<1> QED
  BY <1>3, <1>5, <1>6, AnsweredKept DEF AnswersInv, WholePairs

\* ResponsePortMerge moves the answer from the IO thread into a channel.
LEMMA AnswersRespond ==
    ASSUME TypeOK, HandshakeInv, PeersInv, PortsInv, AnswersInv, NEW n \in Node, IoRespond(n)
    PROVE  AnswersInv'
<1>1. PICK s : s = io[n]
  OBVIOUS
<1>2. s.step = "respond" /\ UNCHANGED <<ports, peerMap>>
  BY <1>1 DEF IoRespond, IoAt, portVars
<1>3. CASE UNCHANGED <<chan, io>>
  BY <1>2, <1>3, AnswersOther
<1>4. CASE ~ UNCHANGED <<chan, io>>
  <2>1. Match(s.local, s.port) /\ s.node = Owner(s.port) /\ IsPeer(n, s.node)
    BY <1>1, <1>2 DEF PortsInv, IoInv
  <2>2. PICK i \in Inv : i = peers[<<n, s.node>>] /\ <<i, n>> \in End
    <3>1. s.node \in NodeName /\ peers[<<n, s.node>>] # None
      BY <2>1 DEF IsPeer, NodeName
    <3> QED
      BY <3>1 DEF PeersInv, PeersAreEnds, End
  <2>3. PICK q \in Port : q = s.port
    BY <2>1, MatchFacts
  <2>4. PICK m \in Message :
          m = [type |-> "ResponsePortMerge", connector |-> s.port, port |-> s.local]
    BY <2>1, MatchFacts DEF Message, PortName
  <2>5. PICK e \in End : e = <<i, Other(i, n)>>
    BY <2>2, EndPair
  <2>6. chan' = [chan EXCEPT ![e] = Append(@, m)] /\ io' = [io EXCEPT ![n] = Idle]
    BY <1>1, <1>4, <2>2, <2>4, <2>5, NoneFacts DEF IoRespond, SendTo, GoIo
  <2>7. \A k \in Node \ {n} : io'[k] = io[k]
    BY <2>6
  <2>8. io'[n].step = "idle"
    BY <2>6 DEF TypeOK, NodeTypeOK, Idle
  <2>9. \A r \in Port, k \in Node : AnswersInIo(k, r)' => AnswersInIo(k, r) /\ k # n
    BY <2>7, <2>8 DEF AnswersInIo
  <2>10. ASSUME NEW r \in Port, r # q PROVE AnsweredOnce(r)'
    <3>1. Still \in [End -> Nat] /\ AnswersKept(r, Still)
      BY <2>3, <2>4, <2>6, <2>10, AnswersSent DEF Still
    <3> QED
      BY <1>2, <2>9, <3>1, AnsweredKept DEF AnswersInv
  <2>11. AnsweredOnce(q)'
    <3>1. AnsweredOnce(q) /\ AnswersInIo(n, q)
      BY <1>1, <1>2, <2>3 DEF AnswersInv, AnswersInIo
    <3>2. \A f \in End, l \in Nat : AnswersInChan(f, l, q)' => f = e /\ l = Len(chan[e]) + 1
      <4> SUFFICES ASSUME NEW f \in End, NEW l \in Nat, AnswersInChan(f, l, q)'
                   PROVE  f = e /\ l = Len(chan[e]) + 1
        OBVIOUS
      <4>1. /\ l \in 1 .. Len(chan'[f])
            /\ chan'[f][l].type = "ResponsePortMerge" /\ chan'[f][l].connector = q
        BY DEF AnswersInChan
      <4>2. ~ (l \in 1 .. Len(chan[f]) /\ chan'[f][l] = chan[f][l])
        BY <3>1, <4>1 DEF AnsweredOnce, AnswersInChan
      <4> QED
        BY <2>6, <4>1, <4>2, SentAt
    <3>3. \A k \in Node : ~ AnswersInIo(k, q)'
      BY <2>9, <3>1 DEF AnsweredOnce
    <3>4. Sibling(q) \in ports'
      BY <1>2, <3>1 DEF AnsweredOnce
    <3> QED
      BY <3>2, <3>3, <3>4 DEF AnsweredOnce
  <2> QED
    BY <1>2, <2>10, <2>11 DEF AnswersInv, WholePairs
<1> QED
  BY <1>3, <1>4

LEMMA AnswersStep ==
    ASSUME TypeOK, HandshakeInv, PeersInv, PortsInv, RequestsInv, AnswersInv, [Next]_vars
    PROVE  AnswersInv'
<1>1. ASSUME NEW e \in End, Handle(e[1], e[2]), UNCHANGED coreVars
      PROVE  AnswersInv'
  <2>1. e[1] \in Inv /\ e[2] \in Node /\ <<e[1], e[2]>> \in End
    BY DEF End
  <2> QED
    BY <1>1, <2>1, AnswersHandle, AnswersRequestPortMerge, AnswersResponsePortMerge DEF Handle
<1>2. ASSUME NEW n \in Node, IoContinue(n)
      PROVE  AnswersInv'
  BY <1>2, AnswersContinue, AnswersStorePort, AnswersRespond DEF IoContinue
<1>3. CASE UNCHANGED vars
  BY <1>3, AnswersOther DEF vars, portVars, nodeVars
<1> QED
  BY <1>1, <1>2, <1>3, AnswersApp DEF Next, Io

LEMMA AnswersStart == Init => AnswersInv
<1> SUFFICES ASSUME Init PROVE AnswersInv
  OBVIOUS
<1>1. ports = {} /\ \A n \in Node : io[n] = Idle
  BY DEF Init, PortsInit, NodeInit
<1>2. \A e \in End : Len(chan[e]) = 0
  BY DEF Init, NodeInit, End
<1>3. \A q : (\A n \in Node : ~ AnswersInIo(n, q)) /\ \A e \in End, k \in Nat : ~ AnswersInChan(e, k, q)
  BY <1>1, <1>2 DEF AnswersInIo, AnswersInChan, Idle
<1> QED
  BY <1>1, <1>3 DEF AnswersInv, WholePairs, AnsweredOnce

\* A granted request is answered once, and the extracting process still has both ports of
\* the pair, and the peer_port_maps_ entry that MergePortsResponse needs, when it takes the
\* answer.
THEOREM AnswersCorrect == Spec => []AnswersInv
<1>1. TypeOK /\ HandshakeInv /\ PeersInv /\ PortsInv /\ RequestsInv /\ AnswersInv /\ [Next]_vars
        => AnswersInv'
  BY AnswersStep
<1> QED
  BY <1>1, AnswersStart, TypeCorrect, HandshakeCorrect, PeersCorrect, PortsCorrect,
     RequestsCorrect, PTL DEF Spec

-----------------------------------------------------------------------------
(* What a process dies of.                                                   *)

\* The steps of OnAcceptInvitee go on from one to the next.
OfferSteps == {"accept", "add_peer", "take", "flush"}

LEMMA JoiningKept ==
    ASSUME JoiningInv, UNCHANGED <<accepted, inviterName, inviterChan>>,
           \A k \in Node : io'[k].step \in OfferSteps => io[k].step \in OfferSteps
    PROVE  JoiningInv'
<1>1. \A n \in Node : AcceptedTwo(n)' = AcceptedTwo(n)
  BY DEF AcceptedTwo
<1> QED
  BY <1>1 DEF JoiningInv, Joining, OfferSteps

LEMMA JoiningOffer ==
    ASSUME TypeOK, HandshakeInv, JoiningInv, NEW i \in Inv, NEW n \in Node, <<i, n>> \in End,
           HandleAcceptInvitee(i, n)
    PROVE  JoiningInv'
<1>1. n = inviteeOf[i] /\ Offered(i)
  <2>1. chan[<<i, n>>] # <<>> /\ Head(chan[<<i, n>>]).type = "AcceptInvitee"
    BY DEF HandleAcceptInvitee, Receive
  <2>2. ~ Answered(i) \/ n # inviterOf[i]
    BY <2>1 DEF Answered, ToInviter, Answer
  <2> QED
    BY <2>1, <2>2, HeadTraffic DEF Later
<1>2. i \in accepted /\ inviteeOf[i] = n
  BY <1>1 DEF HandleAcceptInvitee, Receive
<1>3. Head(chan[<<i, n>>]).inviter = inviterOf[i]
  <2>1. Head(chan[<<i, n>>]) = Offer(i)
    BY <1>1, OfferedHead DEF ToInvitee
  <2>2. Offer(i).inviter = inviterOf[i]
    BY DEF Offer
  <2> QED
    BY <2>1, <2>2
<1>4. /\ inviterName'[n] = inviterOf[i]
      /\ \A k \in Node \ {n} : inviterName'[k] = inviterName[k] /\ io'[k] = io[k]
      /\ UNCHANGED <<accepted, inviterChan>>
  BY <1>3 DEF HandleAcceptInvitee, GoIo, TypeOK, NodeTypeOK
<1>5. inviterOf[i] # None
  BY InvFacts, NoneFacts
<1>7. \A k \in Node : AcceptedTwo(k)' = AcceptedTwo(k)
  BY <1>4 DEF AcceptedTwo
<1>6. ASSUME NEW k \in Node PROVE Joining(k)'
  <2>1. Joining(k)
    BY DEF JoiningInv
  <2>2. CASE k = n
    BY <1>2, <1>4, <1>5, <2>2 DEF Joining
  <2>3. CASE k # n
    BY <1>4, <1>7, <2>1, <2>3 DEF Joining
  <2> QED
    BY <2>2, <2>3
<1> QED
  BY <1>6 DEF JoiningInv

\* Who accepts an invitation while an inviter is known accepts a second one.
LEMMA AcceptsSecond ==
    ASSUME TypeOK, JoiningInv, NEW i \in Inv, AcceptInvitation(i), NEW n \in Node,
           n = inviteeOf[i], inviterName[n] # None \/ inviterChan[n] # None
    PROVE  AcceptedTwo(n)'
<1>1. i \notin accepted /\ i \in accepted' /\ accepted \subseteq accepted' /\ Joining(n)
  BY DEF AcceptInvitation, JoiningInv
<1>2. PICK j \in accepted : inviteeOf[j] = n
  BY <1>1 DEF Joining
<1>3. j # i /\ j \in accepted'
  BY <1>1, <1>2
<1> QED
  BY <1>1, <1>2, <1>3 DEF AcceptedTwo

LEMMA JoiningAccept ==
    ASSUME TypeOK, JoiningInv, NEW i \in Inv, AcceptInvitation(i)
    PROVE  JoiningInv'
<1>1. PICK n \in Node : n = inviteeOf[i]
  BY InvFacts
<1>2. /\ i \in accepted' /\ accepted \subseteq accepted' /\ UNCHANGED io
      /\ \A k \in Node \ {n} : inviterName'[k] = inviterName[k] /\ inviterChan'[k] = inviterChan[k]
  BY <1>1 DEF AcceptInvitation, TypeOK, NodeTypeOK
<1>3. \A k \in Node : AcceptedTwo(k) => AcceptedTwo(k)'
  BY <1>2 DEF AcceptedTwo
<1>4. ASSUME NEW k \in Node PROVE Joining(k)'
  <2>1. Joining(k)
    BY DEF JoiningInv
  <2>2. CASE k = n
    <3>1. io[n].step \in OfferSteps => AcceptedTwo(n)'
      BY <1>1, <1>3, <2>1, <2>2, AcceptsSecond DEF Joining, OfferSteps
    <3> QED
      BY <1>1, <1>2, <2>2, <3>1 DEF Joining, OfferSteps
  <2>3. CASE k # n
    BY <1>2, <1>3, <2>1, <2>3 DEF Joining
  <2> QED
    BY <2>2, <2>3
<1> QED
  BY <1>4 DEF JoiningInv

LEMMA JoiningHandle ==
    ASSUME TypeOK, HandshakeInv, JoiningInv, NEW i \in Inv, NEW n \in Node, <<i, n>> \in End,
           Handle(i, n)
    PROVE  JoiningInv'
<1>1. CASE HandleAcceptInvitation(i, n)
  BY <1>1, JoiningKept DEF HandleAcceptInvitation
<1>2. CASE HandleUserMessage(i, n)
  BY <1>2, JoiningKept DEF HandleUserMessage
<1>3. CASE HandleRequestPortMerge(i, n)
  <2>1. UNCHANGED <<accepted, inviterName, inviterChan>>
    BY <1>3 DEF HandleRequestPortMerge
  <2>2. \A k \in Node : io'[k] = io[k] \/ io'[k].step \in {"store_port", "respond"}
    BY <1>3 DEF HandleRequestPortMerge, GoIo, TypeOK, NodeTypeOK
  <2> QED
    BY <2>1, <2>2, JoiningKept DEF OfferSteps
<1>4. CASE HandleResponsePortMerge(i, n)
  <2>1. UNCHANGED <<accepted, inviterName, inviterChan>>
    BY <1>4 DEF HandleResponsePortMerge
  <2>2. \A k \in Node : io'[k] = io[k] \/ io'[k].step \in {"store_port", "idle"}
    BY <1>4 DEF HandleResponsePortMerge, GoIo, Idle, TypeOK, NodeTypeOK
  <2> QED
    BY <2>1, <2>2, JoiningKept DEF OfferSteps
<1> QED
  BY <1>1, <1>2, <1>3, <1>4, JoiningOffer DEF Handle

LEMMA JoiningContinue ==
    ASSUME TypeOK, JoiningInv, NEW n \in Node, IoContinue(n)
    PROVE  JoiningInv'
<1>1. UNCHANGED <<accepted, inviterName, inviterChan>>
  BY DEF IoContinue, IoSendAccept, IoAddPeer, IoTakePending, IoFlush, IoStorePort, IoRespond
<1>2. CASE IoSendAccept(n)
  <2>1. io[n].step \in OfferSteps /\ \A k \in Node \ {n} : io'[k] = io[k]
    BY <1>2 DEF IoSendAccept, IoAt, GoIo, OfferSteps, TypeOK, NodeTypeOK
  <2> QED
    BY <1>1, <2>1, JoiningKept
<1>3. CASE IoAddPeer(n)
  <2>1. io[n].step \in OfferSteps /\ \A k \in Node \ {n} : io'[k] = io[k]
    BY <1>3 DEF IoAddPeer, IoAt, GoIo, OfferSteps, TypeOK, NodeTypeOK
  <2> QED
    BY <1>1, <2>1, JoiningKept
<1>4. CASE IoTakePending(n) \/ IoFlush(n)
  <2>1. io[n].step \in OfferSteps /\ \A k \in Node \ {n} : io'[k] = io[k]
    BY <1>4 DEF IoTakePending, IoFlush, IoAt, GoIo, OfferSteps, TypeOK, NodeTypeOK
  <2> QED
    BY <1>1, <2>1, JoiningKept
<1>5. CASE IoStorePort(n)
  <2>1. \A k \in Node : io'[k] = io[k] \/ io'[k].step \in {"respond", "idle"}
    BY <1>5 DEF IoStorePort, GoIo, Idle, TypeOK, NodeTypeOK
  <2> QED
    BY <1>1, <2>1, JoiningKept DEF OfferSteps
<1>6. CASE IoRespond(n)
  <2>1. \A k \in Node : io'[k] = io[k] \/ io'[k].step = "idle"
    BY <1>6 DEF IoRespond, GoIo, Idle, TypeOK, NodeTypeOK
  <2> QED
    BY <1>1, <2>1, JoiningKept DEF OfferSteps
<1> QED
  BY <1>2, <1>3, <1>4, <1>5, <1>6 DEF IoContinue

LEMMA JoiningApp ==
    ASSUME TypeOK, JoiningInv, App
    PROVE  JoiningInv'
<1>1. ASSUME NEW i \in Inv, CoreAcceptInvitation(i) PROVE JoiningInv'
  BY <1>1, JoiningAccept DEF CoreAcceptInvitation
<1>2. ASSUME ~ \E i \in Inv : CoreAcceptInvitation(i) PROVE JoiningInv'
  <2>1. UNCHANGED <<accepted, inviterName, inviterChan, io>>
    BY <1>2 DEF App, Attach, CoreSendInvitation, SendInvitation, ExtractLocal, Extract,
       CoreSendRequest, SendRequest, Write, WriteForward, Read, nodeVars
  <2> QED
    BY <2>1, JoiningKept
<1> QED
  BY <1>1, <1>2

LEMMA JoiningAlways == Spec => []JoiningInv
<1>1. Init => JoiningInv
  BY DEF Init, NodeInit, JoiningInv, Joining, Idle
<1>2. ASSUME TypeOK, HandshakeInv, JoiningInv, [Next]_vars PROVE JoiningInv'
  <2>1. ASSUME NEW e \in End, Handle(e[1], e[2]) PROVE JoiningInv'
    <3>1. e[1] \in Inv /\ e[2] \in Node /\ <<e[1], e[2]>> \in End
      BY DEF End
    <3> QED
      BY <1>2, <2>1, <3>1, JoiningHandle
  <2>2. ASSUME NEW n \in Node, IoContinue(n) PROVE JoiningInv'
    BY <1>2, <2>2, JoiningContinue
  <2>3. CASE UNCHANGED vars
    BY <1>2, <2>3, JoiningKept DEF vars, nodeVars
  <2> QED
    BY <1>2, <2>1, <2>2, <2>3, JoiningApp DEF Next, Io
<1> QED
  BY <1>1, <1>2, TypeCorrect, HandshakeCorrect, PTL DEF Spec

\* A channel that one can send on has a name at this end.
LEMMA UsedNamed ==
    ASSUME TypeOK, HandshakeInv, PeersInv, NEW j \in Inv, NEW n \in Node, <<j, n>> \in End,
           CanUse(n, j)
    PROVE  remote[<<j, n>>] # None
<1>1. Phase(j) /\ InviteeKnows(j) /\ inviterOf[j] # None /\ inviteeOf[j] # None
  BY InvFacts, NoneFacts DEF HandshakeInv, PeersInv
<1>2. Answered(j) \/ Done(j)
  BY <1>1 DEF Phase, Unsent, Offered, Answering, Unused
<1>3. CASE n = inviterOf[j]
  BY <1>1, <1>2, <1>3 DEF Answered, Done
<1>4. CASE n = inviteeOf[j]
  <2>1. remote[<<j, n>>] = inviterOf[j]
    BY <1>1, <1>2, <1>4 DEF Answered, Done, InviteeKnows
  <2> QED
    BY <1>1, <2>1
<1> QED
  BY <1>3, <1>4 DEF End

\* An invitee that answers is a peer already only over a second channel.
LEMMA NewPeer ==
    ASSUME TypeOK, HandshakeInv, PeersInv, NEW i \in Inv, NEW n \in Node,
           <<i, n>> \in End, HandleAcceptInvitation(i, n)
    PROVE  UNCHANGED crashed \/ (Die(n, "channel_destroyed") /\ TwoChannels(n))
<1>1. PICK b \in Node : b = inviteeOf[i] /\ b \in NodeName
  BY InvFacts DEF NodeName
<1>2. n = inviterOf[i] /\ ~ CanUse(n, i) /\ DieIf(n, peers[<<n, b>>] # None, "channel_destroyed")
  BY <1>1, InviterAcceptStep DEF Answered
<1>3. remote[<<i, n>>] # None
  <2>1. Answered(i)
    BY InviterAcceptStep
  <2> QED
    BY <1>2, <2>1, InvFacts, NoneFacts DEF Answered, Pending
<1>4. ASSUME peers[<<n, b>>] # None PROVE TwoChannels(n)
  <2>1. PICK j \in Inv : j = peers[<<n, b>>] /\ <<j, n>> \in End /\ b = Other(j, n)
    BY <1>1, <1>4 DEF PeersInv, PeersAreEnds, End
  <2>2. CanUse(n, j) /\ j # i
    BY <1>1, <1>2, <2>1 DEF CanUse, InPeers
  <2>3. remote[<<j, n>>] # None
    BY <2>1, <2>2, UsedNamed
  <2>4. Other(i, n) = b
    BY <1>1, <1>2 DEF Other
  <2> QED
    BY <1>3, <2>1, <2>2, <2>3, <2>4 DEF TwoChannels
<1> QED
  BY <1>2, <1>4 DEF DieIf

\* The connector of an answer still has its peer.
LEMMA PeerThere ==
    ASSUME TypeOK, HandshakeInv, PeersInv, PortsInv, AnswersInv, NEW i \in Inv, NEW n \in Node,
           <<i, n>> \in End, HandleResponsePortMerge(i, n), UNCHANGED coreVars
    PROVE  UNCHANGED crashed
<1>1. PICK m, from : m = Head(chan[<<i, n>>]) /\ from = Other(i, n)
  OBVIOUS
<1>2. /\ Pop(i, n) /\ chan[<<i, n>>] # <<>> /\ m.type = "ResponsePortMerge"
      /\ Match(m.port, m.connector) /\ Owner(m.connector) = n
  BY <1>1, ResponseMerge
<1>3. PICK c \in Call : c \in made /\ m.connector = Port0(c) /\ callNode[c] = n
  BY <1>2, MatchFacts, PairFacts
<1>4. Port1(c) \in ports
  <2>1. m = chan[<<i, n>>][1] /\ 1 \in 1 .. Len(chan[<<i, n>>])
    BY <1>1, <1>2, TookAt
  <2>2. AnswersInChan(<<i, n>>, 1, Port0(c)) /\ Port0(c) \in Port /\ 1 \in Nat
    BY <1>2, <1>3, <2>1, PairFacts DEF AnswersInChan
  <2> QED
    BY <2>2, PairFacts DEF AnswersInv, AnsweredOnce
<1>5. <<n, n, Port0(c), Port1(c)>> \in peerMap
  BY <1>3, <1>4 DEF AnswersInv, WholePairs
<1>6. peerPort[Port0(c)] = Port1(c)
  <2>1. Paired(c)
    BY <1>3, <1>4 DEF PortsInv, PairInv, Half, Joined
  <2> QED
    BY <2>1 DEF Paired, Points
<1>7. ConnectorPeer(n, m.connector) = Port1(c) /\ Port1(c) # None
  BY <1>3, <1>5, <1>6, PairFacts, NoneFacts DEF ConnectorPeer
<1> QED
  BY <1>1, <1>7 DEF HandleResponsePortMerge

\* A process that flushes waiting requests has a channel to its inviter, unless it has
\* accepted a second invitation.
LEMMA InviterThere ==
    ASSUME JoiningInv, MergesInv, NEW n \in Node, IoFlush(n)
    PROVE  UNCHANGED crashed \/ (Die(n, "null_channel") /\ AcceptedTwo(n))
<1>1. io[n].step = "flush" /\ crashed[n] = "no"
  BY DEF IoFlush, IoAt
<1>2. inviterName[n] # None \/ AcceptedTwo(n)
  BY <1>1 DEF JoiningInv, Joining
<1>3. inviterName[n] # None => GetInviterChannel(n) # None
  BY <1>1 DEF MergesInv, MergesTaken
<1> QED
  BY <1>2, <1>3 DEF IoFlush

\* The process that is answered is a peer.
LEMMA AskerThere ==
    ASSUME PortsInv, NEW n \in Node, IoRespond(n)
    PROVE  UNCHANGED crashed
<1>1. IsPeer(n, io[n].node)
  BY DEF IoRespond, IoAt, PortsInv, IoInv
<1> QED
  BY <1>1 DEF IoRespond, IsPeer

-----------------------------------------------------------------------------
(* A second invitation stays one: what is accepted stays accepted, and the   *)
(* end of a channel that has a name keeps one.                               *)

NamedKept == \A e \in Inv \X Node : remote[e] # None => remote'[e] # None

LEMMA NamedHandle ==
    ASSUME TypeOK, HandshakeInv, NEW i \in Inv, NEW n \in Node, <<i, n>> \in End, Handle(i, n)
    PROVE  NamedKept /\ UNCHANGED accepted
<1>1. CASE HandleAcceptInvitation(i, n)
  <2>1. remote' = [remote EXCEPT ![<<i, n>>] = inviteeOf[i]] /\ UNCHANGED accepted
    BY <1>1, InviterAcceptStep
  <2> QED
    BY <2>1, InvFacts DEF NamedKept, TypeOK, NodeTypeOK
<1>2. CASE ~ HandleAcceptInvitation(i, n)
  <2>1. UNCHANGED <<remote, accepted>>
    BY <1>2 DEF Handle, HandleAcceptInvitee, HandleRequestPortMerge, HandleResponsePortMerge,
       HandleUserMessage
  <2> QED
    BY <2>1 DEF NamedKept
<1> QED
  BY <1>1, <1>2

LEMMA NamedContinue ==
    ASSUME TypeOK, NEW n \in Node, IoContinue(n)
    PROVE  NamedKept /\ UNCHANGED accepted
<1>1. CASE IoSendAccept(n)
  <2>1. io[n].inviter \in Node
    BY <1>1 DEF IoSendAccept, IoAt, IoState, TypeOK, NodeTypeOK
  <2>2. remote' = [remote EXCEPT ![<<inviterChan[n], n>>] = io[n].inviter] /\ UNCHANGED accepted
    BY <1>1 DEF IoSendAccept
  <2> QED
    BY <2>1, <2>2, NoneFacts DEF NamedKept, TypeOK, NodeTypeOK
<1>2. CASE IoAddPeer(n)
  <2>1. io[n].inviter \in Node
    BY <1>2 DEF IoAddPeer, IoAt, IoState, TypeOK, NodeTypeOK
  <2>2. remote' = [remote EXCEPT ![<<inviterChan[n], n>>] = io[n].inviter] /\ UNCHANGED accepted
    BY <1>2 DEF IoAddPeer
  <2> QED
    BY <2>1, <2>2, NoneFacts DEF NamedKept, TypeOK, NodeTypeOK
<1>3. CASE IoTakePending(n) \/ IoFlush(n) \/ IoStorePort(n) \/ IoRespond(n)
  <2>1. UNCHANGED <<remote, accepted>>
    BY <1>3 DEF IoTakePending, IoFlush, IoStorePort, IoRespond
  <2> QED
    BY <2>1 DEF NamedKept
<1> QED
  BY <1>1, <1>2, <1>3 DEF IoContinue

LEMMA NamedApp ==
    ASSUME TypeOK, App
    PROVE  NamedKept /\ accepted \subseteq accepted'
<1>1. ASSUME NEW i \in Inv, CoreSendInvitation(i)
      PROVE  NamedKept /\ accepted \subseteq accepted'
  <2>1. remote' = [remote EXCEPT ![<<i, inviterOf[i]>>] = i] /\ UNCHANGED accepted
    BY <1>1 DEF CoreSendInvitation, SendInvitation
  <2> QED
    BY <2>1, InvFacts DEF NamedKept, TypeOK, NodeTypeOK
<1>2. ASSUME NEW i \in Inv, CoreAcceptInvitation(i)
      PROVE  NamedKept /\ accepted \subseteq accepted'
  BY <1>2 DEF CoreAcceptInvitation, AcceptInvitation, NamedKept
<1>3. ASSUME ~ \E i \in Inv : CoreSendInvitation(i) \/ CoreAcceptInvitation(i)
      PROVE  NamedKept /\ accepted \subseteq accepted'
  <2>1. UNCHANGED <<remote, accepted>>
    BY <1>3 DEF App, Attach, ExtractLocal, Extract, CoreSendRequest, SendRequest, Write,
       WriteForward, Read, nodeVars
  <2> QED
    BY <2>1 DEF NamedKept
<1> QED
  BY <1>1, <1>2, <1>3

LEMMA SecondKept ==
    ASSUME TypeOK, HandshakeInv, [Next]_vars, NEW n \in Node
    PROVE  (AcceptedTwo(n) => AcceptedTwo(n)') /\ (TwoChannels(n) => TwoChannels(n)')
<1>1. NamedKept /\ accepted \subseteq accepted'
  <2>1. ASSUME NEW e \in End, Handle(e[1], e[2]) PROVE NamedKept /\ accepted \subseteq accepted'
    <3>1. e[1] \in Inv /\ e[2] \in Node /\ <<e[1], e[2]>> \in End
      BY DEF End
    <3> QED
      BY <2>1, <3>1, NamedHandle
  <2>2. ASSUME NEW m \in Node, IoContinue(m) PROVE NamedKept /\ accepted \subseteq accepted'
    BY <2>2, NamedContinue
  <2>3. CASE UNCHANGED vars
    BY <2>3 DEF NamedKept, vars, nodeVars
  <2> QED
    BY <2>1, <2>2, <2>3, NamedApp DEF Next, Io
<1>2. ASSUME TwoChannels(n) PROVE TwoChannels(n)'
  <2>1. PICK i, j \in Inv :
           /\ i # j /\ <<i, n>> \in End /\ <<j, n>> \in End /\ Other(i, n) = Other(j, n)
           /\ remote[<<i, n>>] # None /\ remote[<<j, n>>] # None
    BY <1>2 DEF TwoChannels
  <2>2. remote'[<<i, n>>] # None /\ remote'[<<j, n>>] # None
    BY <1>1, <2>1 DEF NamedKept
  <2> QED
    BY <2>1, <2>2 DEF TwoChannels
<1> QED
  BY <1>1, <1>2 DEF AcceptedTwo

-----------------------------------------------------------------------------
(* What a process that dies in a step dies of.                               *)

DiesOf(n) ==
    \/ UNCHANGED crashed
    \/ Die(n, "unknown_port")
    \/ Die(n, "null_channel") /\ AcceptedTwo(n)
    \/ Die(n, "channel_destroyed") /\ (AcceptedTwo(n)' \/ TwoChannels(n))

LEMMA DiesHandling ==
    ASSUME TypeOK, HandshakeInv, PeersInv, PortsInv, AnswersInv, NEW i \in Inv, NEW n \in Node,
           <<i, n>> \in End, Handle(i, n), UNCHANGED coreVars
    PROVE  DiesOf(n)
<1>1. CASE HandleAcceptInvitation(i, n)
  BY <1>1, NewPeer DEF DiesOf
<1>2. CASE HandleResponsePortMerge(i, n)
  BY <1>2, PeerThere DEF DiesOf
<1>3. CASE HandleAcceptInvitee(i, n) \/ HandleRequestPortMerge(i, n)
  BY <1>3 DEF HandleAcceptInvitee, HandleRequestPortMerge, DiesOf
<1>4. CASE HandleUserMessage(i, n)
  BY <1>4 DEF HandleUserMessage, DiesOf
<1> QED
  BY <1>1, <1>2, <1>3, <1>4 DEF Handle

LEMMA DiesContinuing ==
    ASSUME JoiningInv, MergesInv, PortsInv, NEW n \in Node, IoContinue(n)
    PROVE  DiesOf(n)
<1>1. CASE IoSendAccept(n) \/ IoAddPeer(n) \/ IoTakePending(n) \/ IoStorePort(n)
  BY <1>1 DEF IoSendAccept, IoAddPeer, IoTakePending, IoStorePort, DiesOf
<1>2. CASE IoFlush(n)
  BY <1>2, InviterThere DEF DiesOf
<1>3. CASE IoRespond(n)
  BY <1>3, AskerThere DEF DiesOf
<1> QED
  BY <1>1, <1>2, <1>3 DEF IoContinue

LEMMA DiesCalling ==
    ASSUME TypeOK, JoiningInv, App
    PROVE  UNCHANGED crashed \/ \E n \in Node : DiesOf(n)
<1>1. ASSUME NEW i \in Inv, CoreAcceptInvitation(i) PROVE \E n \in Node : DiesOf(n)
  <2>1. PICK n \in Node : n = inviteeOf[i]
    BY InvFacts
  <2>2. \/ UNCHANGED crashed
        \/ Die(n, "channel_destroyed") /\ inviterChan[n] # None
    BY <1>1, <2>1 DEF CoreAcceptInvitation, AcceptInvitation, DieIf
  <2>3. inviterChan[n] # None => AcceptedTwo(n)'
    BY <1>1, <2>1, AcceptsSecond DEF CoreAcceptInvitation
  <2> QED
    BY <2>2, <2>3 DEF DiesOf
<1>2. ASSUME ~ \E i \in Inv : CoreAcceptInvitation(i) PROVE UNCHANGED crashed
  BY <1>2 DEF App, Attach, CoreSendInvitation, SendInvitation, ExtractLocal, Extract,
     CoreSendRequest, SendRequest, Write, WriteForward, Read, nodeVars
<1> QED
  BY <1>1, <1>2

LEMMA DiesIn ==
    ASSUME TypeOK, HandshakeInv, PeersInv, PortsInv, MergesInv, AnswersInv, JoiningInv, Next
    PROVE  UNCHANGED crashed \/ \E n \in Node : DiesOf(n)
<1>1. ASSUME NEW e \in End, Handle(e[1], e[2]), UNCHANGED coreVars
      PROVE  \E n \in Node : DiesOf(n)
  <2>1. e[1] \in Inv /\ e[2] \in Node /\ <<e[1], e[2]>> \in End
    BY DEF End
  <2> QED
    BY <1>1, <2>1, DiesHandling
<1>2. ASSUME NEW n \in Node, IoContinue(n)
      PROVE  \E k \in Node : DiesOf(k)
  BY <1>2, DiesContinuing
<1> QED
  BY <1>1, <1>2, DiesCalling DEF Next, Io

LEMMA CrashStep ==
    ASSUME TypeOK, HandshakeInv, PeersInv, PortsInv, MergesInv, AnswersInv, JoiningInv,
           CrashOnlyBySecond, [Next]_vars
    PROVE  CrashOnlyBySecond'
<1> DEFINE Why(k) == /\ crashed[k] # "null_port_ref"
                     /\ crashed[k] = "null_channel" => AcceptedTwo(k)
                     /\ crashed[k] = "channel_destroyed" => AcceptedTwo(k) \/ TwoChannels(k)
<1>1. ASSUME NEW k \in Node, crashed'[k] = crashed[k] PROVE Why(k)'
  <2>1. Why(k)
    BY DEF CrashOnlyBySecond
  <2> QED
    BY <1>1, <2>1, SecondKept
<1>2. CASE UNCHANGED crashed
  BY <1>1, <1>2 DEF CrashOnlyBySecond
<1>3. ASSUME NEW n \in Node, DiesOf(n), crashed' # crashed
      PROVE  CrashOnlyBySecond'
  <2>1. \A k \in Node \ {n} : crashed'[k] = crashed[k]
    BY <1>3 DEF DiesOf, Die, TypeOK, NodeTypeOK
  <2>2. \/ crashed'[n] = "unknown_port"
        \/ crashed'[n] = "null_channel" /\ AcceptedTwo(n)
        \/ crashed'[n] = "channel_destroyed" /\ (AcceptedTwo(n)' \/ TwoChannels(n))
    BY <1>3 DEF DiesOf, Die, TypeOK, NodeTypeOK
  <2>3. Why(n)'
    BY <2>2, SecondKept
  <2> QED
    BY <1>1, <2>1, <2>3 DEF CrashOnlyBySecond
<1>4. CASE UNCHANGED vars
  BY <1>2, <1>4 DEF vars, nodeVars
<1> QED
  BY <1>2, <1>3, <1>4, DiesIn

\* For any invitations, a repeated one and an inviter invited back included: the connector's
\* peer that OnResponsePortMerge dereferences is there, the inviter channel that
\* HandlePendingMergePort dereferences is missing only in a process that has accepted a
\* second invitation, and only such a process or one with a second channel to the same peer
\* lets go of a channel that nothing else refers to.
THEOREM CrashOnlyBySecondCorrect == Spec => []CrashOnlyBySecond
<1>1. Init => CrashOnlyBySecond
  BY DEF Init, NodeInit, CrashOnlyBySecond
<1>2. TypeOK /\ HandshakeInv /\ PeersInv /\ PortsInv /\ MergesInv /\ AnswersInv /\ JoiningInv
        /\ CrashOnlyBySecond /\ [Next]_vars => CrashOnlyBySecond'
  BY CrashStep
<1> QED
  BY <1>1, <1>2, TypeCorrect, HandshakeCorrect, PeersCorrect, PortsCorrect, MergesCorrect,
     AnswersCorrect, JoiningAlways, PTL DEF Spec

LEMMA NoSecond ==
    ASSUME OneInviter, TypeOK, NEW n \in Node
    PROVE  ~ AcceptedTwo(n) /\ ~ TwoChannels(n)
<1>1. ~ AcceptedTwo(n)
  BY DEF OneInviter, AcceptedTwo, TypeOK, NodeTypeOK
<1>2. ASSUME TwoChannels(n) PROVE FALSE
  <2>1. PICK i, j \in Inv :
           /\ i # j /\ <<i, n>> \in End /\ <<j, n>> \in End /\ Other(i, n) = Other(j, n)
    BY <1>2 DEF TwoChannels
  <2>2. n \in {inviterOf[i], inviteeOf[i]} /\ n \in {inviterOf[j], inviteeOf[j]}
    BY <2>1 DEF End
  <2>3. inviteeOf[i] # inviteeOf[j]
    BY <2>1 DEF OneInviter
  <2>4. ~ (inviterOf[i] = inviteeOf[j] /\ inviteeOf[i] = inviterOf[j])
    BY DEF OneInviter
  <2> QED
    BY <2>1, <2>2, <2>3, <2>4, InvFacts DEF Other
<1> QED
  BY <1>1, <1>2

\* While every process has one inviter at most, and no two invite each other, a process dies
\* of nothing but a user message whose port name was read too early: the inviter channel,
\* the peer channels and the connector's peer that the handlers dereference are there, and
\* no channel loses its last reference.
THEOREM CrashOnlyByTornWriteCorrect == OneInviter /\ Spec => []CrashOnlyByTornWrite
<1>1. ASSUME OneInviter PROVE TypeOK /\ CrashOnlyBySecond => CrashOnlyByTornWrite
  <2>1. ASSUME TypeOK, CrashOnlyBySecond, NEW n \in Node PROVE crashed[n] \in {"no", "unknown_port"}
    <3>1. crashed[n] \in CrashCause \cup {"no"}
      BY <2>1 DEF TypeOK, NodeTypeOK
    <3> QED
      BY <1>1, <2>1, <3>1, NoSecond DEF CrashOnlyBySecond, CrashCause
  <2> QED
    BY <2>1 DEF CrashOnlyByTornWrite
<1>2. ASSUME OneInviter PROVE Spec => []CrashOnlyByTornWrite
  <2>1. TypeOK /\ CrashOnlyBySecond => CrashOnlyByTornWrite
    BY <1>1, <1>2
  <2> QED
    BY <2>1, TypeCorrect, CrashOnlyBySecondCorrect, PTL
<1> QED
  BY <1>2

=============================================================================
