----------------------------- MODULE NodeController -----------------------------
(***************************************************************************)
(* NodeController and NodeChannel: the invitation handshake, the peers of  *)
(* a process, the ports reserved for invitees and the port merge requests. *)
(*                                                                         *)
(* Every process has two threads.  The IO thread takes messages from the   *)
(* sockets and runs the On... handlers; the application thread runs the    *)
(* API calls.  A handler or a call is split into steps exactly where the   *)
(* other thread, or another process, can see its intermediate state; io[n] *)
(* and app[n] say what the two threads of n are in the middle of.          *)
(*                                                                         *)
(* A socket pair carries bytes in order and loses none, so the writing     *)
(* queue of one end, the socket and the read side of the other end are one *)
(* FIFO.  A process that dies stays in `crashed' with the cause and takes  *)
(* no further step.                                                        *)
(***************************************************************************)
EXTENDS Ports

CONSTANTS
    Name,       \* the names message pipes are attached under
    inviterOf,  \* inviterOf[i] is the process that sends invitation i
    inviteeOf   \* inviteeOf[i] is the process that accepts it

ASSUME InvitationAssumption ==
    /\ inviterOf \in [Inv -> Node]
    /\ inviteeOf \in [Inv -> Node]
    /\ \A i \in Inv : inviterOf[i] # inviteeOf[i]
    /\ None \notin Name
    /\ None \notin [Name -> PortName]

VARIABLES
    chan,           \* chan[<<i, n>>]: messages on channel i on their way to n
    remote,         \* remote[<<i, n>>]: remote_node_name_ of n's end of channel i
    accepted,       \* invitations whose invitee has called AcceptInvitation
    inviterName,    \* inviter_name_
    inviterChan,    \* inviter_channel_
    peers,          \* peers[<<n, m>>]: the channel to node m in the peers_ map of n
    pendingPeerMsgs,\* pending_peer_messages_
    pendingInv,     \* the keys of the pending_invitations_ maps
    reserved,       \* reserved[<<n, k>>]: entry k of the reserved_ports_ map of n
    pendingMerges,  \* pending_port_merges_
    io,             \* what the IO thread is in the middle of
    app,            \* what the application thread is in the middle of
    crashed         \* why the process has died, or "no"

nodeVars == <<chan, remote, accepted, inviterName, inviterChan, peers,
              pendingPeerMsgs, pendingInv, reserved, pendingMerges, io, app, crashed>>

\* The two ends of a channel.
End == { e \in Inv \X Node : e[2] \in {inviterOf[e[1]], inviteeOf[e[1]]} }
Other(i, n) == IF n = inviterOf[i] THEN inviteeOf[i] ELSE inviterOf[i]

Message ==
    [type : {"AcceptInvitee"}, inviter : Node, token : Inv]
    \cup [type : {"AcceptInvitation"}, token : Inv, invitee : Node]
    \cup [type : {"RequestPortMerge"}, connector : Port, name : Name]
    \cup [type : {"ResponsePortMerge"}, connector : PortName, port : PortName]
    \cup [type : {"UserMessage"}, from : Port, to : PortName, data : Msg]

IoState ==
    [step : {"idle", "take"}]
    \cup [step : {"accept", "add_peer"}, inviter : Node, token : Inv]
    \cup [step : {"flush"}, merges : Seq(Name \X Port) \ {<<>>}]
    \cup [step : {"store_port"}, local : Port, node : NodeName, port : PortName,
          respond : BOOLEAN]
    \cup [step : {"respond"}, local : PortName, node : NodeName, port : PortName]

AppState ==
    [step : {"idle"}]
    \cup [step : {"request"}, channel : Inv, name : Name, port : Port]
    \cup [step : {"write"}, from : Port, to : PortName, data : Msg]

CrashCause == {"unknown_port", "null_channel", "null_port_ref", "channel_destroyed"}

Idle == [step |-> "idle"]
EmptyPortMap == [m \in Name |-> None]
PortMap == [Name -> PortName]

NodeTypeOK ==
    /\ chan \in [Inv \X Node -> Seq(Message)]
    /\ remote \in [Inv \X Node -> NodeName]
    /\ accepted \subseteq Inv
    /\ inviterName \in [Node -> Node \cup {None}]
    /\ inviterChan \in [Node -> Inv \cup {None}]
    /\ peers \in [Node \X NodeName -> Inv \cup {None}]
    /\ pendingPeerMsgs \in [Node \X NodeName -> Seq(Message)]
    /\ pendingInv \subseteq Inv
    /\ reserved \in [Node \X NodeName -> PortMap \cup {None}]
    /\ pendingMerges \in [Node -> Seq(Name \X Port)]
    /\ io \in [Node -> IoState]
    /\ app \in [Node -> AppState]
    /\ crashed \in [Node -> CrashCause \cup {"no"}]

NodeInit ==
    /\ chan = [e \in Inv \X Node |-> <<>>]
    /\ remote = [e \in Inv \X Node |-> None]
    /\ accepted = {}
    /\ inviterName = [n \in Node |-> None]
    /\ inviterChan = [n \in Node |-> None]
    /\ peers = [e \in Node \X NodeName |-> None]
    /\ pendingPeerMsgs = [e \in Node \X NodeName |-> <<>>]
    /\ pendingInv = {}
    /\ reserved = [e \in Node \X NodeName |-> None]
    /\ pendingMerges = [n \in Node |-> <<>>]
    /\ io = [n \in Node |-> Idle]
    /\ app = [n \in Node |-> Idle]
    /\ crashed = [n \in Node |-> "no"]

-----------------------------------------------------------------------------
(* Looking up channels.                                                      *)

\* GetInviterChannel: by the inviter's name; an unset name is never a peer's.
GetInviterChannel(n) == peers[<<n, inviterName[n]>>]

\* Sending puts a message at the back of the FIFO of the other end.
SendTo(i, n, m) == chan' = [chan EXCEPT ![<<i, Other(i, n)>>] = Append(@, m)]

\* The channel nothing but peers_ and inviter_channel_ refers to is destroyed with the
\* last of these references; ~Channel then calls a pure virtual function and aborts.
InPeers(n, i) == \E k \in NodeName : peers[<<n, k>>] = i

Die(n, cause) == crashed' = [crashed EXCEPT ![n] = cause]
DieIf(n, bad, cause) == IF bad THEN Die(n, cause) ELSE UNCHANGED crashed

\* n's IO thread takes the next message, of the given type, from channel i.
Receive(i, n, type) ==
    /\ crashed[n] = "no"
    /\ io[n] = Idle
    /\ n = inviteeOf[i] => i \in accepted
    /\ chan[<<i, n>>] # <<>>
    /\ Head(chan[<<i, n>>]).type = type

Popped(i, n) == [chan EXCEPT ![<<i, n>>] = Tail(@)]
Pop(i, n) == chan' = Popped(i, n)

IoAt(n, step) == crashed[n] = "no" /\ io[n].step = step
AppAt(n, step) == crashed[n] = "no" /\ app[n].step = step
GoIo(n, state) == io' = [io EXCEPT ![n] = state]
GoApp(n, state) == app' = [app EXCEPT ![n] = state]

-----------------------------------------------------------------------------
(* The invitation handshake.                                                 *)

\* A bug to try: the invitation is not remembered.
SendInvitationForgotten(i, attachedPorts) ==
    LET n == inviterOf[i]
    IN  /\ remote[<<i, n>>] = None
        /\ reserved' = [reserved EXCEPT ![<<n, i>>] = attachedPorts]
        /\ remote' = [remote EXCEPT ![<<i, n>>] = i]
        /\ SendTo(i, n, [type |-> "AcceptInvitee", inviter |-> n, token |-> i])
        /\ UNCHANGED <<portVars, accepted, inviterName, inviterChan, peers, pendingPeerMsgs,
                       pendingInv, pendingMerges, io, app, crashed>>

\* NodeController::SendInvitation: reserve the attached ports under the temporary name
\* (the invitation itself), then offer the invitee that name as its token.
SendInvitation(i, attachedPorts) ==
    LET n == inviterOf[i]
    IN  /\ remote[<<i, n>>] = None
        /\ reserved' = [reserved EXCEPT ![<<n, i>>] = attachedPorts]
        /\ pendingInv' = pendingInv \cup {i}
        /\ remote' = [remote EXCEPT ![<<i, n>>] = i]
        /\ SendTo(i, n, [type |-> "AcceptInvitee", inviter |-> n, token |-> i])
        /\ UNCHANGED <<portVars, accepted, inviterName, inviterChan, peers, pendingPeerMsgs,
                       pendingMerges, io, app, crashed>>

\* NodeController::AcceptInvitation replaces the inviter; a previous inviter channel that
\* has not become a peer loses its only reference.
AcceptInvitation(i) ==
    LET n   == inviteeOf[i]
        old == inviterChan[n]
    IN  /\ i \notin accepted
        /\ accepted' = accepted \cup {i}
        /\ inviterName' = [inviterName EXCEPT ![n] = None]
        /\ inviterChan' = [inviterChan EXCEPT ![n] = i]
        /\ DieIf(n, old # None /\ ~ InPeers(n, old), "channel_destroyed")
        /\ UNCHANGED <<portVars, chan, remote, peers, pendingPeerMsgs, pendingInv, reserved,
                       pendingMerges, io, app>>

\* A bug to try: the inviter becomes a peer before it is answered.
HandleAcceptInviteeEarlyPeer(i, n) ==
    LET m == Head(chan[<<i, n>>])
    IN  /\ Receive(i, n, "AcceptInvitee")
        /\ Pop(i, n)
        /\ inviterName' = [inviterName EXCEPT ![n] = m.inviter]
        /\ peers' = [peers EXCEPT ![<<n, m.inviter>>] = i]
        /\ GoIo(n, [step |-> "accept", inviter |-> m.inviter, token |-> m.token])
        /\ UNCHANGED <<portVars, remote, accepted, inviterChan, pendingPeerMsgs, pendingInv,
                       reserved, pendingMerges, app, crashed>>

\* OnAcceptInvitee, in the invitee: its first lock region sets inviter_name_ ...
HandleAcceptInvitee(i, n) ==
    LET m == Head(chan[<<i, n>>])
    IN  /\ Receive(i, n, "AcceptInvitee")
        /\ Pop(i, n)
        /\ inviterName' = [inviterName EXCEPT ![n] = m.inviter]
        /\ GoIo(n, [step |-> "accept", inviter |-> m.inviter, token |-> m.token])
        /\ UNCHANGED <<portVars, remote, accepted, inviterChan, peers, pendingPeerMsgs,
                       pendingInv, reserved, pendingMerges, app, crashed>>

\* ... then it answers on inviter_channel_, whichever channel that is by now, ...
IoSendAccept(n) ==
    LET i == inviterChan[n]
    IN  /\ IoAt(n, "accept")
        /\ remote' = [remote EXCEPT ![<<i, n>>] = io[n].inviter]
        /\ SendTo(i, n, [type |-> "AcceptInvitation", token |-> io[n].token, invitee |-> n])
        /\ GoIo(n, [step |-> "add_peer", inviter |-> io[n].inviter, token |-> io[n].token])
        /\ UNCHANGED <<portVars, accepted, inviterName, inviterChan, peers, pendingPeerMsgs,
                       pendingInv, reserved, pendingMerges, app, crashed>>

\* A bug to try: the new peer is not stored.
AddPeerForgotten(n, node, i) == UNCHANGED <<peers, pendingPeerMsgs>>

\* AddPeer ignores a node that is a peer already; for a new one it sends what was queued.
AddPeer(n, node, i) ==
    /\ peers' = IF peers[<<n, node>>] = None THEN [peers EXCEPT ![<<n, node>>] = i] ELSE peers
    /\ pendingPeerMsgs' = IF peers[<<n, node>>] = None
                            THEN [pendingPeerMsgs EXCEPT ![<<n, node>>] = <<>>]
                            ELSE pendingPeerMsgs
AddPeerFlush(n, node) ==
    IF peers[<<n, node>>] = None THEN pendingPeerMsgs[<<n, node>>] ELSE <<>>

\* ... makes the inviter a peer ...
IoAddPeer(n) ==
    LET i == inviterChan[n]
        inviter == io[n].inviter
    IN  /\ IoAt(n, "add_peer")
        /\ remote' = [remote EXCEPT ![<<i, n>>] = inviter]
        /\ AddPeer(n, inviter, i)
        /\ chan' = [chan EXCEPT ![<<i, Other(i, n)>>] = @ \o AddPeerFlush(n, inviter)]
        /\ GoIo(n, [step |-> "take"])
        /\ UNCHANGED <<portVars, accepted, inviterName, inviterChan, pendingInv, reserved,
                       pendingMerges, app, crashed>>

\* Bugs to try: an empty list is flushed too; the waiting requests are copied, not taken.
FlushEmpty(merges) == [step |-> "flush", merges |-> merges]
IoTakePendingCopied(n) ==
    /\ IoAt(n, "take")
    /\ GoIo(n, IF pendingMerges[n] = <<>> THEN Idle
               ELSE [step |-> "flush", merges |-> pendingMerges[n]])
    /\ UNCHANGED <<portVars, chan, remote, accepted, inviterName, inviterChan, peers,
                   pendingPeerMsgs, pendingInv, reserved, pendingMerges, app, crashed>>

\* ... and HandlePendingMergePort takes the waiting merge requests under their lock ...
Flush(merges) == IF merges = <<>> THEN Idle ELSE [step |-> "flush", merges |-> merges]

IoTakePending(n) ==
    /\ IoAt(n, "take")
    /\ GoIo(n, Flush(pendingMerges[n]))
    /\ pendingMerges' = [pendingMerges EXCEPT ![n] = <<>>]
    /\ UNCHANGED <<portVars, chan, remote, accepted, inviterName, inviterChan, peers,
                   pendingPeerMsgs, pendingInv, reserved, app, crashed>>

RequestPortMerge(name, port) == [type |-> "RequestPortMerge", connector |-> port, name |-> name]

\* ... and sends them, looking the inviter channel up again for each one.
IoFlush(n) ==
    LET i == GetInviterChannel(n)
        request == Head(io[n].merges)
    IN  /\ IoAt(n, "flush")
        /\ IF i = None
             THEN Die(n, "null_channel") /\ UNCHANGED <<chan, io>>
             ELSE /\ SendTo(i, n, RequestPortMerge(request[1], request[2]))
                  /\ GoIo(n, Flush(Tail(io[n].merges)))
                  /\ UNCHANGED crashed
        /\ UNCHANGED <<portVars, remote, accepted, inviterName, inviterChan, peers,
                       pendingPeerMsgs, pendingInv, reserved, pendingMerges, app>>

-----------------------------------------------------------------------------
(* The inviter's side.                                                       *)

\* The port n holds for node `from' under that name, None for an unknown node or name.
ReservedPort(n, from, name) ==
    IF reserved[<<n, from>>] = None THEN None ELSE reserved[<<n, from>>][name]

\* DropPeer forgets a node, or an invitation, and erases the ports reserved for it.  The
\* forgotten channel is destroyed unless it is the inviter channel too.
DropPeer(n, node) ==
    /\ peers' = [peers EXCEPT ![<<n, node>>] = None]
    /\ pendingPeerMsgs' = [pendingPeerMsgs EXCEPT ![<<n, node>>] = <<>>]
    /\ pendingInv' = pendingInv \ {node}
    /\ reserved' = [reserved EXCEPT ![<<n, node>>] = None]
    /\ ports' = ports \ { ReservedPort(n, node, m) : m \in Name }
    /\ DieIf(n, \/ node \in pendingInv
                \/ peers[<<n, node>>] \notin {None, inviterChan[n]}, "channel_destroyed")

\* A bug to try: the entry is copied and stays.
MoveReservedShared(n, from, to) == [reserved EXCEPT ![<<n, to>>] = reserved[<<n, from>>]]

\* reserved_ports_.emplace(to, entry of from), then erase of the entry of from.
MoveReserved(n, from, to) ==
    LET copied == [reserved EXCEPT ![<<n, to>>] =
                     IF @ = None THEN reserved[<<n, from>>] ELSE @]
    IN  [copied EXCEPT ![<<n, from>>] = None]

\* A bug to try: the invitee does not become a peer.
HandleAcceptInvitationNoPeer(i, n) ==
    LET m    == Head(chan[<<i, n>>])
        from == remote[<<i, n>>]
    IN  /\ Receive(i, n, "AcceptInvitation")
        /\ Pop(i, n)
        /\ reserved' = MoveReserved(n, from, m.invitee)
        /\ pendingInv' = pendingInv \ {from}
        /\ remote' = [remote EXCEPT ![<<i, n>>] = m.invitee]
        /\ UNCHANGED <<portVars, accepted, inviterName, inviterChan, peers, pendingPeerMsgs,
                       pendingMerges, io, app, crashed>>

\* OnAcceptInvitation: the ports reserved under the temporary name go to an entry of the
\* invitee's real name, unless it has one already, and the channel becomes a peer.  When
\* the invitee is a peer already, AddPeer leaves the channel without any reference.
HandleAcceptInvitation(i, n) ==
    LET m    == Head(chan[<<i, n>>])
        from == remote[<<i, n>>]
    IN  /\ Receive(i, n, "AcceptInvitation")
        /\ IF from \in pendingInv /\ m.token = from
             THEN /\ reserved' = MoveReserved(n, from, m.invitee)
                  /\ pendingInv' = pendingInv \ {from}
                  /\ remote' = [remote EXCEPT ![<<i, n>>] = m.invitee]
                  /\ AddPeer(n, m.invitee, i)
                  /\ chan' = [Popped(i, n) EXCEPT
                                ![<<i, Other(i, n)>>] = @ \o AddPeerFlush(n, m.invitee)]
                  /\ DieIf(n, peers[<<n, m.invitee>>] # None, "channel_destroyed")
                  /\ UNCHANGED ports
             ELSE /\ Pop(i, n)
                  /\ DropPeer(n, from)
                  /\ UNCHANGED remote
        /\ UNCHANGED <<peerNode, peerPort, peerMap, queue, accepted, inviterName,
                       inviterChan, pendingMerges, io, app>>

\* A bug to try: the port stays reserved.
TakeReservedKept(n, from, name) == reserved

\* erase(port_it), and erase(it) when that was the last port of the entry.
TakeReserved(n, from, name) ==
    LET left == [reserved[<<n, from>>] EXCEPT ![name] = None]
    IN  [reserved EXCEPT ![<<n, from>>] = IF left = EmptyPortMap THEN None ELSE left]

\* OnRequestPortMerge: a reserved port is merged with the connector, that is, erased, and
\* its peer is pointed at the connector; other requests are ignored.
HandleRequestPortMerge(i, n) ==
    LET m        == Head(chan[<<i, n>>])
        from     == remote[<<i, n>>]
        attached == ReservedPort(n, from, m.name)
        local    == peerPort[attached]
    IN  /\ Receive(i, n, "RequestPortMerge")
        /\ Pop(i, n)
        /\ IF attached = None
             THEN UNCHANGED <<portVars, reserved, io>>
             ELSE /\ reserved' = TakeReserved(n, from, m.name)
                  /\ StoreNode(attached, from)
                  /\ GoIo(n, IF Registered(n, local)
                              THEN [step |-> "store_port", local |-> local, node |-> from,
                                    port |-> m.connector, respond |-> TRUE]
                              ELSE [step |-> "respond", local |-> local, node |-> from,
                                    port |-> m.connector])
        /\ UNCHANGED <<remote, accepted, inviterName, inviterChan, peers, pendingPeerMsgs,
                       pendingInv, pendingMerges, app, crashed>>

\* The second store of MergePorts; OnRequestPortMerge then answers the invitee.
IoStorePort(n) ==
    LET s == io[n]
    IN  /\ IoAt(n, "store_port")
        /\ StorePort(s.local, s.node, s.port)
        /\ GoIo(n, IF s.respond
                    THEN [step |-> "respond", local |-> s.local, node |-> s.node, port |-> s.port]
                    ELSE Idle)
        /\ UNCHANGED <<chan, remote, accepted, inviterName, inviterChan, peers,
                       pendingPeerMsgs, pendingInv, reserved, pendingMerges, app, crashed>>

\* Bugs to try: the attached port is answered in place of its peer; nothing is answered.
IoRespondAttached(n) ==
    LET s == io[n]
        i == peers[<<n, s.node>>]
    IN  /\ IoAt(n, "respond")
        /\ SendTo(i, n, [type |-> "ResponsePortMerge", connector |-> s.port,
                         port |-> Sibling(s.local)])
        /\ GoIo(n, Idle)
        /\ UNCHANGED <<portVars, remote, accepted, inviterName, inviterChan, peers,
                       pendingPeerMsgs, pendingInv, reserved, pendingMerges, app, crashed>>
IoRespondSilent(n) ==
    /\ IoAt(n, "respond")
    /\ GoIo(n, Idle)
    /\ UNCHANGED <<portVars, chan, remote, accepted, inviterName, inviterChan, peers,
                   pendingPeerMsgs, pendingInv, reserved, pendingMerges, app, crashed>>

\* GetPeerChannel(from_node)->ResponsePortMerge(...): no peer, no channel to call.
IoRespond(n) ==
    LET s == io[n]
        i == peers[<<n, s.node>>]
    IN  /\ IoAt(n, "respond")
        /\ IF i = None
             THEN Die(n, "null_channel") /\ UNCHANGED <<chan, io>>
             ELSE /\ SendTo(i, n, [type |-> "ResponsePortMerge", connector |-> s.port,
                                   port |-> s.local])
                  /\ GoIo(n, Idle)
                  /\ UNCHANGED crashed
        /\ UNCHANGED <<portVars, remote, accepted, inviterName, inviterChan, peers,
                       pendingPeerMsgs, pendingInv, reserved, pendingMerges, app>>

-----------------------------------------------------------------------------
(* The invitee's side of a merge, and user messages.                         *)

\* OnResponsePortMerge: the connector's peer port is merged with the inviter's port.
HandleResponsePortMerge(i, n) ==
    LET m    == Head(chan[<<i, n>>])
        peer == ConnectorPeer(n, m.connector)
    IN  /\ Receive(i, n, "ResponsePortMerge")
        /\ Pop(i, n)
        /\ IF ~ Registered(n, m.connector)
             THEN UNCHANGED <<portVars, io, crashed>>
             ELSE IF peer = None
             THEN Die(n, "null_port_ref") /\ UNCHANGED <<portVars, io>>
             ELSE /\ StoreNode(peer, remote[<<i, n>>])
                  /\ GoIo(n, IF Registered(n, peerPort[peer])
                              THEN [step |-> "store_port", local |-> peerPort[peer],
                                    node |-> remote[<<i, n>>], port |-> m.port, respond |-> FALSE]
                              ELSE Idle)
                  /\ UNCHANGED crashed
        /\ UNCHANGED <<remote, accepted, inviterName, inviterChan, peers, pendingPeerMsgs,
                       pendingInv, reserved, pendingMerges, app>>

\* OnUserMessage: ports_[to] of an unknown name is a null pointer.
HandleUserMessage(i, n) ==
    LET m == Head(chan[<<i, n>>])
    IN  /\ Receive(i, n, "UserMessage")
        /\ Pop(i, n)
        /\ IF Registered(n, m.to)
             THEN AcceptMessage(m.to, m.data) /\ UNCHANGED crashed
             ELSE Die(n, "unknown_port") /\ UNCHANGED portVars
        /\ UNCHANGED <<remote, accepted, inviterName, inviterChan, peers, pendingPeerMsgs,
                       pendingInv, reserved, pendingMerges, io, app>>

-----------------------------------------------------------------------------
(* The application thread's calls into the controller.                       *)

\* A bug to try: every request waits.
MergePortIntoInviterWaits(n, name, port) ==
    /\ pendingMerges' = [pendingMerges EXCEPT ![n] = Append(@, <<name, port>>)]
    /\ UNCHANGED app

\* MergePortIntoInviter, the part under pending_port_merges_lock_: without an inviter
\* channel the request waits; with one it is sent after the lock is released.
MergePortIntoInviter(n, name, port) ==
    LET i == GetInviterChannel(n)
    IN  IF i = None
          THEN /\ pendingMerges' = [pendingMerges EXCEPT ![n] = Append(@, <<name, port>>)]
               /\ UNCHANGED app
          ELSE /\ GoApp(n, [step |-> "request", channel |-> i, name |-> name, port |-> port])
               /\ UNCHANGED pendingMerges

SendRequest(n) ==
    /\ AppAt(n, "request")
    /\ SendTo(app[n].channel, n, RequestPortMerge(app[n].name, app[n].port))
    /\ GoApp(n, Idle)
    /\ UNCHANGED <<portVars, remote, accepted, inviterName, inviterChan, peers,
                   pendingPeerMsgs, pendingInv, reserved, pendingMerges, io, crashed>>

\* A bug to try: an event for a peer waits for it.
ForwardEventWaits(n, node, m) ==
    /\ pendingPeerMsgs' = [pendingPeerMsgs EXCEPT ![<<n, node>>] = Append(@, m)]
    /\ UNCHANGED chan

\* ForwardEvent drops an event for the own node; SendPeerEvent queues one for a node that
\* is not a peer yet.
ForwardEvent(n, node, m) ==
    IF node = n
      THEN UNCHANGED <<chan, pendingPeerMsgs>>
      ELSE IF peers[<<n, node>>] # None
      THEN SendTo(peers[<<n, node>>], n, m) /\ UNCHANGED pendingPeerMsgs
      ELSE /\ pendingPeerMsgs' = [pendingPeerMsgs EXCEPT ![<<n, node>>] = Append(@, m)]
           /\ UNCHANGED chan

=============================================================================
