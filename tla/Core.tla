--------------------------------- MODULE Core ---------------------------------
(***************************************************************************)
(* Core: the API an application calls, in every process, composed with the *)
(* IO threads of NodeController.                                           *)
(*                                                                         *)
(* The application of a process is one thread, as in test/core.cc.  It     *)
(* attaches pipes to invitations, sends and accepts invitations, extracts  *)
(* pipes by name, and writes to and reads from the ports it got handles    *)
(* for; in any order, which the API does not restrict.                     *)
(*                                                                         *)
(* nameOf, offeredBy, written and got are history variables: the name a    *)
(* pipe was attached or extracted under, the invitation it was attached    *)
(* to, the port each message was written to and the port it was read from. *)
(***************************************************************************)
EXTENDS NodeController

VARIABLES
    made,       \* the calls that have created their port pair
    pipes,      \* the ports the applications have handles for
    attached,   \* attached[<<i, m>>]: attached_ports_ of the inviter's dispatcher of i
    nameOf,     \* nameOf[p]: the name p was attached or extracted under
    offeredBy,  \* offeredBy[p]: the invitation p was attached to
    written,    \* written[m]: the port message m was written to
    got         \* got[m]: the port message m was read from

coreVars == <<made, pipes, attached, nameOf, offeredBy, written, got>>
vars == <<portVars, nodeVars, coreVars>>

CoreTypeOK ==
    /\ made \subseteq Call
    /\ pipes \subseteq Port
    /\ attached \in [Inv \X Name -> PortName]
    /\ nameOf \in [Port -> Name \cup {None}]
    /\ offeredBy \in [Port -> Inv \cup {None}]
    /\ written \in [Msg -> PortName]
    /\ got \in [Msg -> PortName]

Init ==
    /\ PortsInit
    /\ NodeInit
    /\ made = {}
    /\ pipes = {}
    /\ attached = [e \in Inv \X Name |-> None]
    /\ nameOf = [p \in Port |-> None]
    /\ offeredBy = [p \in Port |-> None]
    /\ written = [m \in Msg |-> None]
    /\ got = [m \in Msg |-> None]

AppReady(n) == AppAt(n, "idle")

\* AddDispatcher(MessagePipeDispatcher): the application gets a handle for port p.
GetHandle(p) == pipes' = pipes \cup {p}

-----------------------------------------------------------------------------
(* Invitations.                                                              *)

\* AttachMessagePipeToInvitation creates a pair, and a handle for port0, before it finds
\* that the name is taken: then the caller never learns the handle.
Attach(c, i, name) ==
    /\ AppReady(callNode[c])
    /\ callNode[c] = inviterOf[i]
    /\ c \notin made
    /\ made' = made \cup {c}
    /\ CreatePortPair(c)
    /\ IF attached[<<i, name>>] = None
         THEN /\ attached' = [attached EXCEPT ![<<i, name>>] = Port1(c)]
              /\ nameOf' = [nameOf EXCEPT ![Port0(c)] = name, ![Port1(c)] = name]
              /\ offeredBy' = [offeredBy EXCEPT ![Port0(c)] = i, ![Port1(c)] = i]
              /\ GetHandle(Port0(c))
         ELSE UNCHANGED <<attached, pipes, nameOf, offeredBy>>
    /\ UNCHANGED <<nodeVars, written, got>>

\* SendInvitation takes all attached ports out of the dispatcher and hands them over.
CoreSendInvitation(i) ==
    /\ AppReady(inviterOf[i])
    /\ SendInvitation(i, [m \in Name |-> attached[<<i, m>>]])
    /\ attached' = [e \in Inv \X Name |-> IF e[1] = i THEN None ELSE attached[e]]
    /\ UNCHANGED <<made, pipes, nameOf, offeredBy, written, got>>

CoreAcceptInvitation(i) ==
    /\ AppReady(inviteeOf[i])
    /\ AcceptInvitation(i)
    /\ UNCHANGED coreVars

\* ExtractMessagePipeFromInvitation by the inviter itself, of a pipe still attached: the
\* handle is for the attached port.
ExtractLocal(i, name) ==
    /\ AppReady(inviterOf[i])
    /\ attached[<<i, name>>] # None
    /\ attached' = [attached EXCEPT ![<<i, name>>] = None]
    /\ GetHandle(attached[<<i, name>>])
    /\ UNCHANGED <<portVars, nodeVars, made, nameOf, offeredBy, written, got>>

\* Otherwise a new pair is made, the handle is for its port0, and the inviter of this
\* process is asked for the name.  The invitee's dispatcher has nothing attached.
Extract(c, i, name) ==
    LET n == callNode[c]
    IN  /\ AppReady(n)
        /\ \/ n = inviteeOf[i] /\ i \in accepted
           \/ n = inviterOf[i] /\ attached[<<i, name>>] = None
        /\ c \notin made
        /\ made' = made \cup {c}
        /\ CreatePortPair(c)
        /\ GetHandle(Port0(c))
        /\ nameOf' = [nameOf EXCEPT ![Port0(c)] = name]
        /\ MergePortIntoInviter(n, name, Port0(c))
        /\ UNCHANGED <<chan, remote, accepted, inviterName, inviterChan, peers,
                       pendingPeerMsgs, pendingInv, reserved, io, crashed,
                       attached, offeredBy, written, got>>

CoreSendRequest(n) == SendRequest(n) /\ UNCHANGED coreVars

-----------------------------------------------------------------------------
(* Messages.                                                                 *)

\* WriteMessage: SendUserMessageInternal reads peer_port_name ...
Write(p, m) ==
    LET n == Owner(p)
    IN  /\ AppReady(n)
        /\ p \in pipes
        /\ written[m] = None
        /\ written' = [written EXCEPT ![m] = p]
        /\ GoApp(n, [step |-> "write", from |-> p, to |-> peerPort[p], data |-> m])
        /\ UNCHANGED <<portVars, chan, remote, accepted, inviterName, inviterChan, peers,
                       pendingPeerMsgs, pendingInv, reserved, pendingMerges, io, crashed,
                       made, pipes, attached, nameOf, offeredBy, got>>

\* A bug to try: the two port names of the message are swapped.
WriteForwardSwapped(n) ==
    LET w == app[n]
    IN  /\ AppAt(n, "write")
        /\ ForwardEvent(n, peerNode[w.from],
             [type |-> "UserMessage", from |-> w.to, to |-> w.from, data |-> w.data])
        /\ GoApp(n, Idle)
        /\ UNCHANGED <<portVars, remote, accepted, inviterName, inviterChan, peers,
                       pendingInv, reserved, pendingMerges, io, crashed, coreVars>>

\* ... and then peer_node_name, with no lock held: the IO thread may store in between.
WriteForward(n) ==
    LET w == app[n]
    IN  /\ AppAt(n, "write")
        /\ ForwardEvent(n, peerNode[w.from],
             [type |-> "UserMessage", from |-> w.from, to |-> w.to, data |-> w.data])
        /\ GoApp(n, Idle)
        /\ UNCHANGED <<portVars, remote, accepted, inviterName, inviterChan, peers,
                       pendingInv, reserved, pendingMerges, io, crashed, coreVars>>

\* ReadMessage; on an empty queue it returns OK and no message.
Read(p) ==
    LET m == Last(queue[p])
    IN  /\ AppReady(Owner(p))
        /\ p \in pipes
        /\ queue[p] # <<>>
        /\ GetNextMessage(p)
        /\ got' = [got EXCEPT ![m] = p]
        /\ UNCHANGED <<nodeVars, made, pipes, attached, nameOf, offeredBy, written>>

-----------------------------------------------------------------------------
(* The system.                                                               *)

Handle(i, n) ==
    \/ HandleAcceptInvitee(i, n)
    \/ HandleAcceptInvitation(i, n)
    \/ HandleRequestPortMerge(i, n)
    \/ HandleResponsePortMerge(i, n)
    \/ HandleUserMessage(i, n)

IoContinue(n) ==
    \/ IoSendAccept(n)
    \/ IoAddPeer(n)
    \/ IoTakePending(n)
    \/ IoFlush(n)
    \/ IoStorePort(n)
    \/ IoRespond(n)

Io ==
    /\ \/ \E e \in End : Handle(e[1], e[2])
       \/ \E n \in Node : IoContinue(n)
    /\ UNCHANGED coreVars

App ==
    \/ \E c \in Call, i \in Inv, name \in Name : Attach(c, i, name)
    \/ \E i \in Inv : CoreSendInvitation(i)
    \/ \E i \in Inv : CoreAcceptInvitation(i)
    \/ \E i \in Inv, name \in Name : ExtractLocal(i, name)
    \/ \E c \in Call, i \in Inv, name \in Name : Extract(c, i, name)
    \/ \E n \in Node : CoreSendRequest(n)
    \/ \E p \in Port, m \in Msg : Write(p, m)
    \/ \E n \in Node : WriteForward(n)
    \/ \E p \in Port : Read(p)

Next == Io \/ App

\* The event loop polls every channel on each turn and never stops in the middle of a
\* handler; an API call, once begun, returns.  Nothing makes an application call.
Fairness ==
    /\ \A e \in End : WF_vars(Handle(e[1], e[2]) /\ UNCHANGED coreVars)
    /\ \A n \in Node : /\ WF_vars(IoContinue(n) /\ UNCHANGED coreVars)
                       /\ WF_vars(CoreSendRequest(n))
                       /\ WF_vars(WriteForward(n))

Spec == Init /\ [][Next]_vars
FairSpec == Spec /\ Fairness

=============================================================================
