-------------------------------- MODULE Ports --------------------------------
(***************************************************************************)
(* ports::Node, ports::Port and ports::MessageQueue: the ports of every    *)
(* process, whom each of them writes to, and the messages each one holds.  *)
(*                                                                         *)
(* One process of the real system is one element of Node (its random       *)
(* 128-bit NodeName).  A port is named after the API call that created it: *)
(* Attach and Extract each create one pair, so the pair of call c is       *)
(* <<c, 0>> (port0, whose handle the application gets) and <<c, 1>>        *)
(* (port1).  Random names never collide in the model.                      *)
(*                                                                         *)
(* The operators below are fragments of actions: they fix the next values  *)
(* of the variables they mention, and the modules that extend this one     *)
(* build whole handlers from them.                                         *)
(***************************************************************************)
EXTENDS Naturals, Sequences, SequencesExt

CONSTANTS
    Node,       \* the processes
    Inv,        \* the invitations: one socket pair and one temporary node name
    Call,       \* the API calls that create a port pair
    callNode,   \* callNode[c] is the process that makes call c
    Msg,        \* the user messages
    None        \* an unset (invalid) name, a null pointer

NodeName == Node \cup Inv \cup {None}

Port == Call \X {0, 1}
PortName == Port \cup {None}

Port0(c) == <<c, 0>>
Port1(c) == <<c, 1>>

\* The process whose ports_ map holds p.
Owner(p) == callNode[p[1]]

\* The port created together with p.
Sibling(p) == <<p[1], 1 - p[2]>>

ASSUME PortsAssumption ==
    /\ callNode \in [Call -> Node]
    /\ Node \cap Inv = {}
    /\ None \notin Node \cup Inv \cup Port \cup Msg

VARIABLES
    ports,      \* the names registered in the ports_ map of their owner
    peerNode,   \* Port::peer_node_name
    peerPort,   \* Port::peer_port_name
    peerMap,    \* peer_port_maps_: owner, peer node, peer port, local port
    queue       \* Port::message_queue, a vector

portVars == <<ports, peerNode, peerPort, peerMap, queue>>

PortsTypeOK ==
    /\ ports \subseteq Port
    /\ peerNode \in [Port -> NodeName]
    /\ peerPort \in [Port -> PortName]
    /\ peerMap \subseteq Node \X NodeName \X Port \X Port
    /\ queue \in [Port -> Seq(Msg)]

PortsInit ==
    /\ ports = {}
    /\ peerNode = [p \in Port |-> None]
    /\ peerPort = [p \in Port |-> None]
    /\ peerMap = {}
    /\ queue = [p \in Port |-> <<>>]

-----------------------------------------------------------------------------
(* CreatePortPair: two registered ports of one node that are each other's peer. *)
CreatePortPair(c) ==
    /\ ports' = ports \cup {Port0(c), Port1(c)}
    /\ peerNode' = [p \in Port |-> IF p[1] = c THEN callNode[c] ELSE peerNode[p]]
    /\ peerPort' = [p \in Port |-> IF p[1] = c THEN Sibling(p) ELSE peerPort[p]]
    /\ peerMap' = peerMap \cup
         { <<callNode[c], callNode[c], Port1(c), Port0(c)>>,
           <<callNode[c], callNode[c], Port0(c), Port1(c)>> }
    /\ UNCHANGED queue

\* p is a key of the ports_ map of n.
Registered(n, p) == p \in ports /\ Owner(p) = n

(* MergePorts(p, node, ...) up to the first store of UpdatePortPeerAddress:  *)
(* p is erased, and its peer, if still registered, loses its old peer map    *)
(* entry and has its peer_node_name overwritten.  Its peer_port_name is      *)
(* overwritten by a second store, StorePort below: between the two the       *)
(* application thread can read the new node with the old port.               *)
StoreNode(p, node) ==
    LET local == peerPort[p]
    IN  /\ ports' = ports \ {p}
        /\ IF Registered(Owner(p), local)
             THEN /\ peerMap' = { e \in peerMap :
                                    ~ ( /\ e[1] = Owner(p)
                                        /\ e[2] = peerNode[local]
                                        /\ e[3] = p ) }
                  /\ peerNode' = [peerNode EXCEPT ![local] = node]
             ELSE UNCHANGED <<peerMap, peerNode>>
        /\ UNCHANGED <<peerPort, queue>>

StorePort(local, node, port) ==
    /\ peerPort' = [peerPort EXCEPT ![local] = port]
    /\ peerMap' = IF port = None THEN peerMap
                  ELSE peerMap \cup {<<Owner(local), node, port, local>>}
    /\ UNCHANGED <<ports, peerNode, queue>>

(* The local port that MergePortsResponse looks up for a connector: the      *)
(* connector's own peer, found through peer_port_maps_; a default-constructed *)
(* PortRef (None) when there is no such entry.                               *)
ConnectorPeer(n, connector) ==
    LET peer == peerPort[connector]
    IN  IF <<n, n, connector, peer>> \in peerMap THEN peer ELSE None

(* Bugs to try: a message that goes to the wrong end, or nowhere; one that is *)
(* looked at and stays.                                                      *)
AcceptMessageAtSibling(p, m) ==
    /\ queue' = [queue EXCEPT ![Sibling(p)] = Append(@, m)]
    /\ UNCHANGED <<ports, peerNode, peerPort, peerMap>>
AcceptMessageDropped(p, m) == UNCHANGED portVars
GetNextMessageKept(p) == UNCHANGED portVars

(* MessageQueue::AcceptMessage appends at the back.                          *)
AcceptMessage(p, m) ==
    /\ queue' = [queue EXCEPT ![p] = Append(@, m)]
    /\ UNCHANGED <<ports, peerNode, peerPort, peerMap>>

(* MessageQueue::GetNextMessage takes the message at the back.               *)
GetNextMessage(p) ==
    /\ queue' = [queue EXCEPT ![p] = Front(@)]
    /\ UNCHANGED <<ports, peerNode, peerPort, peerMap>>

=============================================================================
