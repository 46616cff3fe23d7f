-------------------------------- MODULE LockUse --------------------------------
(***************************************************************************)
(* The locks that the API calls (application threads) and the handlers (IO *)
(* thread) of a process take, and the members that they use under them or  *)
(* without, in the order of the code.  A routine with branches is several  *)
(* here.  Objects that no other thread knows yet, as the ports of a new    *)
(* pair, are left out.                                                     *)
(***************************************************************************)
EXTENDS Naturals, Sequences

CONSTANT Channel    \* the NodeChannels of the process

\* A lock or a member that there is one of, and one of each channel.
The(x) == <<x, 0>>
ProcessLock ==
    { The(l) : l \in { "node_controller_lock", "handle_table", "dispatcher", "names",
                       "ports_lock", "inviter_lock", "peers_lock", "reserved_ports_lock",
                       "pending_port_merges_lock" } }
        \cup ({"channel_lock", "writing_protocol_lock"} \X Channel)

Use(do, m) == <<[do |-> do, on |-> m, held |-> {}]>>
Get(x) == Use("get", The(x))
Put(x) == Use("put", The(x))
GetOf(x, k) == Use("get", <<x, k>>)
PutOf(x, k) == Use("put", <<x, k>>)

\* A MutexLockGuard of l around the steps s.
Guard(l, s) ==
    <<[do |-> "lock", on |-> l, held |-> {}]>>
    \o [i \in DOMAIN s |-> [do |-> s[i].do, on |-> s[i].on, held |-> s[i].held \cup {l}]]
    \o <<[do |-> "unlock", on |-> l, held |-> {l}]>>

-----------------------------------------------------------------------------
(* Core, HandleTable, InvitationDispatcher.                                  *)

GetNodeController == Guard(The("node_controller_lock"), Get("node_controller"))
GetDispatcher == Guard(The("handle_table"), Get("handles"))
AddDispatcher == Guard(The("handle_table"), Put("handles"))
PutAttached == Guard(The("dispatcher"), Put("attached_ports"))

-----------------------------------------------------------------------------
(* ports::Node.                                                              *)

GenerateRandomPortName == Guard(The("names"), Put("name_cache"))
AddPortWithName == Guard(The("ports_lock"), Put("ports"))
InitializePort == Guard(The("ports_lock"), Put("peer_port_maps"))
CreatePortPair == GenerateRandomPortName \o AddPortWithName \o GenerateRandomPortName
                  \o AddPortWithName \o InitializePort \o InitializePort

ErasePort == Guard(The("ports_lock"), Put("ports"))

\* The erase in peer_port_maps_ and UpdatePortPeerAddress come after the region.
MergePorts == ErasePort \o Guard(The("ports_lock"), Get("peer_address") \o Get("ports"))
              \o Put("peer_port_maps") \o Put("peer_address") \o Put("peer_port_maps")
MergePortsResponse == Guard(The("ports_lock"), Get("ports")) \o Get("peer_address")
                      \o Put("peer_port_maps") \o MergePorts

-----------------------------------------------------------------------------
(* NodeChannel and ChannelPosix; k is the channel.                           *)

CreateChannel == Put("delegate_map")
StartChannel(k) == Guard(<<"channel_lock", k>>, GetOf("channel", k) \o Put("handles_map"))
WriteChannelMessage(k) ==
    Guard(<<"channel_lock", k>>,
          GetOf("channel", k) \o Guard(<<"writing_protocol_lock", k>>, PutOf("writing_protocol", k)))

-----------------------------------------------------------------------------
(* NodeController.                                                           *)

GetPeerChannel == Guard(The("peers_lock"), Get("peers"))
GetInviterChannel == Guard(The("inviter_lock"), Get("inviter_name")) \o GetPeerChannel

MergePortIntoInviter(k) ==
    Guard(The("pending_port_merges_lock"), GetInviterChannel) \o WriteChannelMessage(k)
MergePortIntoInviterWaits ==
    Guard(The("pending_port_merges_lock"), GetInviterChannel \o Put("pending_port_merges"))

\* A bug to try: the peer is entered without the lock.
AddPeerUnlocked(k) ==
    PutOf("remote_node_name", k) \o Get("peers") \o Put("peers") \o Put("pending_peer_messages")
    \o WriteChannelMessage(k)

AddPeer(k) ==
    PutOf("remote_node_name", k)
    \o Guard(The("peers_lock"), Get("peers") \o Put("peers") \o Put("pending_peer_messages"))
    \o WriteChannelMessage(k)

DropPeer ==
    Guard(The("peers_lock"),
          Put("peers") \o Put("pending_peer_messages") \o Put("pending_invitations"))
    \o Guard(The("reserved_ports_lock"), Put("reserved_ports")) \o ErasePort

HandlePendingMergePort(k) ==
    Guard(The("pending_port_merges_lock"), Put("pending_port_merges"))
    \o GetInviterChannel \o WriteChannelMessage(k)

\* The peer is found at the second look; it is sent to with the lock still held.
SendPeerEventLate(k) ==
    GetPeerChannel \o Guard(The("peers_lock"), Get("peers") \o WriteChannelMessage(k))

-----------------------------------------------------------------------------
(* The API calls.                                                            *)

AttachMessagePipe == GetDispatcher \o GetNodeController \o CreatePortPair
                     \o GetNodeController \o AddDispatcher \o PutAttached
ExtractLocally == GetDispatcher \o PutAttached \o GetNodeController \o AddDispatcher
ExtractFromInviter(merge) ==
    GetDispatcher \o Guard(The("dispatcher"), Get("attached_ports")) \o GetNodeController
    \o CreatePortPair \o GetNodeController \o AddDispatcher \o GetNodeController \o merge
SendInvitation(k) ==
    GetDispatcher \o PutAttached \o PutAttached \o GetNodeController
    \o Guard(The("reserved_ports_lock"), Put("reserved_ports"))
    \o CreateChannel \o Put("pending_invitations") \o StartChannel(k) \o WriteChannelMessage(k)
AcceptInvitation(k) ==
    AddDispatcher \o GetNodeController
    \o Guard(The("inviter_lock"),
             Put("inviter_name") \o CreateChannel \o Put("inviter_channel"))
    \o Get("inviter_channel") \o StartChannel(k)
WriteMessage(send) == GetDispatcher \o Get("peer_address") \o send
ReadMessage == GetDispatcher \o Get("message_queue") \o Put("message_queue")

ApiCalls(k) ==
    [ create |-> AddDispatcher, attach |-> AttachMessagePipe, local |-> ExtractLocally,
      extract |-> ExtractFromInviter(MergePortIntoInviter(k)),
      wait |-> ExtractFromInviter(MergePortIntoInviterWaits),
      send |-> SendInvitation(k), accept |-> AcceptInvitation(k),
      write |-> WriteMessage(GetPeerChannel \o WriteChannelMessage(k)),
      writeLate |-> WriteMessage(SendPeerEventLate(k)),
      writeWaits |-> WriteMessage(GetPeerChannel \o Guard(The("peers_lock"),
                                      Get("peers") \o Put("pending_peer_messages"))),
      read |-> ReadMessage ]

-----------------------------------------------------------------------------
(* The callbacks of the IO thread.                                           *)

OnFdReadable(k, s) == Get("delegate_map") \o GetOf("remote_node_name", k) \o s
OnFdWriteable(k) == Get("delegate_map")
                    \o Guard(<<"writing_protocol_lock", k>>, PutOf("writing_protocol", k))

\* A bug to try: inviter_lock_ is held to the end of the handler.
OnAcceptInviteeLocked(k) ==
    Guard(The("inviter_lock"),
          Put("inviter_name") \o Get("inviter_channel") \o PutOf("remote_node_name", k)
          \o WriteChannelMessage(k) \o AddPeer(k) \o HandlePendingMergePort(k))

OnAcceptInvitee(k) ==
    Guard(The("inviter_lock"), Put("inviter_name"))
    \o Get("inviter_channel") \o PutOf("remote_node_name", k) \o WriteChannelMessage(k)
    \o Get("inviter_channel") \o AddPeer(k) \o HandlePendingMergePort(k)
OnAcceptInvitation(k) ==
    Get("pending_invitations") \o Guard(The("reserved_ports_lock"), Put("reserved_ports"))
    \o Put("pending_invitations") \o AddPeer(k)
OnRequestPortMerge(k) ==
    Guard(The("reserved_ports_lock"), Put("reserved_ports"))
    \o MergePorts \o GetPeerChannel \o WriteChannelMessage(k)
OnUserMessage == Get("ports") \o Put("message_queue")

Callbacks(k) ==
    [ invitee |-> OnFdReadable(k, OnAcceptInvitee(k)),
      invitation |-> OnFdReadable(k, OnAcceptInvitation(k)),
      unexpected |-> OnFdReadable(k, Get("pending_invitations") \o DropPeer),
      request |-> OnFdReadable(k, OnRequestPortMerge(k)),
      unknown |-> OnFdReadable(k, Guard(The("reserved_ports_lock"), Get("reserved_ports"))),
      response |-> OnFdReadable(k, MergePortsResponse),
      message |-> OnFdReadable(k, OnUserMessage),
      writeable |-> OnFdWriteable(k) ]

=============================================================================
