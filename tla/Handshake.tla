------------------------------- MODULE Handshake -------------------------------
(***************************************************************************)
(* The inductive invariant behind AcceptFirst and NoMergeForgotten: every  *)
(* invitation goes through five phases, and who may use its channel, and   *)
(* what the channel carries, is fixed by the phase.                        *)
(***************************************************************************)
EXTENDS CoreProperties

\* What a channel carries besides the two messages of the handshake.
Later == {"RequestPortMerge", "ResponsePortMerge", "UserMessage"}
LaterOnly(s) == \A k \in 1 .. Len(s) : s[k].type \in Later

\* The two messages of the handshake of invitation i.
Offer(i) == [type |-> "AcceptInvitee", inviter |-> inviterOf[i], token |-> i]
Answer(i) == [type |-> "AcceptInvitation", token |-> i, invitee |-> inviteeOf[i]]

ToInviter(i) == chan[<<i, inviterOf[i]>>]
ToInvitee(i) == chan[<<i, inviteeOf[i]>>]

\* n sends on channel i only after it has found i in its peers_ map.
CanUse(n, i) == InPeers(n, i) \/ (app[n].step = "request" /\ app[n].channel = i)
Unused(i) == \A n \in Node : ~ CanUse(n, i)

\* The IO thread of the invitee is about to answer i.
AboutToAnswer(i) == LET s == io[inviteeOf[i]] IN s.step = "accept" /\ s.token = i

(* The phases. *)
Unsent(i) ==
    /\ remote[<<i, inviterOf[i]>>] = None
    /\ ToInviter(i) = <<>> /\ ToInvitee(i) = <<>>
    /\ Unused(i)

Pending(i) == remote[<<i, inviterOf[i]>>] = i /\ i \in pendingInv

Offered(i) ==
    /\ Pending(i) /\ Unused(i)
    /\ ToInvitee(i) = <<Offer(i)>> /\ ToInviter(i) = <<>>

Answering(i) ==
    /\ Pending(i) /\ Unused(i) /\ AboutToAnswer(i)
    /\ ToInvitee(i) = <<>> /\ ToInviter(i) = <<>>

Answered(i) ==
    /\ Pending(i) /\ ~ CanUse(inviterOf[i], i)
    /\ ToInviter(i) # <<>> /\ Head(ToInviter(i)) = Answer(i) /\ LaterOnly(Tail(ToInviter(i)))
    /\ ToInvitee(i) = <<>>

Done(i) ==
    /\ remote[<<i, inviterOf[i]>>] = inviteeOf[i]
    /\ LaterOnly(ToInviter(i)) /\ LaterOnly(ToInvitee(i))

Phase(i) == Unsent(i) \/ Offered(i) \/ Answering(i) \/ Answered(i) \/ Done(i)

\* Only the two ends use a channel.
EndsOnly(i) == \A n \in Node : CanUse(n, i) => n \in {inviterOf[i], inviteeOf[i]}

\* An IO thread that handles an offer holds the channel it came from, and that channel is
\* not a peer's yet.
HandlesOffer(n) ==
    io[n].step \in {"accept", "add_peer"} =>
        LET i == io[n].token
        IN  /\ inviteeOf[i] = n /\ inviterOf[i] = io[n].inviter
            /\ ~ InPeers(n, i)
            /\ crashed[n] = "no" => inviterChan[n] = i
            /\ IF io[n].step = "accept" THEN Answering(i) ELSE Answered(i) \/ Done(i)

\* An accepted channel is the inviter channel or a peer's: a channel that was neither has
\* been destroyed, and the process with it.
AcceptedAlive(i) ==
    LET n == inviteeOf[i]
    IN  i \in accepted /\ crashed[n] = "no" => inviterChan[n] = i \/ InPeers(n, i)

HandshakeInv ==
    /\ \A i \in Inv : Phase(i) /\ EndsOnly(i) /\ AcceptedAlive(i)
    /\ \A n \in Node : HandlesOffer(n)
    /\ \A e \in Node \X NodeName : LaterOnly(pendingPeerMsgs[e])

\* Once the inviter is known and the waiting requests are taken, no request waits, and the
\* inviter's channel stays there for the next one; an unset name is nobody's.
MergesTaken(n) ==
    inviterName[n] # None /\ crashed[n] = "no" =>
        /\ io[n].step \in {"accept", "add_peer"} => inviterName[n] = io[n].inviter
        /\ io[n].step \notin {"accept", "add_peer"} => GetInviterChannel(n) # None
        /\ io[n].step \notin {"accept", "add_peer", "take"} => pendingMerges[n] = <<>>

MergesInv == \A n \in Node : MergesTaken(n) /\ peers[<<n, None>>] = None

=============================================================================
