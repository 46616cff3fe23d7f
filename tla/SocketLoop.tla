------------------------------- MODULE SocketLoop -------------------------------
(***************************************************************************)
(* ChannelPosix and IoTaskRunner together: the callbacks of one direction  *)
(* of a channel are made by the event loops of its two processes, in turn  *)
(* with those of other sockets, once each process has registered its end   *)
(* and started its runner.  Both processes live on.                        *)
(***************************************************************************)
EXTENDS ChannelProperties, IoTaskRunner

End == {"writer", "reader"}

ASSUME LoopAssumption == End \subseteq Fd /\ runnerOf["writer"] # runnerOf["reader"]

loopVars == <<vars, runnerVars>>

LoopInit == Init /\ RunnerInit

\* The sockets of other channels are ready at any time, or fail.
Other == Fd \ End

-----------------------------------------------------------------------------
\* NodeChannel::Create, in SendInvitation or AcceptInvitation, makes the channel, ...
CreateChannel(fd) == SetDelegate(fd) /\ UNCHANGED vars

\* ... and Start, which follows it, registers the socket.
StartChannel(fd) ==
    /\ AddFdEvent(fd)
    /\ IF fd \in End THEN Start(fd) ELSE UNCHANGED vars

\* The application starts the runner when it likes.
RunRunner(r) == StartRunner(r) /\ UNCHANGED vars

QueueWrite(m) == Write(m) /\ UNCHANGED runnerVars

-----------------------------------------------------------------------------
\* What epoll finds: bytes to read, or room for more; nothing is sent the other way.
Readable(fd) == fd = "reader" /\ sock # <<>>
Writable(fd) == fd = "reader" \/ (fd = "writer" /\ Len(sock) < SockBuf)

FoundReady(r) ==
    { e \in ((told \cap End \cap FdsOf(r)) \X {"readable", "writable"}) :
        IF e[2] = "readable" THEN Readable(e[1]) ELSE Writable(e[1]) }

WaitForEvents(r) ==
    /\ \E errors \in SUBSET (told \cap Other) :
       \E others \in SUBSET (((told \cap Other \cap FdsOf(r)) \ errors) \X {"writable"}) :
           Wake(r, FoundReady(r) \cup others, errors)
    /\ UNCHANGED vars

\* The callback of the channel, if the event is one of this direction and there is work.
Callback(r) ==
    \E e \in ready[r] :
        /\ OnLibuvFdActive(r, e)
        /\ IF calling'[r] = <<"writer", "writable">> /\ queue # <<>>
             THEN OnFdWriteable
             ELSE IF calling'[r] = <<"reader", "readable">>
             THEN OnFdReadable
             ELSE UNCHANGED vars

CallbackEnds(r) ==
    /\ calling[r] = <<"writer", "writable">> => batch = <<>>
    /\ calling[r] = <<"reader", "readable">> => rd = RdIdle
    /\ EndCallback(r)
    /\ UNCHANGED vars

LoopStep(r) ==
    \/ (CheckAlive(r) \/ TellEpoll(r) \/ EndTurn(r)) /\ UNCHANGED vars
    \/ WaitForEvents(r)
    \/ Callback(r)
    \/ CallbackEnds(r)

\* One call of send() or recv(), inside a callback.
InCallback == (Send \/ GiveUp \/ Recv \/ RecvNothing) /\ UNCHANGED runnerVars

LoopNext ==
    \/ \E fd \in Fd : CreateChannel(fd) \/ StartChannel(fd)
    \/ \E r \in Runner : RunRunner(r) \/ LoopStep(r)
    \/ \E m \in Proto : QueueWrite(m)
    \/ InCallback

\* A thread in the loop goes on, unless it waits for events that do not come; a controller
\* starts the channels it creates.
LoopFairness ==
    /\ \A r \in Runner : WF_loopVars(LoopStep(r))
    /\ WF_loopVars(InCallback)
    /\ \A end \in End : WF_loopVars(CreateChannel(end)) /\ WF_loopVars(StartChannel(end))

LoopSpec == LoopInit /\ [][LoopNext]_loopVars /\ LoopFairness

-----------------------------------------------------------------------------
(* What the loop owes the channels.                                          *)

\* The IO thread never calls through the null pointer of delegate(fd): a socket that epoll
\* may report has its delegate, although delegate_map_ and the registration have no lock.
DelegateSet == lost = {} /\ active \subseteq delegates

\* A loop that runs when, or after, a socket is registered calls it back, again and again,
\* also when it was waiting for others and when those others fail.
ServedForGood ==
    \A fd \in End :
        (fd \in active /\ at[runnerOf[fd]] \notin {"unstarted", "returned"})
        ~> calling[runnerOf[fd]] = <<fd, "writable">>

\* The loop returns while sockets are open only if they came too late or failed: it leaves
\* none that it had begun to watch.
NoneAbandoned == \A r \in Runner : at[r] = "returned" => told \cap FdsOf(r) = {}

LoopsRun == \A end \in End : at[runnerOf[end]] \notin {"unstarted", "returned"}

\* The fairness that ChannelPosix assumes of the callbacks is what loops that run provide.
FairnessKept == (<>[]LoopsRun) => Fairness

\* And so everything written arrives, wherever in the turns of the two loops the channel was
\* registered and the messages were queued.
DeliveredByLoops == (<>[]LoopsRun) => AllDelivered

=============================================================================
