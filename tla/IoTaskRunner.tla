------------------------------ MODULE IoTaskRunner ------------------------------
(***************************************************************************)
(* LibuvIOTaskRunnerAdapter: the IO thread of a process, which runs a      *)
(* libuv loop over the sockets of its channels.  The application thread    *)
(* registers sockets, before or while the loop runs and without a lock;    *)
(* the loop takes notice at the begin of its next turn.  There is no       *)
(* wake-up call: a loop that waits goes on when a socket it watches is     *)
(* ready.  And a loop without an active handle returns, for good.          *)
(*                                                                         *)
(* The module has the actions as operators on its own variables; which     *)
(* sockets are ready, and what a callback does, is said by the module that *)
(* composes it with the channels.                                          *)
(***************************************************************************)
CONSTANTS
    Runner,     \* the runners, one in each process
    Fd,         \* the sockets of channels
    runnerOf,   \* runnerOf[fd]: the runner of the process that has fd
    Nothing     \* no callback

ASSUME RunnerAssumption ==
    /\ runnerOf \in [Fd -> Runner]
    /\ Nothing \notin Fd \X {"readable", "writable"}

VARIABLES
    delegates,  \* delegate_map_: the sockets whose delegate is set
    handles,    \* handles_map_: the sockets that have a uv_poll_t
    active,     \* the handles that uv_poll_start has activated and no error has stopped
    told,       \* the active handles that epoll knows
    at,         \* at[r]: where the IO thread is in uv_run: "unstarted", "alive", "poll", "wait",
                \* "turn" or "returned"
    ready,      \* ready[r]: the events that epoll_wait has returned and that are to be handled
    calling,    \* calling[r]: the event whose callback runs
    lost        \* the runners that have called through a null delegate

runnerVars == <<delegates, handles, active, told, at, ready, calling, lost>>

FdsOf(r) == { fd \in Fd : runnerOf[fd] = r }

RunnerInit ==
    /\ delegates = {} /\ handles = {} /\ active = {} /\ told = {}
    /\ at = [r \in Runner |-> "unstarted"]
    /\ ready = [r \in Runner |-> {}]
    /\ calling = [r \in Runner |-> Nothing]
    /\ lost = {}

-----------------------------------------------------------------------------
(* The application thread.                                                   *)

\* The constructor of ChannelPosix calls set_delegate.
SetDelegate(fd) ==
    /\ fd \notin delegates
    /\ delegates' = delegates \cup {fd}
    /\ UNCHANGED <<handles, active, told, at, ready, calling, lost>>

\* AddFdEvent: a handle for a new socket, then uv_poll_start, which stops the handle and
\* starts it again.
Activate(fd) ==
    /\ handles' = handles \cup {fd}
    /\ active' = active \cup {fd}
    /\ told' = told \ {fd}
    /\ UNCHANGED <<delegates, at, ready, calling, lost>>

\* A bug to try: the socket is registered before its delegate is set.
AddFdEventEarly(fd) == fd \notin active /\ Activate(fd)

\* NodeChannel::Start, once the channel is there.  Each controller starts a channel once.
AddFdEvent(fd) == fd \in delegates /\ fd \notin handles /\ Activate(fd)

\* Start creates the thread and detaches it.
StartRunner(r) ==
    /\ at[r] = "unstarted"
    /\ at' = [at EXCEPT ![r] = "alive"]
    /\ UNCHANGED <<delegates, handles, active, told, ready, calling, lost>>

-----------------------------------------------------------------------------
(* The IO thread: uv_run(loop_, UV_RUN_DEFAULT).                             *)

\* The loop goes on while it has an active handle.
CheckAlive(r) ==
    /\ at[r] = "alive"
    /\ at' = [at EXCEPT ![r] = IF active \cap FdsOf(r) = {} THEN "returned" ELSE "poll"]
    /\ UNCHANGED <<delegates, handles, active, told, ready, calling, lost>>

\* Each turn begins with the handles that have been activated since the last one, ...
TellEpoll(r) ==
    /\ at[r] = "poll"
    /\ told' = told \cup (active \cap FdsOf(r))
    /\ at' = [at EXCEPT ![r] = "wait"]
    /\ UNCHANGED <<delegates, handles, active, ready, calling, lost>>

\* ... then epoll_wait returns what is ready of the sockets it knows, once something is.  An
\* error stops the handle and is only logged.
Wake(r, events, errors) ==
    /\ at[r] = "wait"
    /\ events \cup errors # {}
    /\ \A e \in events : e[1] \in (told \cap FdsOf(r)) \ errors
    /\ errors \subseteq told \cap FdsOf(r)
    /\ ready' = [ready EXCEPT ![r] = events]
    /\ active' = active \ errors
    /\ told' = told \ errors
    /\ at' = [at EXCEPT ![r] = "turn"]
    /\ UNCHANGED <<delegates, handles, calling, lost>>

\* A bug to try: only UV_READABLE is handled.
OnLibuvFdActiveReads(r, e) ==
    /\ at[r] = "turn" /\ calling[r] = Nothing /\ r \notin lost
    /\ e \in ready[r]
    /\ ready' = [ready EXCEPT ![r] = @ \ {e}]
    /\ calling' = [calling EXCEPT ![r] = IF e[2] = "readable" THEN e ELSE Nothing]
    /\ UNCHANGED <<delegates, handles, active, told, at, lost>>

\* OnLibuvFdActive looks the delegate up and calls it, for reading before writing.
OnLibuvFdActive(r, e) ==
    /\ at[r] = "turn" /\ calling[r] = Nothing /\ r \notin lost
    /\ e \in ready[r]
    /\ e[2] = "writable" => <<e[1], "readable">> \notin ready[r]
    /\ ready' = [ready EXCEPT ![r] = @ \ {e}]
    /\ IF e[1] \in delegates
         THEN calling' = [calling EXCEPT ![r] = e] /\ UNCHANGED lost
         ELSE lost' = lost \cup {r} /\ UNCHANGED calling
    /\ UNCHANGED <<delegates, handles, active, told, at>>

\* The callback returns, ...
EndCallback(r) ==
    /\ calling[r] # Nothing
    /\ calling' = [calling EXCEPT ![r] = Nothing]
    /\ UNCHANGED <<delegates, handles, active, told, at, ready, lost>>

\* A bug to try: the loop is run once (UV_RUN_ONCE).
EndTurnOnce(r) ==
    /\ at[r] = "turn" /\ calling[r] = Nothing /\ ready[r] = {}
    /\ at' = [at EXCEPT ![r] = "returned"]
    /\ UNCHANGED <<delegates, handles, active, told, ready, calling, lost>>

\* ... and after the last one the loop begins again.
EndTurn(r) ==
    /\ at[r] = "turn" /\ calling[r] = Nothing /\ ready[r] = {}
    /\ at' = [at EXCEPT ![r] = "alive"]
    /\ UNCHANGED <<delegates, handles, active, told, ready, calling, lost>>

=============================================================================
