-------------------------------- MODULE Threads --------------------------------
(***************************************************************************)
(* The threads of a process: each is in a routine of LockUse of its own,   *)
(* between any two steps of the others.                                    *)
(***************************************************************************)
EXTENDS Mutexes, LockUse

CONSTANT AppThread  \* threads that only the application uses; any other one does as well
                    \* what the IO thread does

ProcessRoutine == UNION { (DOMAIN ApiCalls(k) \cup DOMAIN Callbacks(k)) \X {k} : k \in Channel }

ProcessProg ==
    [r \in ProcessRoutine |->
        IF r[1] \in DOMAIN ApiCalls(r[2]) THEN ApiCalls(r[2])[r[1]] ELSE Callbacks(r[2])[r[1]]]

ProcessMayRun ==
    [t \in Thread |-> { r \in ProcessRoutine :
                          t \in AppThread => r[1] \in DOMAIN ApiCalls(r[2]) }]

\* MergePortIntoInviter takes two locks inside pending_port_merges_lock_, and SendPeerEvent
\* those of the channel inside peers_lock_.
ProcessRank ==
    [l \in ProcessLock |->
        CASE l[1] = "pending_port_merges_lock" -> 4
          [] l[1] \in {"inviter_lock", "peers_lock"} -> 3
          [] l[1] = "channel_lock" -> 2
          [] OTHER -> 1]

-----------------------------------------------------------------------------
\* Members that the code uses on two threads with no lock in common.
Unguarded ==
    { The(m) : m \in { "ports", "peer_port_maps", "peer_address", "message_queue",
                       "inviter_channel", "pending_invitations", "delegate_map",
                       "handles_map" } }

\* The locks protect every other member: two threads are never about to use the same one,
\* one of them to change it.
RacesOnlyOn ==
    \A t, u \in Thread :
        /\ t # u /\ Busy(t) /\ Busy(u)
        /\ StepOf(t).do = "put" /\ StepOf(u).do \in {"get", "put"}
        /\ StepOf(t).on = StepOf(u).on
        => StepOf(t).on \in Unguarded

=============================================================================
