------------------------------ MODULE MessagePipe ------------------------------
(***************************************************************************)
(* What message pipes promise, whatever threads, sockets and handshakes    *)
(* carry them: ports are connected pairwise and for good, and a message    *)
(* written to a connected port is read at most once, at the other end and  *)
(* nowhere else.  No order is promised, and a message written while its    *)
(* port is not connected, or is just being connected, may be lost.         *)
(***************************************************************************)

CONSTANTS Port, Msg, None

VARIABLES
    other,  \* other[p]: the port that p is connected to
    state,  \* state[m]: how far message m has got
    from    \* from[m]: the port that message m was written to

vars == <<other, state, from>>

State == {"new", "sent", "ready", "read", "lost"}

Init ==
    /\ other = [p \in Port |-> None]
    /\ state = [m \in Msg |-> "new"]
    /\ from = [m \in Msg |-> None]

\* One end learns the other.  An end that q knows already can only be p, and nobody else
\* is connected to q.  (What changes is tested first: a step changes few ends.)
Connect(p, q) ==
    /\ p # q
    /\ other'[p] = q /\ other[p] = None
    /\ other[q] \in {None, p}
    /\ \A r \in Port : other[r] # q
    /\ other' = [other EXCEPT ![p] = q]
    /\ UNCHANGED <<state, from>>

\* A message is sent to the other end, or is lost.
Write(m, p) ==
    /\ from'[m] = p /\ state[m] = "new"
    /\ \/ other[p] # None /\ state' = [state EXCEPT ![m] = "sent"]
       \/ state' = [state EXCEPT ![m] = "lost"]
    /\ from' = [from EXCEPT ![m] = p]
    /\ UNCHANGED other

\* A message arrives at the other end, where it is read once.
Deliver(m) ==
    /\ state[m] = "sent"
    /\ state' = [state EXCEPT ![m] = "ready"]
    /\ UNCHANGED <<other, from>>

Read(m) ==
    /\ state[m] = "ready"
    /\ state' = [state EXCEPT ![m] = "read"]
    /\ UNCHANGED <<other, from>>

Next ==
    \/ \E p, q \in Port : Connect(p, q)
    \/ \E m \in Msg, p \in Port : Write(m, p)
    \/ \E m \in Msg : Deliver(m) \/ Read(m)

Spec == Init /\ [][Next]_vars

=============================================================================
