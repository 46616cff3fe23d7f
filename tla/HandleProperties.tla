---------------------------- MODULE HandleProperties ----------------------------
(***************************************************************************)
(* What the handle table and the invitation dispatchers promise to the     *)
(* threads of an application.                                              *)
(***************************************************************************)
EXTENDS HandleTable

Succeeded(c) == result[c] # None /\ result[c].code = "OK"

\* The calls that have returned a handle.
Returned == { c \in Call : Succeeded(c) /\ result[c].handle # MOJO_HANDLE_INVALID }

\* AddDispatcher gives every handle once: no two calls get the same, whatever threads they
\* run on and however often the counter goes round, and every handle has its dispatcher.
HandlesDistinct ==
    \A c, d \in Returned :
        /\ handles[result[c].handle] # None
        /\ c # d => result[c].handle # result[d].handle

\* Every dispatcher in the table can be reached by the application, or is about to be; the
\* only ones that nobody knows were made by an attach to a name that was taken (core.cc:86).
HandlesReachable ==
    \A h \in Handle : handles[h] # None =>
        \/ \E c \in Returned : result[c].handle = h
        \/ \E t \in Thread : th[t] # None /\ th[t].handle = h /\ h # MOJO_HANDLE_INVALID
        \/ \E c \in Call : /\ result[c] # None /\ result[c].code = "ALREADY_EXISTS"
                           /\ handles[h] = Pipe(<<c, 0>>)

\* Every pair of ports has its end in the table, so that what arrives there, and the answer
\* to every request sent to the inviter, can be read; unless the handles are exhausted.
PairsReadable ==
    \A c \in pairs :
        \/ \E h \in Handle : handles[h] = Pipe(<<c, 0>>)
        \/ \E t \in Thread : At(t, "handle") /\ th[t].call = c
        \/ next = MOJO_HANDLE_INVALID

\* Where the attached end of a pair is: in the dispatcher, with a thread that extracts or
\* sends it, in the table, or with an invitation that was sent.
AttachedAt(p) == { <<"attached", e>> : e \in { e \in Call \X Name : attached[e] = p } }
ExtractingBy(p) == { <<"extracting", t>> : t \in { t \in Thread : th[t] # None /\ th[t].port = p } }
SendingBy(p) ==
    { <<"sending", t>> : t \in { t \in Thread :
        th[t] # None /\ th[t].ports # None /\ \E m \in Name : th[t].ports[m] = p } }
InTable(p) == { <<"table", h>> : h \in { h \in Handle : handles[h] = Pipe(p) } }
SentWith(p) ==
    { <<"sent", c>> : c \in { c \in Call : sent[c] # None /\ \E m \in Name : sent[c][m] = p } }

Places(p) == AttachedAt(p) \cup ExtractingBy(p) \cup SendingBy(p) \cup InTable(p) \cup SentWith(p)

\* Threads that attach, extract and send on one invitation never share an end: a port is
\* sent to one invitee, or extracted, and only once.
OnePlace == \A c \in Call : Cardinality(Places(<<c, 1>>)) <= 1

\* An attached end disappears in two ways only: SendInvitation calls TakeAttachPorts again
\* and drops what another thread has attached since, or the extraction finds the handles
\* exhausted.
LostInTwoWays ==
    [][\A c \in Call :
         LET p == <<c, 1>>
         IN  Places(p) # {} /\ Places(p)' = {} =>
               \E t \in Thread :
                 \/ At(t, "again") /\ \E m \in Name : /\ attached[<<th[t].inv, m>>] = p
                                                      /\ th[t].ports[m] # p
                 \/ At(t, "local") /\ th[t].port = p /\ next = MOJO_HANDLE_INVALID]_apiVars

=============================================================================
