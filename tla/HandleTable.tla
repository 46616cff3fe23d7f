------------------------------ MODULE HandleTable ------------------------------
(***************************************************************************)
(* HandleTable and InvitationDispatcher, as the API calls of Core use      *)
(* them: several application threads of one process create invitations,    *)
(* attach pipes to them, extract pipes from them and send them.  The table *)
(* and each dispatcher have a lock of their own; a call is cut where it    *)
(* lets go of one.                                                         *)
(*                                                                         *)
(* Calls are named, and each happens once.  An invitation is named after   *)
(* the call that creates it; a call that makes a pair of ports has         *)
(* <<c, 0>> for the end that stays and <<c, 1>> for the one that is sent.  *)
(***************************************************************************)
EXTENDS Naturals, FiniteSets

CONSTANTS
    Thread,     \* the application threads
    Call,       \* the API calls
    Name,       \* the names of pipes
    HandleMod,  \* the number of handles: 2^64
    None        \* a null pointer, an absent entry

VARIABLES
    handles,    \* handles_: handles[h] is the dispatcher of h
    next,       \* next_available_handle_, a uint64
    attached,   \* attached[<<i, m>>]: entry m of the attached_ports_ of invitation i
    pairs,      \* the calls that have made a pair of ports
    sent,       \* sent[c]: what call c has passed to NodeController::SendInvitation
    merges,     \* the requests passed to MergePortIntoInviter: a port and a name
    th,         \* th[t]: the call that thread t is in, and how far
    result      \* result[c]: the result of call c and its handle

apiVars == <<handles, next, attached, pairs, sent, merges, th, result>>

MOJO_HANDLE_INVALID == 0
Handle == 0 .. HandleMod - 1
Port == Call \X {0, 1}
Ports == [Name -> Port \cup {None}]

Invitation(c) == [type |-> "invitation", of |-> c, port |-> None]
Pipe(p) == [type |-> "pipe", of |-> None, port |-> p]
Dispatcher == { Invitation(c) : c \in Call } \cup { Pipe(p) : p \in Port }

ASSUME TableAssumption ==
    /\ HandleMod \in Nat \ {0, 1}
    /\ None \notin Call \cup Name \cup Port \cup Dispatcher

\* The locals of a call: the invitation, the name, a handle, a port and a map of ports.
Step == {"pair", "handle", "put", "look", "local", "merge", "take", "again", "send"}
Frame == [call : Call, op : {"attach", "extract", "send"}, step : Step, inv : Call,
          name : Name \cup {None}, handle : Handle, port : Port \cup {None},
          ports : Ports \cup {None}]

Code == {"OK", "INVALID_ARGUMENT", "RESOURCE_EXHAUSTED", "ALREADY_EXISTS"}

ASSUME LocalsAssumption == None \notin Frame \cup Ports \cup [code : Code, handle : Handle]

ApiTypeOK ==
    /\ handles \in [Handle -> Dispatcher \cup {None}] /\ handles[MOJO_HANDLE_INVALID] = None
    /\ next \in Handle
    /\ attached \in [Call \X Name -> Port \cup {None}]
    /\ pairs \subseteq Call
    /\ sent \in [Call -> Ports \cup {None}]
    /\ merges \subseteq Port \X Name
    /\ th \in [Thread -> Frame \cup {None}]
    /\ result \in [Call -> [code : Code, handle : Handle] \cup {None}]

ApiInit ==
    /\ handles = [h \in Handle |-> None]
    /\ next = 1
    /\ attached = [e \in Call \X Name |-> None]
    /\ pairs = {}
    /\ sent = [c \in Call |-> None]
    /\ merges = {}
    /\ th = [t \in Thread |-> None]
    /\ result = [c \in Call |-> None]

-----------------------------------------------------------------------------
(* The table.                                                                *)

\* A bug to try: the counter wraps round to the first handle, whose entry is overwritten.
AddDispatcherWraps(d, h) ==
    /\ h = next
    /\ handles' = [handles EXCEPT ![next] = d]
    /\ next' = IF next = HandleMod - 1 THEN 1 ELSE next + 1

\* A bug to try: the exhaustion of handles is not tested.
AddDispatcherUntested(d, h) ==
    /\ next' = (next + 1) % HandleMod
    /\ IF handles[next] = None
         THEN h = next /\ handles' = [handles EXCEPT ![next] = d]
         ELSE h = MOJO_HANDLE_INVALID /\ UNCHANGED handles

\* AddDispatcher(d) returns h.  The counter stops when it has wrapped round to the invalid
\* handle; an entry that is there already is not replaced.
AddDispatcher(d, h) ==
    IF next = MOJO_HANDLE_INVALID
      THEN h = MOJO_HANDLE_INVALID /\ UNCHANGED <<handles, next>>
      ELSE /\ next' = (next + 1) % HandleMod
           /\ IF handles[next] = None
                THEN h = next /\ handles' = [handles EXCEPT ![next] = d]
                ELSE h = MOJO_HANDLE_INVALID /\ UNCHANGED handles

\* What applications pass as handles: what they got, a failed call's included.
Known == {MOJO_HANDLE_INVALID} \cup
             { result[c].handle : c \in { c \in Call : result[c] # None } }

-----------------------------------------------------------------------------
(* Calls begin with a look-up in the table and end with a result.            *)

Unused(c) == result[c] = None /\ \A t \in Thread : th[t] # None => th[t].call # c

Return(c, code, h) == result' = [result EXCEPT ![c] = [code |-> code, handle |-> h]]

Leave(t, code, h) ==
    /\ Return(th[t].call, code, h)
    /\ th' = [th EXCEPT ![t] = None]

\* The call of t goes on at another step, with these locals.
Goto(t, step, h, p, ports) ==
    th' = [th EXCEPT ![t] = [call |-> th[t].call, op |-> th[t].op, step |-> step,
               inv |-> th[t].inv, name |-> th[t].name, handle |-> h, port |-> p,
               ports |-> ports]]

At(t, step) == th[t] # None /\ th[t].step = step

\* CreateInvitation and AcceptInvitation enter a new dispatcher in the table.
CreateInvitation(t, c) ==
    /\ th[t] = None /\ Unused(c)
    /\ \E h \in Handle :
         /\ AddDispatcher(Invitation(c), h)
         /\ Return(c, IF h = MOJO_HANDLE_INVALID THEN "RESOURCE_EXHAUSTED" ELSE "OK", h)
    /\ UNCHANGED <<attached, pairs, sent, merges, th>>

FirstStep(op) == IF op = "attach" THEN "pair" ELSE IF op = "extract" THEN "look" ELSE "take"

\* AttachMessagePipeToInvitation, ExtractMessagePipeFromInvitation and SendInvitation look
\* the handle up and take nothing but an invitation.
Enter(t, c, op, h, m) ==
    /\ th[t] = None /\ Unused(c)
    /\ IF handles[h] # None /\ handles[h].type = "invitation"
         THEN /\ th' = [th EXCEPT ![t] = [call |-> c, op |-> op, step |-> FirstStep(op),
                            inv |-> handles[h].of, name |-> m, handle |-> MOJO_HANDLE_INVALID,
                            port |-> None, ports |-> None]]
              /\ UNCHANGED result
         ELSE Return(c, "INVALID_ARGUMENT", MOJO_HANDLE_INVALID) /\ UNCHANGED th
    /\ UNCHANGED <<handles, next, attached, pairs, sent, merges>>

-----------------------------------------------------------------------------
(* Attach and extract.                                                       *)

\* CreatePortPair, under the locks of the node.
CreatePortPair(t) ==
    /\ At(t, "pair")
    /\ pairs' = pairs \cup {th[t].call}
    /\ Goto(t, "handle", MOJO_HANDLE_INVALID, None, None)
    /\ UNCHANGED <<handles, next, attached, sent, merges, result>>

\* The dispatcher of port0.  Only AttachMessagePipeToInvitation tests the handle at once.
AddPipe(t) ==
    /\ At(t, "handle")
    /\ \E h \in Handle :
         /\ AddDispatcher(Pipe(<<th[t].call, 0>>), h)
         /\ IF th[t].op = "extract"
              THEN Goto(t, "merge", h, None, None) /\ UNCHANGED result
            ELSE IF h = MOJO_HANDLE_INVALID
              THEN Leave(t, "RESOURCE_EXHAUSTED", h)
            ELSE Goto(t, "put", h, None, None) /\ UNCHANGED result
    /\ UNCHANGED <<attached, pairs, sent, merges>>

\* InvitationDispatcher::AttachMessagePipe.  When the name is taken the handle and the pair
\* stay, and nobody knows them.
AttachMessagePipe(t) ==
    /\ At(t, "put")
    /\ IF attached[<<th[t].inv, th[t].name>>] = None
         THEN /\ attached' = [attached EXCEPT ![<<th[t].inv, th[t].name>>] = <<th[t].call, 1>>]
              /\ Leave(t, "OK", th[t].handle)
         ELSE /\ Leave(t, "ALREADY_EXISTS", MOJO_HANDLE_INVALID)
              /\ UNCHANGED attached
    /\ UNCHANGED <<handles, next, pairs, sent, merges>>

\* A bug to try: the entry is not erased.
ExtractMessagePipeKept(t) ==
    /\ At(t, "look")
    /\ LET p == attached[<<th[t].inv, th[t].name>>]
       IN  IF p = None THEN Goto(t, "pair", MOJO_HANDLE_INVALID, None, None)
                       ELSE Goto(t, "local", MOJO_HANDLE_INVALID, p, None)
    /\ UNCHANGED <<handles, next, attached, pairs, sent, merges, result>>

\* InvitationDispatcher::ExtractMessagePipe takes the port out, ...
ExtractMessagePipe(t) ==
    /\ At(t, "look")
    /\ LET e == <<th[t].inv, th[t].name>>
       IN  IF attached[e] = None
             THEN Goto(t, "pair", MOJO_HANDLE_INVALID, None, None) /\ UNCHANGED attached
             ELSE /\ Goto(t, "local", MOJO_HANDLE_INVALID, attached[e], None)
                  /\ attached' = [attached EXCEPT ![e] = None]
    /\ UNCHANGED <<handles, next, pairs, sent, merges, result>>

\* ... and then gives it a handle.  Without one, Core goes on as if the name were unknown.
AddExtracted(t) ==
    /\ At(t, "local")
    /\ \E h \in Handle :
         /\ AddDispatcher(Pipe(th[t].port), h)
         /\ IF h = MOJO_HANDLE_INVALID
              THEN Goto(t, "pair", h, None, None) /\ UNCHANGED result
              ELSE Leave(t, "OK", h)
    /\ UNCHANGED <<attached, pairs, sent, merges>>

\* The request goes to the inviter whether there is a handle or not.
MergePortIntoInviter(t) ==
    /\ At(t, "merge")
    /\ merges' = merges \cup {<<<<th[t].call, 0>>, th[t].name>>}
    /\ Leave(t, IF th[t].handle = MOJO_HANDLE_INVALID THEN "RESOURCE_EXHAUSTED" ELSE "OK",
             th[t].handle)
    /\ UNCHANGED <<handles, next, attached, pairs, sent>>

-----------------------------------------------------------------------------
(* Send.                                                                     *)

Attached(i) == [m \in Name |-> attached[<<i, m>>]]
Emptied(i) == [e \in Call \X Name |-> IF e[1] = i THEN None ELSE attached[e]]

\* A bug to try: the result of the first call is not kept.
TakeAttachPortsDropped(t) ==
    /\ At(t, "take")
    /\ Goto(t, "again", MOJO_HANDLE_INVALID, None, [m \in Name |-> None])
    /\ attached' = Emptied(th[t].inv)
    /\ UNCHANGED <<handles, next, pairs, sent, merges, result>>

\* TakeAttachPorts swaps the ports out, ...
TakeAttachPorts(t) ==
    /\ At(t, "take")
    /\ Goto(t, "again", MOJO_HANDLE_INVALID, None, Attached(th[t].inv))
    /\ attached' = Emptied(th[t].inv)
    /\ UNCHANGED <<handles, next, pairs, sent, merges, result>>

\* ... and is called a second time, its result unused; ...
TakeAgain(t) ==
    /\ At(t, "again")
    /\ Goto(t, "send", MOJO_HANDLE_INVALID, None, th[t].ports)
    /\ attached' = Emptied(th[t].inv)
    /\ UNCHANGED <<handles, next, pairs, sent, merges, result>>

\* ... then NodeController::SendInvitation reserves what was taken.
SendInvitation(t) ==
    /\ At(t, "send")
    /\ sent' = [sent EXCEPT ![th[t].call] = th[t].ports]
    /\ Leave(t, "OK", MOJO_HANDLE_INVALID)
    /\ UNCHANGED <<handles, next, attached, pairs, merges>>

-----------------------------------------------------------------------------
Begin(t) ==
    \E c \in Call :
        \/ CreateInvitation(t, c)
        \/ \E h \in Known, m \in Name :
             Enter(t, c, "attach", h, m) \/ Enter(t, c, "extract", h, m)
        \/ \E h \in Known : Enter(t, c, "send", h, None)

Continue(t) ==
    \/ CreatePortPair(t) \/ AddPipe(t) \/ AttachMessagePipe(t)
    \/ ExtractMessagePipe(t) \/ AddExtracted(t) \/ MergePortIntoInviter(t)
    \/ TakeAttachPorts(t) \/ TakeAgain(t) \/ SendInvitation(t)

ApiNext == \E t \in Thread : Begin(t) \/ Continue(t)

ApiSpec == ApiInit /\ [][ApiNext]_apiVars

=============================================================================
