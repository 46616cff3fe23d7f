------------------------------ MODULE HandleProofs ------------------------------
(***************************************************************************)
(* For any threads, calls, names and number of handles: the table is well  *)
(* typed and gives no handle twice.                                        *)
(***************************************************************************)
EXTENDS HandleProperties, FiniteSetTheorems, TLAPS

\* A call that works with a name has one, and the port that it has taken out is one.
FramesOK ==
    \A t \in Thread : th[t] # None =>
        /\ th[t].step \notin {"take", "again", "send"} => th[t].name \in Name
        /\ th[t].step = "local" => th[t].port \in Port

\* The handles from next_available_handle_ on are free, until the counter has wrapped.
NextFree ==
    next # MOJO_HANDLE_INVALID => \A h \in Handle : h >= next => handles[h] = None

\* What has a handle, a call in its result or a thread in its locals, has one in the table
\* and shares it with no other.
Had(h) == h # MOJO_HANDLE_INVALID => handles[h] # None
Apart(g, h) == g # MOJO_HANDLE_INVALID => g # h

HandlesHad ==
    /\ \A c \in Call : result[c] # None => Had(result[c].handle)
    /\ \A t \in Thread : th[t] # None => Had(th[t].handle)
    /\ \A c, d \in Call : c # d /\ result[c] # None /\ result[d] # None
                            => Apart(result[c].handle, result[d].handle)
    /\ \A t, u \in Thread : t # u /\ th[t] # None /\ th[u] # None
                              => Apart(th[t].handle, th[u].handle)
    /\ \A c \in Call, t \in Thread : result[c] # None /\ th[t] # None
                                       => Apart(result[c].handle, th[t].handle)

HInv == ApiTypeOK /\ FramesOK /\ NextFree /\ HandlesHad

-----------------------------------------------------------------------------
LEMMA NextHandle ==
    ASSUME NEW n \in Handle
    PROVE  /\ (n + 1) % HandleMod \in Handle
           /\ n + 1 < HandleMod => (n + 1) % HandleMod = n + 1
           /\ n + 1 = HandleMod => (n + 1) % HandleMod = 0
  BY TableAssumption DEF Handle

\* AddDispatcher keeps the entries that there are, and gives a handle that was free.
LEMMA AddDispatcherGives ==
    ASSUME ApiTypeOK, NextFree, NEW d \in Dispatcher, NEW h \in Handle, AddDispatcher(d, h)
    PROVE  /\ handles' \in [Handle -> Dispatcher \cup {None}]
           /\ handles'[MOJO_HANDLE_INVALID] = None
           /\ next' \in Handle
           /\ NextFree'
           /\ \A g \in Handle : handles[g] # None => handles'[g] # None
           /\ h # MOJO_HANDLE_INVALID => handles[h] = None /\ handles'[h] # None
<1>1. d # None
  BY TableAssumption
<1>2. next \in Handle /\ handles \in [Handle -> Dispatcher \cup {None}] /\ handles[0] = None
  BY DEF ApiTypeOK, MOJO_HANDLE_INVALID
<1>3. CASE next = MOJO_HANDLE_INVALID
  BY <1>2, <1>3 DEF AddDispatcher, NextFree, MOJO_HANDLE_INVALID
<1>4. CASE next # MOJO_HANDLE_INVALID
  <2>1. next' = (next + 1) % HandleMod /\ handles[next] = None
    BY <1>2, <1>4 DEF AddDispatcher, NextFree, Handle, MOJO_HANDLE_INVALID
  <2>2. h = next /\ handles' = [handles EXCEPT ![next] = d]
    BY <2>1, <1>4 DEF AddDispatcher
  <2>3. next' \in Handle /\ (next' # 0 => next' = next + 1)
    BY <2>1, <1>2, NextHandle, TableAssumption DEF Handle
  <2>4. handles'[next] = d /\ \A g \in Handle : g # next => handles'[g] = handles[g]
    BY <2>2, <1>2
  <2>5. NextFree'
    BY <2>3, <2>4, <1>2, <1>4 DEF NextFree, Handle, MOJO_HANDLE_INVALID
  <2>6. 0 \in Handle
    BY TableAssumption DEF Handle
  <2> QED
    BY <2>1, <2>2, <2>3, <2>4, <2>5, <2>6, <1>1, <1>2, <1>4 DEF MOJO_HANDLE_INVALID
<1> QED
  BY <1>3, <1>4

\* Where a thread or a result may have the handle h from: it is new, or the thread's.
From(t, h) == h # MOJO_HANDLE_INVALID =>
                  handles[h] = None \/ (th[t] # None /\ th[t].handle = h)

Kept == \A g \in Handle : handles[g] # None => handles'[g] # None

\* A thread may take such a handle into its locals ...
LEMMA HadByThread ==
    ASSUME ApiTypeOK, HandlesHad, Kept, NEW t \in Thread, NEW f, f.handle \in Handle,
           th' = [th EXCEPT ![t] = f], result' = result,
           From(t, f.handle), (f.handle # MOJO_HANDLE_INVALID => handles'[f.handle] # None)
    PROVE  HandlesHad'
<1>1. th'[t] = f /\ \A u \in Thread : u # t => th'[u] = th[u]
  BY DEF ApiTypeOK
<1>2. \A u \in Thread : th[u] # None => th[u].handle \in Handle
  BY DEF ApiTypeOK, Frame
<1>3. \A c \in Call : result[c] # None => result[c].handle \in Handle
  BY DEF ApiTypeOK
<1>4. \A c \in Call : result'[c] # None => Had(result[c].handle)'
  BY <1>3 DEF HandlesHad, Had, Kept
<1>5. \A u \in Thread : th'[u] # None => Had(th[u].handle)'
  <2> SUFFICES ASSUME NEW u \in Thread, th'[u] # None PROVE Had(th[u].handle)'
    OBVIOUS
  <2>1. CASE u = t
    BY <2>1, <1>1 DEF Had
  <2>2. CASE u # t
    BY <2>2, <1>1, <1>2 DEF HandlesHad, Had, Kept
  <2> QED
    BY <2>1, <2>2
<1>6. \A u \in Thread : u # t /\ th[u] # None => Apart(f.handle, th[u].handle)
  BY <1>2 DEF HandlesHad, Had, Apart, From
<1>7. \A c \in Call : result[c] # None => Apart(result[c].handle, f.handle)
  BY <1>3 DEF HandlesHad, Had, Apart, From
<1>8. \A u, v \in Thread : u # v /\ th'[u] # None /\ th'[v] # None
                             => Apart(th'[u].handle, th'[v].handle)
  <2> SUFFICES ASSUME NEW u \in Thread, NEW v \in Thread, u # v, th'[u] # None, th'[v] # None
               PROVE  Apart(th'[u].handle, th'[v].handle)
    OBVIOUS
  <2>1. CASE u = t
    BY <2>1, <1>1, <1>6
  <2>2. CASE v = t
    BY <2>2, <1>1, <1>6 DEF Apart
  <2>3. CASE u # t /\ v # t
    BY <2>3, <1>1 DEF HandlesHad
  <2> QED
    BY <2>1, <2>2, <2>3
<1>9. \A c \in Call, u \in Thread : result'[c] # None /\ th'[u] # None
                                      => Apart(result'[c].handle, th'[u].handle)
  <2> SUFFICES ASSUME NEW c \in Call, NEW u \in Thread, result[c] # None, th'[u] # None
               PROVE  Apart(result[c].handle, th'[u].handle)
    OBVIOUS
  <2>1. CASE u = t
    BY <2>1, <1>1, <1>7
  <2>2. CASE u # t
    BY <2>2, <1>1 DEF HandlesHad
  <2> QED
    BY <2>1, <2>2
<1> QED
  BY <1>4, <1>5, <1>8, <1>9 DEF HandlesHad, Apart

\* ... or return it.
LEMMA HadByResult ==
    ASSUME ApiTypeOK, HandlesHad, Kept, NEW t \in Thread, NEW c \in Call, NEW r,
           r.handle \in Handle, result' = [result EXCEPT ![c] = r],
           th'[t] = None, \A u \in Thread : u # t => th'[u] = th[u],
           From(t, r.handle), (r.handle # MOJO_HANDLE_INVALID => handles'[r.handle] # None)
    PROVE  HandlesHad'
<1>1. result'[c] = r /\ \A d \in Call : d # c => result'[d] = result[d]
  BY DEF ApiTypeOK
<1>2. \A u \in Thread : th[u] # None => th[u].handle \in Handle
  BY DEF ApiTypeOK, Frame
<1>3. \A d \in Call : result[d] # None => result[d].handle \in Handle
  BY DEF ApiTypeOK
<1>4. \A d \in Call : result'[d] # None => Had(result[d].handle)'
  <2> SUFFICES ASSUME NEW d \in Call, result'[d] # None PROVE Had(result[d].handle)'
    OBVIOUS
  <2>1. CASE d = c
    BY <2>1, <1>1 DEF Had
  <2>2. CASE d # c
    BY <2>2, <1>1, <1>3 DEF HandlesHad, Had, Kept
  <2> QED
    BY <2>1, <2>2
<1>5. \A u \in Thread : th'[u] # None => u # t /\ Had(th[u].handle)'
  BY <1>2 DEF HandlesHad, Had, Kept
<1>6. \A u \in Thread : u # t /\ th[u] # None => Apart(r.handle, th[u].handle)
  BY <1>2 DEF HandlesHad, Had, Apart, From
<1>7. \A d \in Call : d # c /\ result[d] # None => Apart(result[d].handle, r.handle)
  BY <1>3 DEF HandlesHad, Had, Apart, From
<1>8. \A u, v \in Thread : u # v /\ th'[u] # None /\ th'[v] # None
                             => Apart(th'[u].handle, th'[v].handle)
  BY <1>5 DEF HandlesHad
<1>9. \A d \in Call, u \in Thread : result'[d] # None /\ th'[u] # None
                                      => Apart(result'[d].handle, th'[u].handle)
  <2> SUFFICES ASSUME NEW d \in Call, NEW u \in Thread, result'[d] # None, th'[u] # None
               PROVE  Apart(result'[d].handle, th[u].handle)
    BY <1>5
  <2>1. u # t /\ th[u] # None
    BY <1>5
  <2>2. CASE d = c
    BY <2>1, <2>2, <1>1, <1>6
  <2>3. CASE d # c
    BY <2>1, <2>3, <1>1 DEF HandlesHad
  <2> QED
    BY <2>2, <2>3
<1>10. \A d, e \in Call : d # e /\ result'[d] # None /\ result'[e] # None
                            => Apart(result'[d].handle, result'[e].handle)
  <2> SUFFICES ASSUME NEW d \in Call, NEW e \in Call, d # e,
                      result'[d] # None, result'[e] # None
               PROVE  Apart(result'[d].handle, result'[e].handle)
    OBVIOUS
  <2>1. CASE d = c
    BY <2>1, <1>1, <1>7 DEF Apart
  <2>2. CASE e = c
    BY <2>2, <1>1, <1>7
  <2>3. CASE d # c /\ e # c
    BY <2>3, <1>1 DEF HandlesHad
  <2> QED
    BY <2>1, <2>2, <2>3
<1> QED
  BY <1>4, <1>5, <1>8, <1>9, <1>10 DEF HandlesHad

-----------------------------------------------------------------------------
(* What the ends of the actions have in common.                              *)

\* The invariant without what the table and the merge requests keep of themselves.
Rest == FramesOK /\ HandlesHad /\ th \in [Thread -> Frame \cup {None}]
        /\ result \in [Call -> [code : Code, handle : Handle] \cup {None}]

LEMMA GotoKeeps ==
    ASSUME HInv, Kept, NEW t \in Thread, th[t] # None, result' = result,
           NEW step \in Step, NEW h \in Handle, NEW p \in Port \cup {None},
           NEW ps \in Ports \cup {None}, Goto(t, step, h, p, ps),
           step \notin {"take", "again", "send"} => th[t].name \in Name,
           step = "local" => p \in Port,
           From(t, h), h # MOJO_HANDLE_INVALID => handles'[h] # None
    PROVE  Rest'
<1> DEFINE f == [call |-> th[t].call, op |-> th[t].op, step |-> step, inv |-> th[t].inv,
                 name |-> th[t].name, handle |-> h, port |-> p, ports |-> ps]
<1>1. ApiTypeOK /\ FramesOK /\ HandlesHad
  BY DEF HInv
<1>2. th[t] \in Frame
  BY <1>1 DEF ApiTypeOK
<1>3. f \in Frame
  BY <1>2 DEF Frame
<1>4. th' = [th EXCEPT ![t] = f]
  BY DEF Goto
<1>5. f.handle = h /\ f.step = step /\ f.name = th[t].name /\ f.port = p
  OBVIOUS
<1> HIDE DEF f
<1>6. th' \in [Thread -> Frame \cup {None}]
  BY <1>1, <1>3, <1>4 DEF ApiTypeOK
<1>7. th'[t] = f /\ \A u \in Thread : u # t => th'[u] = th[u]
  BY <1>1, <1>4 DEF ApiTypeOK
<1>8. FramesOK'
  <2> SUFFICES ASSUME NEW u \in Thread, th'[u] # None
               PROVE  /\ th'[u].step \notin {"take", "again", "send"} => th'[u].name \in Name
                      /\ th'[u].step = "local" => th'[u].port \in Port
    BY DEF FramesOK
  <2>1. CASE u = t
    BY <2>1, <1>7, <1>5
  <2>2. CASE u # t
    BY <2>2, <1>7, <1>1 DEF FramesOK
  <2> QED
    BY <2>1, <2>2
<1>9. HandlesHad'
  BY <1>1, <1>4, <1>5, HadByThread
<1> QED
  BY <1>1, <1>6, <1>8, <1>9 DEF Rest, ApiTypeOK

LEMMA ReturnKeeps ==
    ASSUME HInv, Kept, NEW t \in Thread, NEW c \in Call, NEW code \in Code, NEW h \in Handle,
           Return(c, code, h), th' \in [Thread -> Frame \cup {None}],
           th'[t] = None, \A u \in Thread : u # t => th'[u] = th[u],
           From(t, h), h # MOJO_HANDLE_INVALID => handles'[h] # None
    PROVE  Rest'
<1> DEFINE r == [code |-> code, handle |-> h]
<1>1. ApiTypeOK /\ FramesOK /\ HandlesHad
  BY DEF HInv
<1>2. r \in [code : Code, handle : Handle] /\ r.handle = h
  OBVIOUS
<1>3. result' = [result EXCEPT ![c] = r]
  BY DEF Return
<1> HIDE DEF r
<1>4. result' \in [Call -> [code : Code, handle : Handle] \cup {None}]
  BY <1>1, <1>2, <1>3 DEF ApiTypeOK
<1>5. FramesOK'
  BY <1>1 DEF FramesOK
<1>6. HandlesHad'
  BY <1>1, <1>2, <1>3, HadByResult
<1> QED
  BY <1>4, <1>5, <1>6 DEF Rest

LEMMA LeaveKeeps ==
    ASSUME HInv, Kept, NEW t \in Thread, th[t] # None, NEW code \in Code, NEW h \in Handle,
           Leave(t, code, h), From(t, h), h # MOJO_HANDLE_INVALID => handles'[h] # None
    PROVE  Rest'
<1>1. th \in [Thread -> Frame \cup {None}] /\ th[t] \in Frame
  BY DEF HInv, ApiTypeOK
<1>2. th[t].call \in Call
  BY <1>1 DEF Frame
<1>3. th' = [th EXCEPT ![t] = None] /\ Return(th[t].call, code, h)
  BY DEF Leave
<1>4. /\ th' \in [Thread -> Frame \cup {None}] /\ th'[t] = None
      /\ \A u \in Thread : u # t => th'[u] = th[u]
  BY <1>1, <1>3
<1> QED
  BY <1>2, <1>3, <1>4, ReturnKeeps

\* A step that leaves the table alone, and no handle but that of its thread.
LEMMA TableUnchanged ==
    ASSUME HInv, handles' = handles, next' = next
    PROVE  Kept /\ NextFree' /\ \A h \in Handle : Had(h) => (h # MOJO_HANDLE_INVALID => handles'[h] # None)
  BY DEF HInv, Kept, NextFree, Had

LEMMA NoHandle == MOJO_HANDLE_INVALID \in Handle
  BY TableAssumption DEF MOJO_HANDLE_INVALID, Handle

LEMMA AddKeeps ==
    ASSUME HInv, NEW t \in Thread, NEW d \in Dispatcher, NEW h \in Handle, AddDispatcher(d, h)
    PROVE  /\ handles' \in [Handle -> Dispatcher \cup {None}]
           /\ handles'[MOJO_HANDLE_INVALID] = None /\ next' \in Handle /\ NextFree'
           /\ Kept /\ From(t, h) /\ (h # MOJO_HANDLE_INVALID => handles'[h] # None)
  BY AddDispatcherGives DEF HInv, Kept, From

-----------------------------------------------------------------------------
(* The actions.                                                              *)

LEMMA InitHInv == ApiInit => HInv
<1> SUFFICES ASSUME ApiInit PROVE HInv
  OBVIOUS
<1>1. ApiTypeOK
  BY TableAssumption, NoHandle DEF ApiInit, ApiTypeOK, Handle
<1>2. FramesOK /\ NextFree /\ HandlesHad
  BY DEF ApiInit, FramesOK, NextFree, HandlesHad
<1> QED
  BY <1>1, <1>2 DEF HInv

LEMMA CreateHInv ==
    ASSUME HInv, NEW t \in Thread, NEW c \in Call, CreateInvitation(t, c)
    PROVE  HInv'
<1> DEFINE code(h) == IF h = MOJO_HANDLE_INVALID THEN "RESOURCE_EXHAUSTED" ELSE "OK"
<1>1. PICK h \in Handle : AddDispatcher(Invitation(c), h) /\ Return(c, code(h), h)
  BY DEF CreateInvitation
<1>2. Invitation(c) \in Dispatcher /\ code(h) \in Code
  BY DEF Dispatcher, Code
<1>3. th' = th /\ th[t] = None /\ UNCHANGED <<attached, pairs, sent, merges>>
  BY DEF CreateInvitation
<1> HIDE DEF code
<1>4. Rest'
  BY <1>1, <1>2, <1>3, AddKeeps, ReturnKeeps DEF HInv, ApiTypeOK
<1> QED
  BY <1>1, <1>2, <1>3, <1>4, AddKeeps DEF HInv, Rest, ApiTypeOK

LEMMA EnterHInv ==
    ASSUME HInv, NEW t \in Thread, NEW c \in Call, NEW op \in {"attach", "extract", "send"},
           NEW h \in Known, NEW m \in Name \cup {None}, op # "send" => m \in Name,
           Enter(t, c, op, h, m)
    PROVE  HInv'
<1>1. /\ th[t] = None /\ UNCHANGED <<handles, next, attached, pairs, sent, merges>>
  BY DEF Enter
<1>2. Kept /\ NextFree'
  BY <1>1, TableUnchanged
<1>3. h \in Handle
  BY NoHandle DEF Known, HInv, ApiTypeOK
<1>4. CASE handles[h] # None /\ handles[h].type = "invitation"
  <2> DEFINE f == [call |-> c, op |-> op, step |-> FirstStep(op), inv |-> handles[h].of,
                   name |-> m, handle |-> MOJO_HANDLE_INVALID, port |-> None, ports |-> None]
  <2>1. th' = [th EXCEPT ![t] = f] /\ result' = result
    BY <1>4 DEF Enter
  <2>2. handles[h].of \in Call
    BY <1>3, <1>4 DEF HInv, ApiTypeOK, Dispatcher, Invitation, Pipe
  <2>3. /\ FirstStep(op) \in Step /\ FirstStep(op) # "local"
        /\ FirstStep(op) \notin {"take", "again", "send"} => op # "send"
    BY DEF FirstStep, Step
  <2>4. f \in Frame
    BY <2>2, <2>3, NoHandle DEF Frame
  <2>5. /\ f.handle = MOJO_HANDLE_INVALID /\ f.step # "local"
        /\ f.step \notin {"take", "again", "send"} => f.name \in Name
    BY <2>3
  <2> HIDE DEF f
  <2>6. th' \in [Thread -> Frame \cup {None}]
    BY <2>1, <2>4 DEF HInv, ApiTypeOK
  <2>7. th'[t] = f /\ \A u \in Thread : u # t => th'[u] = th[u]
    BY <2>1 DEF HInv, ApiTypeOK
  <2>8. FramesOK'
    <3> SUFFICES ASSUME NEW u \in Thread, th'[u] # None
                 PROVE  /\ th'[u].step \notin {"take", "again", "send"} => th'[u].name \in Name
                        /\ th'[u].step = "local" => th'[u].port \in Port
      BY DEF FramesOK
    <3> QED
      BY <2>5, <2>7 DEF HInv, FramesOK
  <2>9. HandlesHad'
    BY <1>2, <2>1, <2>5, NoHandle, HadByThread DEF HInv, From
  <2> QED
    BY <1>1, <1>2, <2>1, <2>6, <2>8, <2>9 DEF HInv, ApiTypeOK
<1>5. CASE ~ (handles[h] # None /\ handles[h].type = "invitation")
  <2>1. Return(c, "INVALID_ARGUMENT", MOJO_HANDLE_INVALID) /\ th' = th
    BY <1>5 DEF Enter
  <2>2. Rest'
    BY <2>1, <1>1, <1>2, NoHandle, ReturnKeeps DEF HInv, ApiTypeOK, Code, From
  <2> QED
    BY <1>1, <1>2, <2>2 DEF HInv, Rest, ApiTypeOK
<1> QED
  BY <1>4, <1>5

LEMMA CreatePortPairHInv ==
    ASSUME HInv, NEW t \in Thread, CreatePortPair(t)
    PROVE  HInv'
<1>1. /\ th[t] # None /\ th[t].step = "pair" /\ pairs' = pairs \cup {th[t].call}
      /\ Goto(t, "handle", MOJO_HANDLE_INVALID, None, None)
      /\ UNCHANGED <<handles, next, attached, sent, merges, result>>
  BY DEF CreatePortPair, At
<1>2. th[t].call \in Call /\ th[t].name \in Name
  BY <1>1 DEF HInv, ApiTypeOK, Frame, FramesOK
<1>3. Rest'
  BY <1>1, <1>2, NoHandle, TableUnchanged, GotoKeeps DEF Step, From
<1> QED
  BY <1>1, <1>2, <1>3, TableUnchanged DEF HInv, Rest, ApiTypeOK

LEMMA AddPipeHInv ==
    ASSUME HInv, NEW t \in Thread, AddPipe(t)
    PROVE  HInv'
<1>1. th[t] # None /\ th[t].step = "handle" /\ UNCHANGED <<attached, pairs, sent, merges>>
  BY DEF AddPipe, At
<1>2. th[t].call \in Call /\ th[t].name \in Name
  BY <1>1 DEF HInv, ApiTypeOK, Frame, FramesOK
<1>3. Pipe(<<th[t].call, 0>>) \in Dispatcher
  BY <1>2 DEF Dispatcher, Port
<1>4. PICK h \in Handle :
        /\ AddDispatcher(Pipe(<<th[t].call, 0>>), h)
        /\ \/ Goto(t, "merge", h, None, None) /\ UNCHANGED result
           \/ Leave(t, "RESOURCE_EXHAUSTED", h)
           \/ Goto(t, "put", h, None, None) /\ UNCHANGED result
  BY DEF AddPipe
<1>5. Rest'
  <2>1. Kept /\ From(t, h) /\ (h # MOJO_HANDLE_INVALID => handles'[h] # None)
    BY <1>3, <1>4, AddKeeps
  <2>2. CASE Goto(t, "merge", h, None, None) /\ UNCHANGED result
    BY <2>1, <2>2, <1>1, <1>2, GotoKeeps DEF Step
  <2>3. CASE Leave(t, "RESOURCE_EXHAUSTED", h)
    BY <2>1, <2>3, <1>1, LeaveKeeps DEF Code
  <2>4. CASE Goto(t, "put", h, None, None) /\ UNCHANGED result
    BY <2>1, <2>4, <1>1, <1>2, GotoKeeps DEF Step
  <2> QED
    BY <1>4, <2>2, <2>3, <2>4
<1> QED
  BY <1>1, <1>3, <1>4, <1>5, AddKeeps DEF HInv, Rest, ApiTypeOK

LEMMA AttachMessagePipeHInv ==
    ASSUME HInv, NEW t \in Thread, AttachMessagePipe(t)
    PROVE  HInv'
<1>1. /\ th[t] # None /\ th[t].step = "put"
      /\ UNCHANGED <<handles, next, pairs, sent, merges>>
  BY DEF AttachMessagePipe, At
<1>2. th[t].call \in Call /\ th[t].handle \in Handle
  BY <1>1 DEF HInv, ApiTypeOK, Frame
<1>3. Kept /\ NextFree' /\ Had(th[t].handle)
  BY <1>1, TableUnchanged DEF HInv, HandlesHad
<1>4. \/ Leave(t, "OK", th[t].handle)
      \/ Leave(t, "ALREADY_EXISTS", MOJO_HANDLE_INVALID)
  BY DEF AttachMessagePipe
<1>5. Rest'
  <2>1. CASE Leave(t, "OK", th[t].handle)
    BY <2>1, <1>1, <1>2, <1>3, LeaveKeeps DEF Code, From, Had
  <2>2. CASE Leave(t, "ALREADY_EXISTS", MOJO_HANDLE_INVALID)
    BY <2>2, <1>1, <1>3, NoHandle, LeaveKeeps DEF Code, From
  <2> QED
    BY <1>4, <2>1, <2>2
<1>6. attached' \in [Call \X Name -> Port \cup {None}]
  BY <1>2 DEF AttachMessagePipe, HInv, ApiTypeOK, Port
<1> QED
  BY <1>1, <1>3, <1>5, <1>6 DEF HInv, Rest, ApiTypeOK

LEMMA ExtractMessagePipeHInv ==
    ASSUME HInv, NEW t \in Thread, ExtractMessagePipe(t)
    PROVE  HInv'
<1> DEFINE e == <<th[t].inv, th[t].name>>
<1>1. /\ th[t] # None /\ th[t].step = "look"
      /\ UNCHANGED <<handles, next, pairs, sent, merges, result>>
  BY DEF ExtractMessagePipe, At
<1>2. th[t].inv \in Call /\ th[t].name \in Name
  BY <1>1 DEF HInv, ApiTypeOK, Frame, FramesOK
<1>3. Kept /\ NextFree'
  BY <1>1, TableUnchanged
<1>4. Rest' /\ attached' \in [Call \X Name -> Port \cup {None}]
  <2>1. CASE attached[e] = None
    <3>1. Goto(t, "pair", MOJO_HANDLE_INVALID, None, None) /\ attached' = attached
      BY <2>1 DEF ExtractMessagePipe
    <3> QED
      BY <3>1, <1>1, <1>2, <1>3, NoHandle, GotoKeeps DEF Step, From, HInv, ApiTypeOK
  <2>2. CASE attached[e] # None
    <3>1. /\ Goto(t, "local", MOJO_HANDLE_INVALID, attached[e], None)
          /\ attached' = [attached EXCEPT ![e] = None]
      BY <2>2 DEF ExtractMessagePipe
    <3>2. attached[e] \in Port
      BY <2>2, <1>2 DEF HInv, ApiTypeOK
    <3>3. Rest'
      BY <3>1, <3>2, <1>1, <1>2, <1>3, NoHandle, GotoKeeps DEF Step, From
    <3> QED
      BY <3>1, <3>3 DEF HInv, ApiTypeOK
  <2> QED
    BY <2>1, <2>2
<1> QED
  BY <1>1, <1>3, <1>4 DEF HInv, Rest, ApiTypeOK

LEMMA AddExtractedHInv ==
    ASSUME HInv, NEW t \in Thread, AddExtracted(t)
    PROVE  HInv'
<1>1. th[t] # None /\ th[t].step = "local" /\ UNCHANGED <<attached, pairs, sent, merges>>
  BY DEF AddExtracted, At
<1>2. th[t].port \in Port /\ th[t].name \in Name
  BY <1>1 DEF HInv, FramesOK
<1>3. Pipe(th[t].port) \in Dispatcher
  BY <1>2 DEF Dispatcher
<1>4. PICK h \in Handle :
        /\ AddDispatcher(Pipe(th[t].port), h)
        /\ \/ Goto(t, "pair", h, None, None) /\ UNCHANGED result
           \/ Leave(t, "OK", h)
  BY DEF AddExtracted
<1>5. Rest'
  <2>1. Kept /\ From(t, h) /\ (h # MOJO_HANDLE_INVALID => handles'[h] # None)
    BY <1>3, <1>4, AddKeeps
  <2>2. CASE Goto(t, "pair", h, None, None) /\ UNCHANGED result
    BY <2>1, <2>2, <1>1, <1>2, GotoKeeps DEF Step
  <2>3. CASE Leave(t, "OK", h)
    BY <2>1, <2>3, <1>1, LeaveKeeps DEF Code
  <2> QED
    BY <1>4, <2>2, <2>3
<1> QED
  BY <1>1, <1>3, <1>4, <1>5, AddKeeps DEF HInv, Rest, ApiTypeOK

LEMMA MergePortIntoInviterHInv ==
    ASSUME HInv, NEW t \in Thread, MergePortIntoInviter(t)
    PROVE  HInv'
<1> DEFINE code == IF th[t].handle = MOJO_HANDLE_INVALID THEN "RESOURCE_EXHAUSTED" ELSE "OK"
<1>1. /\ th[t] # None /\ th[t].step = "merge" /\ Leave(t, code, th[t].handle)
      /\ merges' = merges \cup {<<<<th[t].call, 0>>, th[t].name>>}
      /\ UNCHANGED <<handles, next, attached, pairs, sent>>
  BY DEF MergePortIntoInviter, At
<1>2. th[t].call \in Call /\ th[t].name \in Name /\ th[t].handle \in Handle /\ code \in Code
  BY <1>1 DEF HInv, ApiTypeOK, Frame, FramesOK, Code
<1> HIDE DEF code
<1>3. Kept /\ NextFree' /\ Had(th[t].handle)
  BY <1>1, TableUnchanged DEF HInv, HandlesHad
<1>4. Rest'
  BY <1>1, <1>2, <1>3, LeaveKeeps DEF From, Had
<1>5. <<<<th[t].call, 0>>, th[t].name>> \in Port \X Name
  BY <1>2 DEF Port
<1> QED
  BY <1>1, <1>3, <1>4, <1>5 DEF HInv, Rest, ApiTypeOK

LEMMA EmptiedTyped ==
    ASSUME HInv, NEW i \in Call
    PROVE  Emptied(i) \in [Call \X Name -> Port \cup {None}] /\ Attached(i) \in Ports
  BY DEF HInv, ApiTypeOK, Emptied, Attached, Ports

LEMMA TakeAttachPortsHInv ==
    ASSUME HInv, NEW t \in Thread, TakeAttachPorts(t) \/ TakeAgain(t)
    PROVE  HInv'
<1>1. /\ th[t] # None /\ th[t].step \in {"take", "again"} /\ attached' = Emptied(th[t].inv)
      /\ UNCHANGED <<handles, next, pairs, sent, merges, result>>
  BY DEF TakeAttachPorts, TakeAgain, At
<1>2. th[t].inv \in Call /\ th[t].ports \in Ports \cup {None}
  BY <1>1 DEF HInv, ApiTypeOK, Frame
<1>3. \/ Goto(t, "again", MOJO_HANDLE_INVALID, None, Attached(th[t].inv))
      \/ Goto(t, "send", MOJO_HANDLE_INVALID, None, th[t].ports)
  BY DEF TakeAttachPorts, TakeAgain
<1>4. Rest'
  BY <1>1, <1>2, <1>3, NoHandle, TableUnchanged, EmptiedTyped, GotoKeeps DEF Step, From
<1> QED
  BY <1>1, <1>2, <1>4, TableUnchanged, EmptiedTyped DEF HInv, Rest, ApiTypeOK

LEMMA SendInvitationHInv ==
    ASSUME HInv, NEW t \in Thread, SendInvitation(t)
    PROVE  HInv'
<1>1. /\ th[t] # None /\ Leave(t, "OK", MOJO_HANDLE_INVALID)
      /\ sent' = [sent EXCEPT ![th[t].call] = th[t].ports]
      /\ UNCHANGED <<handles, next, attached, pairs, merges>>
  BY DEF SendInvitation, At
<1>2. th[t].ports \in Ports \cup {None}
  BY <1>1 DEF HInv, ApiTypeOK, Frame
<1>3. Rest'
  BY <1>1, NoHandle, TableUnchanged, LeaveKeeps DEF Code, From
<1> QED
  BY <1>1, <1>2, <1>3, TableUnchanged DEF HInv, Rest, ApiTypeOK

-----------------------------------------------------------------------------
\* Every step of a thread keeps the invariant.
LEMMA NextHInv == HInv /\ [ApiNext]_apiVars => HInv'
<1> SUFFICES ASSUME HInv, [ApiNext]_apiVars PROVE HInv'
  OBVIOUS
<1>1. CASE UNCHANGED apiVars
  BY <1>1 DEF apiVars, HInv, ApiTypeOK, FramesOK, NextFree, HandlesHad, Had
<1>2. CASE \E t \in Thread : Begin(t)
  <2>1. PICK t \in Thread, c \in Call :
          \/ CreateInvitation(t, c)
          \/ \E h \in Known, m \in Name :
               Enter(t, c, "attach", h, m) \/ Enter(t, c, "extract", h, m)
          \/ \E h \in Known : Enter(t, c, "send", h, None)
    BY <1>2 DEF Begin
  <2> QED
    BY <2>1, CreateHInv, EnterHInv
<1>3. CASE \E t \in Thread : Continue(t)
  BY <1>3, CreatePortPairHInv, AddPipeHInv, AttachMessagePipeHInv, ExtractMessagePipeHInv,
     AddExtractedHInv, MergePortIntoInviterHInv, TakeAttachPortsHInv, SendInvitationHInv
     DEF Continue
<1> QED
  BY <1>1, <1>2, <1>3 DEF ApiNext

LEMMA HInvAlways == ApiSpec => []HInv
  BY InitHInv, NextHInv, PTL DEF ApiSpec

\* The table, the dispatchers and the locals of the calls keep their types.
THEOREM TableTyped == ApiSpec => []ApiTypeOK
<1>1. HInv => ApiTypeOK
  BY DEF HInv
<1> QED
  BY <1>1, HInvAlways, PTL

\* No two calls return the same handle, and every handle that was returned has a dispatcher,
\* for any number of threads, calls and handles (HandleTable::AddDispatcher).
THEOREM HandlesNeverShared == ApiSpec => []HandlesDistinct
<1>1. HInv => HandlesDistinct
  BY DEF HInv, HandlesHad, Had, Apart, HandlesDistinct, Returned, Succeeded
<1> QED
  BY <1>1, HInvAlways, PTL

-----------------------------------------------------------------------------
(* Who has what.                                                             *)

\* A call is made by one thread, and has no result before it ends.
CallsOwn ==
    /\ \A t \in Thread : th[t] # None => result[th[t].call] = None
    /\ \A t, u \in Thread : t # u /\ th[t] # None /\ th[u] # None => th[t].call # th[u].call

\* What a call has in its locals at each step.
LocalsInv ==
    \A t \in Thread : th[t] # None =>
        /\ th[t].handle # MOJO_HANDLE_INVALID => th[t].step \in {"put", "merge"}
        /\ th[t].step = "put" =>
             th[t].handle # MOJO_HANDLE_INVALID /\ handles[th[t].handle] = Pipe(<<th[t].call, 0>>)
        /\ th[t].step # "local" => th[t].port = None
        /\ th[t].step \in {"again", "send"} <=> th[t].ports # None

SentInv == \A c \in Call : sent[c] # None => result[c] # None

CallsInv == CallsOwn /\ LocalsInv /\ SentInv

\* An end that goes to an invitee is in one place, and in none while its call goes on.
AtMostOne(S) == \A x, y \in S : x = y

EndInv(c) ==
    /\ AtMostOne(Places(<<c, 1>>))
    /\ result[c] = None => Places(<<c, 1>>) = {}

EndsInv == \A c \in Call : EndInv(c)

\* AddDispatcher gives a handle unless the handles are exhausted, and replaces no entry.
LEMMA AddFacts ==
    ASSUME HInv, NEW d \in Dispatcher, NEW h \in Handle, AddDispatcher(d, h)
    PROVE  /\ next = MOJO_HANDLE_INVALID =>
                h = MOJO_HANDLE_INVALID /\ handles' = handles /\ next' = MOJO_HANDLE_INVALID
           /\ next # MOJO_HANDLE_INVALID =>
                h # MOJO_HANDLE_INVALID /\ handles[h] = None /\ handles'[h] = d
           /\ \A g \in Handle : g # h => handles'[g] = handles[g]
           /\ \A g \in Handle : handles[g] # None => handles'[g] = handles[g]
           /\ \A g \in Handle : handles'[g] # None => handles[g] # None \/ (g = h /\ h # MOJO_HANDLE_INVALID)
<1>1. next \in Handle /\ handles \in [Handle -> Dispatcher \cup {None}]
  BY DEF HInv, ApiTypeOK
<1>2. CASE next = MOJO_HANDLE_INVALID
  BY <1>1, <1>2 DEF AddDispatcher
<1>3. CASE next # MOJO_HANDLE_INVALID
  <2>1. next >= next
    BY <1>1, TableAssumption DEF Handle
  <2>2. handles[next] = None
    BY <1>1, <1>3, <2>1 DEF HInv, NextFree
  <2>3. h = next /\ handles' = [handles EXCEPT ![next] = d]
    BY <1>3, <2>2 DEF AddDispatcher
  <2>4. handles'[next] = d /\ \A g \in Handle : g # next => handles'[g] = handles[g]
    BY <1>1, <2>3
  <2> QED
    BY <1>1, <1>3, <2>2, <2>3, <2>4
<1> QED
  BY <1>2, <1>3

\* The locals after a step of a call, and the result at its end.
LEMMA GotoFacts ==
    ASSUME HInv, NEW t \in Thread, th[t] # None, NEW step \in Step, NEW h \in Handle,
           NEW p \in Port \cup {None}, NEW ps \in Ports \cup {None}, Goto(t, step, h, p, ps)
    PROVE  /\ th'[t] # None /\ th'[t].call = th[t].call /\ th'[t].op = th[t].op
           /\ th'[t].inv = th[t].inv /\ th'[t].name = th[t].name
           /\ th'[t].step = step /\ th'[t].handle = h /\ th'[t].port = p /\ th'[t].ports = ps
           /\ \A u \in Thread : u # t => th'[u] = th[u]
<1> DEFINE f == [call |-> th[t].call, op |-> th[t].op, step |-> step, inv |-> th[t].inv,
                 name |-> th[t].name, handle |-> h, port |-> p, ports |-> ps]
<1>1. th \in [Thread -> Frame \cup {None}] /\ th[t] \in Frame
  BY DEF HInv, ApiTypeOK
<1>2. f \in Frame
  BY <1>1 DEF Frame
<1>3. th' = [th EXCEPT ![t] = f]
  BY DEF Goto
<1>4. /\ f.call = th[t].call /\ f.op = th[t].op /\ f.inv = th[t].inv /\ f.name = th[t].name
      /\ f.step = step /\ f.handle = h /\ f.port = p /\ f.ports = ps
  OBVIOUS
<1> HIDE DEF f
<1>5. th'[t] = f /\ f # None /\ \A u \in Thread : u # t => th'[u] = th[u]
  BY <1>1, <1>2, <1>3, LocalsAssumption
<1> QED
  BY <1>4, <1>5

LEMMA ReturnFacts ==
    ASSUME HInv, NEW c \in Call, NEW code \in Code, NEW h \in Handle, Return(c, code, h)
    PROVE  /\ result'[c] # None /\ result'[c].code = code /\ result'[c].handle = h
           /\ \A d \in Call : d # c => result'[d] = result[d]
<1> DEFINE r == [code |-> code, handle |-> h]
<1>1. r \in [code : Code, handle : Handle] /\ r.code = code /\ r.handle = h
  OBVIOUS
<1>2. result' = [result EXCEPT ![c] = r]
  BY DEF Return
<1> HIDE DEF r
<1>3. result'[c] = r /\ \A d \in Call : d # c => result'[d] = result[d]
  BY <1>2 DEF HInv, ApiTypeOK
<1> QED
  BY <1>1, <1>3, LocalsAssumption

LEMMA LeaveFacts ==
    ASSUME HInv, NEW t \in Thread, th[t] # None, NEW code \in Code, NEW h \in Handle,
           Leave(t, code, h)
    PROVE  /\ th'[t] = None /\ \A u \in Thread : u # t => th'[u] = th[u]
           /\ th[t].call \in Call
           /\ result'[th[t].call] # None /\ result'[th[t].call].code = code
           /\ result'[th[t].call].handle = h
           /\ \A d \in Call : d # th[t].call => result'[d] = result[d]
<1>1. th \in [Thread -> Frame \cup {None}] /\ th[t] \in Frame
  BY DEF HInv, ApiTypeOK
<1>2. th[t].call \in Call
  BY <1>1 DEF Frame
<1>3. th' = [th EXCEPT ![t] = None] /\ Return(th[t].call, code, h)
  BY DEF Leave
<1>4. th'[t] = None /\ \A u \in Thread : u # t => th'[u] = th[u]
  BY <1>1, <1>3
<1> QED
  BY <1>2, <1>3, <1>4, ReturnFacts

Stay == \A g \in Handle : handles[g] # None => handles'[g] = handles[g]

LEMMA FrameFacts ==
    ASSUME HInv, NEW t \in Thread, th[t] # None
    PROVE  /\ th[t].call \in Call /\ th[t].op \in {"attach", "extract", "send"} /\ th[t].step \in Step
           /\ th[t].inv \in Call /\ th[t].handle \in Handle /\ th[t].port \in Port \cup {None}
           /\ th[t].ports \in Ports \cup {None}
           /\ th[t].step \notin {"take", "again", "send"} => th[t].name \in Name
           /\ th[t].step = "local" => th[t].port \in Port
           /\ Pipe(<<th[t].call, 0>>) \in Dispatcher /\ Pipe(<<th[t].call, 0>>) # None
<1>1. th[t] \in Frame
  BY DEF HInv, ApiTypeOK
<1>2. th[t].call \in Call
  BY <1>1 DEF Frame
<1>3. Pipe(<<th[t].call, 0>>) \in Dispatcher
  BY <1>2 DEF Dispatcher, Port
<1> QED
  BY <1>1, <1>3, TableAssumption DEF Frame, HInv, FramesOK

\* A call that goes on keeps the invariant of the calls, ...
LEMMA CallsGoto ==
    ASSUME HInv, CallsInv, Stay, NEW t \in Thread, th[t] # None, NEW step \in Step,
           NEW h \in Handle, NEW p \in Port \cup {None}, NEW ps \in Ports \cup {None},
           Goto(t, step, h, p, ps), result' = result, sent' = sent,
           h # MOJO_HANDLE_INVALID => step \in {"put", "merge"},
           step = "put" => h # MOJO_HANDLE_INVALID /\ handles'[h] = Pipe(<<th[t].call, 0>>),
           step # "local" => p = None,
           step \in {"again", "send"} <=> ps # None
    PROVE  CallsInv'
<1>1. /\ th'[t] # None /\ th'[t].call = th[t].call
      /\ th'[t].step = step /\ th'[t].handle = h /\ th'[t].port = p /\ th'[t].ports = ps
      /\ \A u \in Thread : u # t => th'[u] = th[u]
  BY GotoFacts
<1>2. CallsOwn'
  <2>1. \A u \in Thread : th'[u] # None => th[u] # None /\ th'[u].call = th[u].call
    BY <1>1
  <2> QED
    BY <2>1 DEF CallsInv, CallsOwn
<1>3. LocalsInv'
  <2> SUFFICES ASSUME NEW u \in Thread, th'[u] # None
               PROVE  /\ th'[u].handle # MOJO_HANDLE_INVALID => th'[u].step \in {"put", "merge"}
                      /\ th'[u].step = "put" => /\ th'[u].handle # MOJO_HANDLE_INVALID
                                                /\ handles'[th'[u].handle] = Pipe(<<th'[u].call, 0>>)
                      /\ th'[u].step # "local" => th'[u].port = None
                      /\ th'[u].step \in {"again", "send"} <=> th'[u].ports # None
    BY DEF LocalsInv, Pipe
  <2>1. CASE u = t
    BY <2>1, <1>1
  <2>2. CASE u # t
    <3>1. th'[u] = th[u] /\ th[u] # None
      BY <2>2, <1>1
    <3>2. th[u].handle \in Handle /\ Pipe(<<th[u].call, 0>>) # None
      BY <3>1, FrameFacts
    <3>3. /\ th[u].handle # MOJO_HANDLE_INVALID => th[u].step \in {"put", "merge"}
          /\ th[u].step = "put" => /\ th[u].handle # MOJO_HANDLE_INVALID
                                   /\ handles[th[u].handle] = Pipe(<<th[u].call, 0>>)
          /\ th[u].step # "local" => th[u].port = None
          /\ th[u].step \in {"again", "send"} <=> th[u].ports # None
      BY <3>1 DEF CallsInv, LocalsInv
    <3> QED
      BY <3>1, <3>2, <3>3 DEF Stay
  <2> QED
    BY <2>1, <2>2
<1>4. SentInv'
  BY DEF CallsInv, SentInv
<1> QED
  BY <1>2, <1>3, <1>4 DEF CallsInv

\* ... as does a call that ends, ...
LEMMA CallsEnd ==
    ASSUME HInv, CallsInv, Stay, NEW t \in Thread, NEW c \in Call,
           th'[t] = None, \A u \in Thread : u # t => th'[u] = th[u],
           \A u \in Thread : u # t /\ th[u] # None => th[u].call # c,
           result'[c] # None, \A d \in Call : d # c => result'[d] = result[d],
           \A d \in Call : sent'[d] # None => sent[d] # None \/ d = c
    PROVE  CallsInv'
<1>1. \A u \in Thread : th'[u] # None => u # t /\ th'[u] = th[u] /\ th[u] # None
  OBVIOUS
<1>2. \A u \in Thread : th[u] # None => th[u].call \in Call
  BY FrameFacts
<1>3. CallsOwn'
  BY <1>1, <1>2 DEF CallsInv, CallsOwn
<1>4. LocalsInv'
  <2> SUFFICES ASSUME NEW u \in Thread, th'[u] # None
               PROVE  /\ th'[u].handle # MOJO_HANDLE_INVALID => th'[u].step \in {"put", "merge"}
                      /\ th'[u].step = "put" => /\ th'[u].handle # MOJO_HANDLE_INVALID
                                                /\ handles'[th'[u].handle] = Pipe(<<th'[u].call, 0>>)
                      /\ th'[u].step # "local" => th'[u].port = None
                      /\ th'[u].step \in {"again", "send"} <=> th'[u].ports # None
    BY DEF LocalsInv, Pipe
  <2>1. th'[u] = th[u] /\ th[u] # None
    BY <1>1
  <2>2. th[u].handle \in Handle /\ Pipe(<<th[u].call, 0>>) # None
    BY <2>1, FrameFacts
  <2> QED
    BY <2>1, <2>2 DEF CallsInv, LocalsInv, Stay
<1>5. SentInv'
  BY DEF CallsInv, SentInv
<1> QED
  BY <1>3, <1>4, <1>5 DEF CallsInv

LEMMA CallsLeave ==
    ASSUME HInv, CallsInv, Stay, NEW t \in Thread, th[t] # None, NEW code \in Code,
           NEW h \in Handle, Leave(t, code, h),
           \A d \in Call : sent'[d] # None => sent[d] # None \/ d = th[t].call
    PROVE  CallsInv'
<1>1. PICK c \in Call : c = th[t].call
  BY FrameFacts
<1>2. /\ th'[t] = None /\ \A u \in Thread : u # t => th'[u] = th[u]
      /\ result'[c] # None /\ \A d \in Call : d # c => result'[d] = result[d]
  BY <1>1, LeaveFacts
<1>3. \A u \in Thread : u # t /\ th[u] # None => th[u].call # c
  BY <1>1 DEF CallsInv, CallsOwn
<1> QED
  BY <1>1, <1>2, <1>3, CallsEnd


\* ... and one that begins.
LEMMA CallsCreate ==
    ASSUME HInv, CallsInv, NEW t \in Thread, NEW c \in Call, CreateInvitation(t, c)
    PROVE  CallsInv'
<1>1. th[t] = None /\ Unused(c) /\ UNCHANGED <<attached, pairs, sent, merges, th>>
  BY DEF CreateInvitation
<1>2. PICK h \in Handle :
        /\ AddDispatcher(Invitation(c), h)
        /\ Return(c, IF h = MOJO_HANDLE_INVALID THEN "RESOURCE_EXHAUSTED" ELSE "OK", h)
  BY DEF CreateInvitation
<1>3. Invitation(c) \in Dispatcher
  BY DEF Dispatcher
<1>4. Stay
  BY <1>2, <1>3, AddFacts DEF Stay
<1>5. PICK code \in Code : Return(c, code, h)
  BY <1>2 DEF Code
<1>6. result'[c] # None /\ \A d \in Call : d # c => result'[d] = result[d]
  BY <1>5, ReturnFacts
<1> QED
  BY <1>1, <1>4, <1>6, CallsEnd DEF Unused

LEMMA CallsEnter ==
    ASSUME HInv, CallsInv, NEW t \in Thread, NEW c \in Call, NEW op \in {"attach", "extract", "send"},
           NEW h \in Handle, NEW m \in Name \cup {None}, Enter(t, c, op, h, m)
    PROVE  CallsInv'
<1>1. th[t] = None /\ Unused(c) /\ UNCHANGED <<handles, next, attached, pairs, sent, merges>>
  BY DEF Enter
<1>2. Stay
  BY <1>1 DEF Stay
<1>3. CASE Return(c, "INVALID_ARGUMENT", MOJO_HANDLE_INVALID) /\ UNCHANGED th
  <2>1. result'[c] # None /\ \A d \in Call : d # c => result'[d] = result[d]
    BY <1>3, NoHandle, ReturnFacts DEF Code
  <2> QED
    BY <1>1, <1>2, <1>3, <2>1, CallsEnd DEF Unused
<1>4. CASE ~ (Return(c, "INVALID_ARGUMENT", MOJO_HANDLE_INVALID) /\ UNCHANGED th)
  <2> DEFINE f == [call |-> c, op |-> op, step |-> FirstStep(op), inv |-> handles[h].of,
                   name |-> m, handle |-> MOJO_HANDLE_INVALID, port |-> None, ports |-> None]
  <2>1. th' = [th EXCEPT ![t] = f] /\ result' = result
    BY <1>4 DEF Enter
  <2>2. f.call = c /\ f.handle = MOJO_HANDLE_INVALID /\ f.port = None /\ f.ports = None
        /\ f.step \notin {"put", "again", "send"}
    BY DEF FirstStep
  <2> HIDE DEF f
  <2>3. th'[t] = f /\ \A u \in Thread : u # t => th'[u] = th[u]
    BY <2>1 DEF HInv, ApiTypeOK
  <2>4. \A u \in Thread : u # t /\ th[u] # None => th[u].call # c
    BY <1>1 DEF Unused
  <2>5. CallsOwn'
    <3> SUFFICES ASSUME NEW u \in Thread, th'[u] # None
                 PROVE  /\ result[th'[u].call] = None
                        /\ \A v \in Thread : u # v /\ th'[v] # None => th'[u].call # th'[v].call
      BY <2>1 DEF CallsOwn
    <3>1. CASE u = t
      BY <3>1, <1>1, <2>2, <2>3, <2>4 DEF Unused
    <3>2. CASE u # t
      BY <3>2, <2>2, <2>3, <2>4 DEF CallsInv, CallsOwn
    <3> QED
      BY <3>1, <3>2
  <2>6. LocalsInv'
    <3> SUFFICES ASSUME NEW u \in Thread, th'[u] # None
                 PROVE  /\ th'[u].handle # MOJO_HANDLE_INVALID => th'[u].step \in {"put", "merge"}
                        /\ th'[u].step = "put" => /\ th'[u].handle # MOJO_HANDLE_INVALID
                                                  /\ handles[th'[u].handle] = Pipe(<<th'[u].call, 0>>)
                        /\ th'[u].step # "local" => th'[u].port = None
                        /\ th'[u].step \in {"again", "send"} <=> th'[u].ports # None
      BY <1>1 DEF LocalsInv, Pipe
    <3>1. CASE u = t
      BY <3>1, <2>2, <2>3
    <3>2. CASE u # t
      BY <3>2, <2>3 DEF CallsInv, LocalsInv
    <3> QED
      BY <3>1, <3>2
  <2> QED
    BY <1>1, <2>1, <2>5, <2>6 DEF CallsInv, SentInv
<1> QED
  BY <1>3, <1>4

\* The steps of the calls, one by one.
LEMMA CallsContinue ==
    ASSUME HInv, CallsInv, NEW t \in Thread, Continue(t)
    PROVE  CallsInv' /\ Stay
<1>1. th[t] # None
  BY DEF Continue, CreatePortPair, AddPipe, AttachMessagePipe, ExtractMessagePipe, AddExtracted,
     MergePortIntoInviter, TakeAttachPorts, TakeAgain, SendInvitation, At
<1>2. /\ th[t].call \in Call /\ th[t].inv \in Call /\ th[t].handle \in Handle
      /\ th[t].port \in Port \cup {None} /\ th[t].ports \in Ports \cup {None}
      /\ Pipe(<<th[t].call, 0>>) \in Dispatcher
      /\ th[t].step \notin {"take", "again", "send"} => th[t].name \in Name
      /\ th[t].step = "local" => th[t].port \in Port
  BY <1>1, FrameFacts
<1>3. MOJO_HANDLE_INVALID \in Handle /\ None \in Port \cup {None} /\ None \in Ports \cup {None}
  BY NoHandle
<1>4. handles' = handles => Stay
  BY DEF Stay
<1>5. CASE CreatePortPair(t)
  <2>1. Goto(t, "handle", MOJO_HANDLE_INVALID, None, None)
        /\ UNCHANGED <<handles, next, attached, sent, merges, result>>
    BY <1>5 DEF CreatePortPair
  <2> QED
    BY <2>1, <1>1, <1>3, <1>4, CallsGoto DEF Step
<1>6. CASE AddPipe(t)
  <2>1. PICK h \in Handle :
          /\ AddDispatcher(Pipe(<<th[t].call, 0>>), h)
          /\ \/ Goto(t, "merge", h, None, None) /\ UNCHANGED result
             \/ Leave(t, "RESOURCE_EXHAUSTED", h)
             \/ h # MOJO_HANDLE_INVALID /\ Goto(t, "put", h, None, None) /\ UNCHANGED result
    BY <1>6 DEF AddPipe
  <2>2. sent' = sent
    BY <1>6 DEF AddPipe
  <2>3. Stay /\ (h # MOJO_HANDLE_INVALID => handles'[h] = Pipe(<<th[t].call, 0>>))
    BY <1>2, <2>1, AddFacts DEF Stay
  <2>4. CASE Goto(t, "merge", h, None, None) /\ UNCHANGED result
    BY <2>2, <2>3, <2>4, <1>1, <1>3, CallsGoto DEF Step
  <2>5. CASE Leave(t, "RESOURCE_EXHAUSTED", h)
    BY <2>2, <2>3, <2>5, <1>1, CallsLeave DEF Code
  <2>6. CASE h # MOJO_HANDLE_INVALID /\ Goto(t, "put", h, None, None) /\ UNCHANGED result
    BY <2>2, <2>3, <2>6, <1>1, <1>3, CallsGoto DEF Step
  <2> QED
    BY <2>1, <2>3, <2>4, <2>5, <2>6
<1>7. CASE AttachMessagePipe(t)
  <2>1. Leave(t, "OK", th[t].handle) \/ Leave(t, "ALREADY_EXISTS", MOJO_HANDLE_INVALID)
    BY <1>7 DEF AttachMessagePipe
  <2>2. sent' = sent /\ Stay
    BY <1>7, <1>4 DEF AttachMessagePipe
  <2> QED
    BY <2>1, <2>2, <1>1, <1>2, <1>3, CallsLeave DEF Code
<1>8. CASE ExtractMessagePipe(t)
  <2>1. PICK p \in Port \cup {None} : p = attached[<<th[t].inv, th[t].name>>]
    BY <1>2, <1>8 DEF ExtractMessagePipe, At, HInv, ApiTypeOK
  <2>2. \/ Goto(t, "pair", MOJO_HANDLE_INVALID, None, None)
        \/ Goto(t, "local", MOJO_HANDLE_INVALID, p, None)
    BY <2>1, <1>8 DEF ExtractMessagePipe
  <2>3. sent' = sent /\ result' = result /\ Stay
    BY <1>8, <1>4 DEF ExtractMessagePipe
  <2> QED
    BY <2>2, <2>3, <1>1, <1>3, CallsGoto DEF Step
<1>9. CASE AddExtracted(t)
  <2>1. PICK h \in Handle :
          /\ AddDispatcher(Pipe(th[t].port), h)
          /\ \/ h = MOJO_HANDLE_INVALID /\ Goto(t, "pair", h, None, None) /\ UNCHANGED result
             \/ Leave(t, "OK", h)
    BY <1>9 DEF AddExtracted
  <2>2. sent' = sent /\ Pipe(th[t].port) \in Dispatcher
    BY <1>2, <1>9 DEF AddExtracted, At, Dispatcher
  <2>3. Stay
    BY <2>1, <2>2, AddFacts DEF Stay
  <2>4. CASE h = MOJO_HANDLE_INVALID /\ Goto(t, "pair", h, None, None) /\ UNCHANGED result
    BY <2>2, <2>3, <2>4, <1>1, <1>3, CallsGoto DEF Step
  <2>5. CASE Leave(t, "OK", h)
    BY <2>2, <2>3, <2>5, <1>1, CallsLeave DEF Code
  <2> QED
    BY <2>1, <2>3, <2>4, <2>5
<1>10. CASE MergePortIntoInviter(t)
  <2>1. Leave(t, "RESOURCE_EXHAUSTED", th[t].handle) \/ Leave(t, "OK", th[t].handle)
    BY <1>10 DEF MergePortIntoInviter
  <2>2. sent' = sent /\ Stay
    BY <1>10, <1>4 DEF MergePortIntoInviter
  <2> QED
    BY <2>1, <2>2, <1>1, <1>2, CallsLeave DEF Code
<1>11. CASE TakeAttachPorts(t)
  <2>1. /\ Goto(t, "again", MOJO_HANDLE_INVALID, None, Attached(th[t].inv))
        /\ sent' = sent /\ result' = result /\ Stay
    BY <1>11, <1>4 DEF TakeAttachPorts
  <2>2. Attached(th[t].inv) \in Ports \cup {None} /\ Attached(th[t].inv) # None
    BY <1>2, EmptiedTyped, LocalsAssumption
  <2> QED
    BY <2>1, <2>2, <1>1, <1>3, CallsGoto DEF Step
<1>12. CASE TakeAgain(t)
  <2>1. /\ Goto(t, "send", MOJO_HANDLE_INVALID, None, th[t].ports)
        /\ sent' = sent /\ result' = result /\ Stay /\ th[t].ports # None
    BY <1>12, <1>4 DEF TakeAgain, At, CallsInv, LocalsInv
  <2> QED
    BY <2>1, <1>1, <1>2, <1>3, CallsGoto DEF Step
<1>13. CASE SendInvitation(t)
  <2>1. /\ Leave(t, "OK", MOJO_HANDLE_INVALID)
        /\ sent' = [sent EXCEPT ![th[t].call] = th[t].ports] /\ Stay
    BY <1>13, <1>4 DEF SendInvitation
  <2>2. \A d \in Call : sent'[d] # None => sent[d] # None \/ d = th[t].call
    BY <2>1 DEF HInv, ApiTypeOK
  <2> QED
    BY <2>1, <2>2, <1>1, <1>3, CallsLeave DEF Code
<1> QED
  BY <1>5, <1>6, <1>7, <1>8, <1>9, <1>10, <1>11, <1>12, <1>13 DEF Continue


\* A step of a call is one of Begin or one of Continue.
LEMMA BeginCases ==
    ASSUME HInv, NEW t \in Thread, Begin(t)
    PROVE  \E c \in Call :
             \/ CreateInvitation(t, c)
             \/ \E op \in {"attach", "extract", "send"}, h \in Handle, m \in Name \cup {None} :
                  Enter(t, c, op, h, m)
<1>1. PICK c \in Call :
        \/ CreateInvitation(t, c)
        \/ \E h \in Known, m \in Name :
             Enter(t, c, "attach", h, m) \/ Enter(t, c, "extract", h, m)
        \/ \E h \in Known : Enter(t, c, "send", h, None)
  BY DEF Begin
<1>2. Known \subseteq Handle
  BY NoHandle DEF Known, HInv, ApiTypeOK
<1>3. CASE CreateInvitation(t, c)
  BY <1>3
<1>4. CASE \E h \in Known, m \in Name :
             Enter(t, c, "attach", h, m) \/ Enter(t, c, "extract", h, m)
  <2>1. PICK h \in Handle, m \in Name \cup {None} :
          Enter(t, c, "attach", h, m) \/ Enter(t, c, "extract", h, m)
    BY <1>2, <1>4
  <2>2. PICK op \in {"attach", "extract", "send"} : Enter(t, c, op, h, m)
    BY <2>1
  <2> QED
    BY <2>2
<1>5. CASE \E h \in Known : Enter(t, c, "send", h, None)
  <2>1. PICK h \in Handle, m \in Name \cup {None} : Enter(t, c, "send", h, m)
    BY <1>2, <1>5
  <2>2. PICK op \in {"attach", "extract", "send"} : Enter(t, c, op, h, m)
    BY <2>1
  <2> QED
    BY <2>2
<1> QED
  BY <1>1, <1>3, <1>4, <1>5

LEMMA CallsInvInit == ApiInit => CallsInv
<1> SUFFICES ASSUME ApiInit PROVE CallsInv
  OBVIOUS
<1>1. /\ \A t \in Thread : th[t] = None
      /\ \A c \in Call : sent[c] = None
  BY DEF ApiInit
<1> QED
  BY <1>1 DEF CallsInv, CallsOwn, LocalsInv, SentInv


LEMMA CallsInvNext == HInv /\ CallsInv /\ [ApiNext]_apiVars => CallsInv'
<1> SUFFICES ASSUME HInv, CallsInv, [ApiNext]_apiVars PROVE CallsInv'
  OBVIOUS
<1>1. CASE UNCHANGED apiVars
  BY <1>1 DEF apiVars, CallsInv, CallsOwn, LocalsInv, SentInv, Pipe
<1>2. CASE \E t \in Thread : Begin(t)
  BY <1>2, BeginCases, CallsCreate, CallsEnter
<1>3. CASE \E t \in Thread : Continue(t)
  BY <1>3, CallsContinue
<1> QED
  BY <1>1, <1>2, <1>3 DEF ApiNext

\* Every call belongs to one thread until it ends, and only then has it a result.
LEMMA CallsInvAlways == ApiSpec => []CallsInv
  BY CallsInvInit, CallsInvNext, HInvAlways, PTL DEF ApiSpec

-----------------------------------------------------------------------------
(* Every end has its handle, and every handle is known.                      *)

Reachable(h) ==
    \/ \E c \in Returned : result[c].handle = h
    \/ \E t \in Thread : th[t] # None /\ th[t].handle = h /\ h # MOJO_HANDLE_INVALID
    \/ \E c \in Call : /\ result[c] # None /\ result[c].code = "ALREADY_EXISTS"
                       /\ handles[h] = Pipe(<<c, 0>>)

TableInv == HandlesReachable /\ PairsReadable

\* What others know of the table stays known; a step has to answer for what it enters, and
\* for what its own thread knew.
LEMMA ReachKept ==
    ASSUME HInv, HandlesReachable, Stay, NEW t \in Thread,
           \A u \in Thread : u # t => th'[u] = th[u],
           \A c \in Call : result[c] # None => result'[c] = result[c],
           \A h \in Handle : handles[h] = None /\ handles'[h] # None => Reachable(h)',
           \A h \in Handle : /\ handles[h] # None
                             /\ th[t] # None /\ th[t].handle = h /\ h # MOJO_HANDLE_INVALID
                             => Reachable(h)'
    PROVE  HandlesReachable'
<1> SUFFICES ASSUME NEW h \in Handle, handles'[h] # None PROVE Reachable(h)'
  BY DEF HandlesReachable, Reachable
<1>1. CASE handles[h] = None
  BY <1>1
<1>2. CASE handles[h] # None
  <2>1. \/ \E c \in Returned : result[c].handle = h
        \/ \E u \in Thread : th[u] # None /\ th[u].handle = h /\ h # MOJO_HANDLE_INVALID
        \/ \E c \in Call : /\ result[c] # None /\ result[c].code = "ALREADY_EXISTS"
                           /\ handles[h] = Pipe(<<c, 0>>)
    BY <1>2 DEF HandlesReachable
  <2>2. CASE \E c \in Returned : result[c].handle = h
    BY <2>2 DEF Reachable, Returned, Succeeded
  <2>3. CASE \E u \in Thread : th[u] # None /\ th[u].handle = h /\ h # MOJO_HANDLE_INVALID
    <3>1. PICK u \in Thread : th[u] # None /\ th[u].handle = h /\ h # MOJO_HANDLE_INVALID
      BY <2>3
    <3>2. CASE u = t
      BY <3>1, <3>2, <1>2
    <3>3. CASE u # t
      BY <3>1, <3>3 DEF Reachable
    <3> QED
      BY <3>2, <3>3
  <2>4. CASE \E c \in Call : /\ result[c] # None /\ result[c].code = "ALREADY_EXISTS"
                             /\ handles[h] = Pipe(<<c, 0>>)
    BY <2>4, <1>2 DEF Stay, Reachable, Pipe
  <2> QED
    BY <2>1, <2>2, <2>3, <2>4
<1> QED
  BY <1>1, <1>2

LEMMA PairsKept ==
    ASSUME HInv, PairsReadable, Stay, NEW t \in Thread,
           \A u \in Thread : u # t => th'[u] = th[u], ~ At(t, "handle"),
           next = MOJO_HANDLE_INVALID => next' = MOJO_HANDLE_INVALID, pairs' = pairs
    PROVE  PairsReadable'
<1> SUFFICES ASSUME NEW c \in pairs
             PROVE  \/ \E h \in Handle : handles'[h] = Pipe(<<c, 0>>)
                    \/ \E u \in Thread : th'[u] # None /\ th'[u].step = "handle" /\ th'[u].call = c
                    \/ next' = MOJO_HANDLE_INVALID
  BY DEF PairsReadable, Pipe, At
<1>1. \/ \E h \in Handle : handles[h] = Pipe(<<c, 0>>)
      \/ \E u \in Thread : At(u, "handle") /\ th[u].call = c
      \/ next = MOJO_HANDLE_INVALID
  BY DEF PairsReadable
<1>2. Pipe(<<c, 0>>) # None
  <2>1. c \in Call
    BY DEF HInv, ApiTypeOK
  <2>2. Pipe(<<c, 0>>) \in Dispatcher
    BY <2>1 DEF Dispatcher, Port
  <2> QED
    BY <2>2, TableAssumption
<1>3. CASE \E h \in Handle : handles[h] = Pipe(<<c, 0>>)
  BY <1>2, <1>3 DEF Stay
<1>4. CASE \E u \in Thread : At(u, "handle") /\ th[u].call = c
  BY <1>4 DEF At
<1> QED
  BY <1>1, <1>3, <1>4


LEMMA ReturnedReachable ==
    ASSUME NEW c \in Call, result[c] # None, result[c].code = "OK",
           result[c].handle # MOJO_HANDLE_INVALID
    PROVE  Reachable(result[c].handle)
  BY DEF Reachable, Returned, Succeeded

LEMMA TableBegin ==
    ASSUME HInv, TableInv, NEW t \in Thread, Begin(t)
    PROVE  TableInv'
<1>1. PICK c \in Call :
        \/ CreateInvitation(t, c)
        \/ \E op \in {"attach", "extract", "send"}, h \in Handle, m \in Name \cup {None} :
             Enter(t, c, op, h, m)
  BY BeginCases
<1>2. th[t] = None /\ result[c] = None /\ pairs' = pairs
  BY <1>1 DEF CreateInvitation, Enter, Unused
<1>3. CASE CreateInvitation(t, c)
  <2>1. PICK h \in Handle :
          /\ AddDispatcher(Invitation(c), h)
          /\ Return(c, IF h = MOJO_HANDLE_INVALID THEN "RESOURCE_EXHAUSTED" ELSE "OK", h)
    BY <1>3 DEF CreateInvitation
  <2>2. PICK code \in Code :
          /\ Return(c, code, h)
          /\ h # MOJO_HANDLE_INVALID => code = "OK"
    BY <2>1 DEF Code
  <2>3. result'[c] # None /\ result'[c].code = code /\ result'[c].handle = h
        /\ \A d \in Call : d # c => result'[d] = result[d]
    BY <2>2, ReturnFacts
  <2>4. Invitation(c) \in Dispatcher
    BY DEF Dispatcher
  <2>5. /\ Stay
        /\ next = MOJO_HANDLE_INVALID => next' = MOJO_HANDLE_INVALID
        /\ \A g \in Handle : handles[g] = None /\ handles'[g] # None
                               => g = h /\ h # MOJO_HANDLE_INVALID
    BY <2>1, <2>4, AddFacts DEF Stay
  <2>6. th' = th
    BY <1>3 DEF CreateInvitation
  <2>7. h # MOJO_HANDLE_INVALID => Reachable(h)'
    BY <2>2, <2>3 DEF Reachable, Returned, Succeeded
  <2>8. HandlesReachable'
    BY <1>2, <2>3, <2>5, <2>6, <2>7, ReachKept DEF TableInv
  <2>9. PairsReadable'
    BY <1>2, <2>5, <2>6, PairsKept DEF TableInv, At
  <2> QED
    BY <2>8, <2>9 DEF TableInv
<1>4. CASE \E op \in {"attach", "extract", "send"}, h \in Handle, m \in Name \cup {None} :
             Enter(t, c, op, h, m)
  <2>1. PICK op \in {"attach", "extract", "send"}, h \in Handle, m \in Name \cup {None} :
          Enter(t, c, op, h, m)
    BY <1>4
  <2>2. handles' = handles /\ next' = next
    BY <2>1 DEF Enter
  <2>3. \A u \in Thread : u # t => th'[u] = th[u]
    BY <2>1 DEF Enter, HInv, ApiTypeOK
  <2>4. \A d \in Call : result[d] # None => result'[d] = result[d]
    BY <2>1, <1>2 DEF Enter, Return, HInv, ApiTypeOK
  <2>5. HandlesReachable'
    BY <1>2, <2>2, <2>3, <2>4, ReachKept DEF TableInv, Stay
  <2>6. PairsReadable'
    BY <1>2, <2>2, <2>3, PairsKept DEF TableInv, Stay, At
  <2> QED
    BY <2>5, <2>6 DEF TableInv
<1> QED
  BY <1>1, <1>3, <1>4

\* The results of the calls that have ended stay.
LEMMA ResultsStay ==
    ASSUME HInv, CallsInv, NEW t \in Thread, Continue(t)
    PROVE  /\ th[t] # None
           /\ \A u \in Thread : u # t => th'[u] = th[u]
           /\ \A c \in Call : result[c] # None => result'[c] = result[c]
<1>1. th[t] # None
  BY DEF Continue, CreatePortPair, AddPipe, AttachMessagePipe, ExtractMessagePipe, AddExtracted,
     MergePortIntoInviter, TakeAttachPorts, TakeAgain, SendInvitation, At
<1>2. result[th[t].call] = None /\ th[t].call \in Call
  BY <1>1, FrameFacts DEF CallsInv, CallsOwn
<1>3. \A u \in Thread : u # t => th'[u] = th[u]
  BY DEF Continue, CreatePortPair, AddPipe, AttachMessagePipe, ExtractMessagePipe, AddExtracted,
     MergePortIntoInviter, TakeAttachPorts, TakeAgain, SendInvitation, Goto, Leave, HInv, ApiTypeOK
<1>4. \/ result' = result
      \/ \E code \in Code, h \in Handle : Return(th[t].call, code, h)
  BY <1>1, FrameFacts, NoHandle DEF Continue, CreatePortPair, AddPipe, AttachMessagePipe, ExtractMessagePipe,
     AddExtracted, MergePortIntoInviter, TakeAttachPorts, TakeAgain, SendInvitation, Leave, Code
<1>5. \A c \in Call : result[c] # None => result'[c] = result[c]
  BY <1>2, <1>4, ReturnFacts
<1> QED
  BY <1>1, <1>3, <1>5


\* A call that enters nothing, and that keeps or has no handle of its own.
LEMMA TableQuiet ==
    ASSUME HInv, CallsInv, TableInv, NEW t \in Thread, Continue(t), Stay,
           th[t].handle = MOJO_HANDLE_INVALID, handles' = handles, next' = next,
           ~ At(t, "handle"), pairs' = pairs
    PROVE  TableInv'
<1>1. /\ \A u \in Thread : u # t => th'[u] = th[u]
      /\ \A c \in Call : result[c] # None => result'[c] = result[c]
  BY ResultsStay
<1> QED
  BY <1>1, ReachKept, PairsKept DEF TableInv

LEMMA TableContinue ==
    ASSUME HInv, CallsInv, TableInv, NEW t \in Thread, Continue(t)
    PROVE  TableInv'
<1>1. /\ th[t] # None
      /\ \A u \in Thread : u # t => th'[u] = th[u]
      /\ \A c \in Call : result[c] # None => result'[c] = result[c]
      /\ Stay
  BY ResultsStay, CallsContinue
<1>2. /\ th[t].call \in Call /\ th[t].handle \in Handle
      /\ Pipe(<<th[t].call, 0>>) \in Dispatcher
      /\ th[t].step = "local" => th[t].port \in Port
      /\ th[t].step \notin {"put", "merge"} => th[t].handle = MOJO_HANDLE_INVALID
      /\ th[t].step = "put" =>
           th[t].handle # MOJO_HANDLE_INVALID /\ handles[th[t].handle] = Pipe(<<th[t].call, 0>>)
  BY <1>1, FrameFacts DEF CallsInv, LocalsInv
<1>3. MOJO_HANDLE_INVALID \in Handle /\ None \in Port \cup {None} /\ None \in Ports \cup {None}
  BY NoHandle
<1>4. CASE CreatePortPair(t)
  <2>1. /\ th[t].step = "pair" /\ pairs' = pairs \cup {th[t].call}
        /\ Goto(t, "handle", MOJO_HANDLE_INVALID, None, None)
        /\ handles' = handles /\ next' = next
    BY <1>4 DEF CreatePortPair, At
  <2>2. th'[t] # None /\ th'[t].step = "handle" /\ th'[t].call = th[t].call
    BY <2>1, <1>1, <1>3, GotoFacts DEF Step
  <2>3. HandlesReachable'
    BY <2>1, <1>1, <1>2, ReachKept DEF TableInv
  <2>4. PairsReadable'
    <3> SUFFICES ASSUME NEW c \in pairs'
                 PROVE  \/ \E h \in Handle : handles'[h] = Pipe(<<c, 0>>)
                        \/ \E u \in Thread : th'[u] # None /\ th'[u].step = "handle" /\ th'[u].call = c
                        \/ next' = MOJO_HANDLE_INVALID
      BY DEF PairsReadable, Pipe, At
    <3>1. CASE c = th[t].call
      BY <3>1, <2>2
    <3>2. CASE c \in pairs
      <4>1. \/ \E h \in Handle : handles[h] = Pipe(<<c, 0>>)
            \/ \E u \in Thread : th[u] # None /\ th[u].step = "handle" /\ th[u].call = c
            \/ next = MOJO_HANDLE_INVALID
        BY <3>2 DEF TableInv, PairsReadable, At
      <4> QED
        BY <4>1, <2>1, <1>1
    <3> QED
      BY <3>1, <3>2, <2>1
  <2> QED
    BY <2>3, <2>4 DEF TableInv
<1>5. CASE AddPipe(t)
  <2>1. PICK h \in Handle :
          /\ AddDispatcher(Pipe(<<th[t].call, 0>>), h)
          /\ \/ Goto(t, "merge", h, None, None)
             \/ h = MOJO_HANDLE_INVALID
             \/ Goto(t, "put", h, None, None)
    BY <1>5 DEF AddPipe
  <2>2. pairs' = pairs /\ th[t].step = "handle"
    BY <1>5 DEF AddPipe, At
  <2>3. /\ next = MOJO_HANDLE_INVALID => next' = MOJO_HANDLE_INVALID
        /\ next # MOJO_HANDLE_INVALID => handles'[h] = Pipe(<<th[t].call, 0>>)
        /\ \A g \in Handle : handles[g] = None /\ handles'[g] # None
                               => g = h /\ h # MOJO_HANDLE_INVALID
    BY <2>1, <1>2, AddFacts
  <2>4. h # MOJO_HANDLE_INVALID => th'[t] # None /\ th'[t].handle = h
    BY <2>1, <1>1, <1>3, GotoFacts DEF Step
  <2>5. h # MOJO_HANDLE_INVALID => Reachable(h)'
    BY <2>4 DEF Reachable
  <2>6. HandlesReachable'
    BY <2>2, <2>3, <2>5, <1>1, <1>2, ReachKept DEF TableInv
  <2>7. PairsReadable'
    <3> SUFFICES ASSUME NEW c \in pairs
                 PROVE  \/ \E g \in Handle : handles'[g] = Pipe(<<c, 0>>)
                        \/ \E u \in Thread : th'[u] # None /\ th'[u].step = "handle" /\ th'[u].call = c
                        \/ next' = MOJO_HANDLE_INVALID
      BY <2>2 DEF PairsReadable, Pipe, At
    <3>1. \/ \E g \in Handle : handles[g] = Pipe(<<c, 0>>)
          \/ \E u \in Thread : th[u] # None /\ th[u].step = "handle" /\ th[u].call = c
          \/ next = MOJO_HANDLE_INVALID
      BY DEF TableInv, PairsReadable, At
    <3>2. CASE \E g \in Handle : handles[g] = Pipe(<<c, 0>>)
      <4>1. c \in Call
        BY DEF HInv, ApiTypeOK
      <4>2. Pipe(<<c, 0>>) \in Dispatcher
        BY <4>1 DEF Dispatcher, Port
      <4> QED
        BY <3>2, <4>2, <1>1, TableAssumption DEF Stay
    <3>3. CASE \E u \in Thread : th[u] # None /\ th[u].step = "handle" /\ th[u].call = c
      <4>1. PICK u \in Thread : th[u] # None /\ th[u].step = "handle" /\ th[u].call = c
        BY <3>3
      <4>2. CASE u = t
        BY <4>1, <4>2, <2>3
      <4>3. CASE u # t
        BY <4>1, <4>3, <1>1
      <4> QED
        BY <4>2, <4>3
    <3> QED
      BY <3>1, <3>2, <3>3, <2>3
  <2> QED
    BY <2>6, <2>7 DEF TableInv
<1>6. CASE AttachMessagePipe(t)
  <2>1. /\ th[t].step = "put" /\ handles' = handles /\ next' = next /\ pairs' = pairs
        /\ \/ Leave(t, "OK", th[t].handle)
           \/ Leave(t, "ALREADY_EXISTS", MOJO_HANDLE_INVALID)
    BY <1>6 DEF AttachMessagePipe, At
  <2>2. PICK c \in Call : c = th[t].call
    BY <1>2
  <2>3. PICK h \in Handle : h = th[t].handle
    BY <1>2
  <2>4. /\ result'[c] # None
        /\ \/ result'[c].code = "OK" /\ result'[c].handle = h
           \/ result'[c].code = "ALREADY_EXISTS"
    BY <2>1, <2>2, <2>3, <1>1, <1>2, <1>3, LeaveFacts DEF Code
  <2>5. h # MOJO_HANDLE_INVALID /\ handles'[h] = Pipe(<<c, 0>>)
    BY <2>1, <2>2, <2>3, <1>2
  <2>6. Reachable(h)'
    BY <2>4, <2>5 DEF Reachable, Returned, Succeeded, Pipe
  <2>7. HandlesReachable'
    BY <2>1, <2>3, <2>6, <1>1, ReachKept DEF TableInv
  <2>8. PairsReadable'
    BY <2>1, <1>1, PairsKept DEF TableInv, At
  <2> QED
    BY <2>7, <2>8 DEF TableInv
<1>7. CASE ExtractMessagePipe(t)
  <2>1. th[t].step = "look" /\ handles' = handles /\ next' = next /\ pairs' = pairs
    BY <1>7 DEF ExtractMessagePipe, At
  <2> QED
    BY <2>1, <1>1, <1>2, TableQuiet DEF At
<1>8. CASE AddExtracted(t)
  <2>1. PICK h \in Handle :
          /\ AddDispatcher(Pipe(th[t].port), h)
          /\ h = MOJO_HANDLE_INVALID \/ Leave(t, "OK", h)
    BY <1>8 DEF AddExtracted
  <2>2. pairs' = pairs /\ th[t].step = "local" /\ Pipe(th[t].port) \in Dispatcher
    BY <1>2, <1>8 DEF AddExtracted, At, Dispatcher
  <2>3. /\ next = MOJO_HANDLE_INVALID => next' = MOJO_HANDLE_INVALID
        /\ \A g \in Handle : handles[g] = None /\ handles'[g] # None
                               => g = h /\ h # MOJO_HANDLE_INVALID
    BY <2>1, <2>2, AddFacts
  <2>4. PICK c \in Call : c = th[t].call
    BY <1>2
  <2>5. h # MOJO_HANDLE_INVALID =>
          result'[c] # None /\ result'[c].code = "OK" /\ result'[c].handle = h
    BY <2>1, <2>4, <1>1, LeaveFacts DEF Code
  <2>6. h # MOJO_HANDLE_INVALID => Reachable(h)'
    BY <2>5 DEF Reachable, Returned, Succeeded
  <2>7. HandlesReachable'
    BY <2>2, <2>3, <2>6, <1>1, <1>2, ReachKept DEF TableInv
  <2>8. PairsReadable'
    BY <2>2, <2>3, <1>1, PairsKept DEF TableInv, At
  <2> QED
    BY <2>7, <2>8 DEF TableInv
<1>9. CASE MergePortIntoInviter(t)
  <2>1. th[t].step = "merge" /\ handles' = handles /\ next' = next /\ pairs' = pairs
    BY <1>9 DEF MergePortIntoInviter, At
  <2>2. PICK c \in Call : c = th[t].call
    BY <1>2
  <2>3. PICK h \in Handle : h = th[t].handle
    BY <1>2
  <2>4. h # MOJO_HANDLE_INVALID => Leave(t, "OK", h)
    BY <1>9, <2>3 DEF MergePortIntoInviter
  <2>5. h # MOJO_HANDLE_INVALID =>
          result'[c] # None /\ result'[c].code = "OK" /\ result'[c].handle = h
    BY <2>2, <2>4, <1>1, LeaveFacts DEF Code
  <2>6. h # MOJO_HANDLE_INVALID => Reachable(h)'
    BY <2>5 DEF Reachable, Returned, Succeeded
  <2>7. HandlesReachable'
    BY <2>1, <2>3, <2>6, <1>1, ReachKept DEF TableInv
  <2>8. PairsReadable'
    BY <2>1, <1>1, PairsKept DEF TableInv, At
  <2> QED
    BY <2>7, <2>8 DEF TableInv
<1>10. CASE TakeAttachPorts(t) \/ TakeAgain(t) \/ SendInvitation(t)
  <2>1. /\ th[t].step \in {"take", "again", "send"}
        /\ handles' = handles /\ next' = next /\ pairs' = pairs
    BY <1>10 DEF TakeAttachPorts, TakeAgain, SendInvitation, At
  <2> QED
    BY <2>1, <1>1, <1>2, TableQuiet DEF At
<1> QED
  BY <1>4, <1>5, <1>6, <1>7, <1>8, <1>9, <1>10 DEF Continue

LEMMA TableInvInit == ApiInit => TableInv
  BY DEF ApiInit, TableInv, HandlesReachable, PairsReadable

LEMMA TableInvNext == HInv /\ CallsInv /\ TableInv /\ [ApiNext]_apiVars => TableInv'
<1> SUFFICES ASSUME HInv, CallsInv, TableInv, [ApiNext]_apiVars PROVE TableInv'
  OBVIOUS
<1>1. CASE UNCHANGED apiVars
  BY <1>1 DEF apiVars, TableInv, HandlesReachable, PairsReadable, Returned, Succeeded, At, Pipe
<1> QED
  BY <1>1, TableBegin, TableContinue DEF ApiNext

LEMMA TableInvAlways == ApiSpec => []TableInv
  BY TableInvInit, TableInvNext, HInvAlways, CallsInvAlways, PTL DEF ApiSpec

\* Whoever entered a dispatcher in the table knows its handle, at every moment of every call
\* and for any interleaving; only an attach to a name that is taken forgets one (core.cc:86).
THEOREM HandlesReachableCorrect == ApiSpec => []HandlesReachable
<1>1. TableInv => HandlesReachable
  BY DEF TableInv
<1> QED
  BY <1>1, TableInvAlways, PTL

\* The near end of every pair of ports is in the table while there are handles, so the
\* answer to each request of ExtractMessagePipeFromInvitation can be read.
THEOREM PairsReadableCorrect == ApiSpec => []PairsReadable
<1>1. TableInv => PairsReadable
  BY DEF TableInv
<1> QED
  BY <1>1, TableInvAlways, PTL


-----------------------------------------------------------------------------
(* One place for each end.                                                   *)

LEMMA PlaceKinds ==
    ASSUME NEW p
    PROVE  /\ \A x \in AttachedAt(p) : x[1] = "attached"
           /\ \A x \in ExtractingBy(p) : x[1] = "extracting"
           /\ \A x \in SendingBy(p) : x[1] = "sending"
           /\ \A x \in InTable(p) : x[1] = "table"
           /\ \A x \in SentWith(p) : x[1] = "sent"
  BY DEF AttachedAt, ExtractingBy, SendingBy, InTable, SentWith

\* What a step does to the parts of the places that it does not speak of.
LEMMA AttachedSame ==
    ASSUME NEW p, attached' = attached
    PROVE  AttachedAt(p)' = AttachedAt(p)
  BY DEF AttachedAt

LEMMA SentSame ==
    ASSUME NEW p, sent' = sent
    PROVE  SentWith(p)' = SentWith(p)
  BY DEF SentWith

LEMMA TableSame ==
    ASSUME HInv, NEW p \in Port, NEW d \in Dispatcher, NEW h \in Handle, AddDispatcher(d, h),
           d # Pipe(p)
    PROVE  InTable(p)' = InTable(p)
<1>1. Pipe(p) \in Dispatcher /\ Pipe(p) # None
  BY TableAssumption DEF Dispatcher
<1>2. \A g \in Handle : handles'[g] = Pipe(p) <=> handles[g] = Pipe(p)
  <2> SUFFICES ASSUME NEW g \in Handle PROVE handles'[g] = Pipe(p) <=> handles[g] = Pipe(p)
    OBVIOUS
  <2>1. CASE g # h
    BY <2>1, AddFacts
  <2>2. CASE g = h /\ next = MOJO_HANDLE_INVALID
    BY <2>2, AddFacts
  <2>3. CASE g = h /\ next # MOJO_HANDLE_INVALID
    BY <2>3, <1>1, AddFacts
  <2> QED
    BY <2>1, <2>2, <2>3
<1>3. InTable(p)' = { <<"table", g>> : g \in { g \in Handle : handles'[g] = Pipe(p) } }
  BY DEF InTable, Pipe
<1> QED
  BY <1>2, <1>3 DEF InTable

LEMMA TableQuietly ==
    ASSUME NEW p, handles' = handles
    PROVE  InTable(p)' = InTable(p)
  BY DEF InTable, Pipe

\* The other threads keep what they have.
LEMMA ExtractingOther ==
    ASSUME NEW p, NEW t \in Thread, \A u \in Thread : u # t => th'[u] = th[u]
    PROVE  /\ \A x \in ExtractingBy(p) : x # <<"extracting", t>> => x \in ExtractingBy(p)'
           /\ \A x \in ExtractingBy(p)' : x # <<"extracting", t>> => x \in ExtractingBy(p)
           /\ <<"extracting", t>> \in ExtractingBy(p)' <=> th'[t] # None /\ th'[t].port = p
           /\ <<"extracting", t>> \in ExtractingBy(p) <=> th[t] # None /\ th[t].port = p
  BY DEF ExtractingBy

LEMMA SendingOther ==
    ASSUME NEW p, NEW t \in Thread, \A u \in Thread : u # t => th'[u] = th[u]
    PROVE  /\ \A x \in SendingBy(p) : x # <<"sending", t>> => x \in SendingBy(p)'
           /\ \A x \in SendingBy(p)' : x # <<"sending", t>> => x \in SendingBy(p)
           /\ <<"sending", t>> \in SendingBy(p)' <=>
                th'[t] # None /\ th'[t].ports # None /\ \E m \in Name : th'[t].ports[m] = p
           /\ <<"sending", t>> \in SendingBy(p) <=>
                th[t] # None /\ th[t].ports # None /\ \E m \in Name : th[t].ports[m] = p
  BY DEF SendingBy


\* A thread that has no end, before and after.
Free(t, p) == th[t] # None => th[t].port # p /\ (th[t].ports # None => \A m \in Name : th[t].ports[m] # p)

LEMMA ThreadSame ==
    ASSUME NEW p, NEW t \in Thread, \A u \in Thread : u # t => th'[u] = th[u],
           Free(t, p), Free(t, p)'
    PROVE  ExtractingBy(p)' = ExtractingBy(p) /\ SendingBy(p)' = SendingBy(p)
<1>1. ExtractingBy(p)' = ExtractingBy(p)
  <2>1. <<"extracting", t>> \notin ExtractingBy(p) /\ <<"extracting", t>> \notin ExtractingBy(p)'
    BY ExtractingOther DEF Free
  <2>2. \A x : x \in ExtractingBy(p)' <=> x \in ExtractingBy(p)
    BY <2>1, ExtractingOther
  <2> QED
    BY <2>2
<1>2. SendingBy(p)' = SendingBy(p)
  <2>1. <<"sending", t>> \notin SendingBy(p) /\ <<"sending", t>> \notin SendingBy(p)'
    BY SendingOther DEF Free
  <2>2. \A x : x \in SendingBy(p)' <=> x \in SendingBy(p)
    BY <2>1, SendingOther
  <2> QED
    BY <2>2
<1> QED
  BY <1>1, <1>2

LEMMA NoneNoPort ==
    ASSUME NEW p \in Port
    PROVE  p # None
  BY TableAssumption

LEMMA EndsApart ==
    ASSUME NEW c \in Call, NEW d \in Call
    PROVE  /\ <<c, 1>> \in Port /\ <<d, 0>> \in Port
           /\ Pipe(<<d, 0>>) # Pipe(<<c, 1>>)
           /\ Invitation(d) # Pipe(<<c, 1>>)
<1>1. <<d, 0>> # <<c, 1>>
  OBVIOUS
<1>2. Pipe(<<d, 0>>).port = <<d, 0>> /\ Pipe(<<c, 1>>).port = <<c, 1>>
  BY DEF Pipe
<1>3. Invitation(d).type # Pipe(<<c, 1>>).type
  BY DEF Pipe, Invitation
<1> QED
  BY <1>1, <1>2, <1>3 DEF Port

\* What every step does to an end: it stays in at most one place, it has none before its
\* call has ended, and it is lost in no more than the two ways.
LostBy(t, p) ==
    \/ At(t, "again") /\ \E m \in Name : attached[<<th[t].inv, m>>] = p /\ th[t].ports[m] # p
    \/ At(t, "local") /\ th[t].port = p /\ next = MOJO_HANDLE_INVALID

LEMMA EndSame ==
    ASSUME NEW c \in Call, EndInv(c), result[c] # None => result'[c] # None,
           Places(<<c, 1>>)' = Places(<<c, 1>>)
    PROVE  EndInv(c)'
<1>1. AtMostOne(Places(<<c, 1>>)) /\ (result[c] = None => Places(<<c, 1>>) = {})
  BY DEF EndInv
<1>2. AtMostOne(Places(<<c, 1>>)')
  BY <1>1 DEF AtMostOne
<1> QED
  BY <1>1, <1>2 DEF EndInv, AtMostOne

\* The end goes from x to y.
LEMMA EndMoved ==
    ASSUME NEW c \in Call, EndInv(c), result[c] # None => result'[c] # None,
           NEW x \in Places(<<c, 1>>), NEW y,
           \A z \in Places(<<c, 1>>)' : z = y \/ (z # x /\ z \in Places(<<c, 1>>))
    PROVE  EndInv(c)'
<1>1. AtMostOne(Places(<<c, 1>>)) /\ result[c] # None
  BY DEF EndInv
<1>2. \A z \in Places(<<c, 1>>) : z = x
  BY <1>1 DEF AtMostOne
<1>3. \A z \in Places(<<c, 1>>)' : z = y
  BY <1>2
<1> QED
  BY <1>1, <1>3 DEF EndInv, AtMostOne


LEMMA PlacesSame ==
    ASSUME NEW p, AttachedAt(p)' = AttachedAt(p), ExtractingBy(p)' = ExtractingBy(p),
           SendingBy(p)' = SendingBy(p), InTable(p)' = InTable(p), SentWith(p)' = SentWith(p)
    PROVE  Places(p)' = Places(p)
  BY DEF Places

LEMMA EndBegin ==
    ASSUME HInv, CallsInv, NEW c \in Call, EndInv(c), NEW t \in Thread, Begin(t)
    PROVE  EndInv(c)' /\ Places(<<c, 1>>)' = Places(<<c, 1>>)
<1>1. PICK p \in Port : p = <<c, 1>>
  BY EndsApart
<1>2. PICK d \in Call :
        \/ CreateInvitation(t, d)
        \/ \E op \in {"attach", "extract", "send"}, h \in Handle, m \in Name \cup {None} :
             Enter(t, d, op, h, m)
  BY BeginCases
<1>3. th[t] = None /\ result[d] = None /\ attached' = attached /\ sent' = sent
  BY <1>2 DEF CreateInvitation, Enter, Unused
<1>4. AttachedAt(p)' = AttachedAt(p) /\ SentWith(p)' = SentWith(p)
  BY <1>3, AttachedSame, SentSame
<1>5. /\ InTable(p)' = InTable(p) /\ Free(t, p)'
      /\ \A u \in Thread : u # t => th'[u] = th[u]
      /\ \A e \in Call : result[e] # None => result'[e] = result[e]
  <2>1. CASE CreateInvitation(t, d)
    <3>1. PICK h \in Handle :
            /\ AddDispatcher(Invitation(d), h)
            /\ Return(d, IF h = MOJO_HANDLE_INVALID THEN "RESOURCE_EXHAUSTED" ELSE "OK", h)
      BY <2>1 DEF CreateInvitation
    <3>2. Invitation(d) \in Dispatcher /\ Invitation(d) # Pipe(p)
      BY <1>1, EndsApart DEF Dispatcher
    <3>3. InTable(p)' = InTable(p)
      BY <3>1, <3>2, TableSame
    <3>4. th' = th
      BY <2>1 DEF CreateInvitation
    <3>5. \A e \in Call : e # d => result'[e] = result[e]
      BY <3>1 DEF Return, HInv, ApiTypeOK
    <3> QED
      BY <3>3, <3>4, <3>5, <1>3 DEF Free
  <2>2. CASE \E op \in {"attach", "extract", "send"}, h \in Handle, m \in Name \cup {None} :
               Enter(t, d, op, h, m)
    <3>1. PICK op \in {"attach", "extract", "send"}, h \in Handle, m \in Name \cup {None} :
            Enter(t, d, op, h, m)
      BY <2>2
    <3>2. InTable(p)' = InTable(p)
      BY <3>1, TableQuietly DEF Enter
    <3>3. \A u \in Thread : u # t => th'[u] = th[u]
      BY <3>1 DEF Enter, HInv, ApiTypeOK
    <3>4. \A e \in Call : result[e] # None => result'[e] = result[e]
      BY <3>1, <1>3 DEF Enter, Return, HInv, ApiTypeOK
    <3>5. th'[t] # None => th'[t].port = None /\ th'[t].ports = None
      BY <3>1, <1>3 DEF Enter, HInv, ApiTypeOK
    <3> QED
      BY <3>2, <3>3, <3>4, <3>5, NoneNoPort DEF Free
  <2> QED
    BY <1>2, <2>1, <2>2
<1>6. Free(t, p)
  BY <1>3 DEF Free
<1>7. Places(p)' = Places(p)
  BY <1>4, <1>5, <1>6, ThreadSame, PlacesSame
<1>8. Places(<<c, 1>>)' = Places(<<c, 1>>)
  BY <1>1, <1>7
<1> QED
  BY <1>5, <1>8, EndSame

\* A step that takes an end leaves a trace of it, or loses it in one of the two ways.
Survives(t, c) ==
    Places(<<c, 1>>) # {} => Places(<<c, 1>>)' # {} \/ LostBy(t, <<c, 1>>)

\* The steps that neither take the end nor give it.
LEMMA EndStays ==
    ASSUME HInv, CallsInv, NEW c \in Call, EndInv(c), NEW t \in Thread, Continue(t),
           AttachedAt(<<c, 1>>)' = AttachedAt(<<c, 1>>), SentWith(<<c, 1>>)' = SentWith(<<c, 1>>),
           InTable(<<c, 1>>)' = InTable(<<c, 1>>), Free(t, <<c, 1>>), Free(t, <<c, 1>>)'
    PROVE  EndInv(c)' /\ Survives(t, c)
<1>1. PICK p \in Port : p = <<c, 1>>
  BY EndsApart
<1>2. /\ \A u \in Thread : u # t => th'[u] = th[u]
      /\ \A e \in Call : result[e] # None => result'[e] = result[e]
  BY ResultsStay
<1>3. Free(t, p) /\ Free(t, p)' /\ InTable(p)' = InTable(p) /\ AttachedAt(p)' = AttachedAt(p)
      /\ SentWith(p)' = SentWith(p)
  BY <1>1
<1>4. Places(p)' = Places(p)
  BY <1>2, <1>3, ThreadSame, PlacesSame
<1>5. Places(<<c, 1>>)' = Places(<<c, 1>>)
  BY <1>1, <1>4
<1> QED
  BY <1>2, <1>5, EndSame DEF Survives

\* The steps that take it from x to y.
LEMMA EndTaken ==
    ASSUME HInv, CallsInv, NEW c \in Call, EndInv(c), NEW t \in Thread, Continue(t),
           NEW x \in Places(<<c, 1>>), NEW y \in Places(<<c, 1>>)',
           \A z \in Places(<<c, 1>>)' : z = y \/ (z # x /\ z \in Places(<<c, 1>>))
    PROVE  EndInv(c)' /\ Survives(t, c)
<1>1. \A e \in Call : result[e] # None => result'[e] = result[e]
  BY ResultsStay
<1> QED
  BY <1>1, EndMoved DEF Survives

LEMMA LocalsFree ==
    ASSUME HInv, CallsInv, NEW t \in Thread, th[t] # None, NEW p \in Port
    PROVE  /\ th[t].step # "local" => th[t].port = None
           /\ th[t].step \in {"again", "send"} <=> th[t].ports # None
           /\ th[t].step \notin {"local", "again", "send"} => Free(t, p)
  BY NoneNoPort DEF CallsInv, LocalsInv, Free

\* The steps that hold no end make a pair, enter its near end, and ask for a merge.
LEMMA EndPair ==
    ASSUME HInv, CallsInv, NEW c \in Call, EndInv(c), NEW t \in Thread,
           CreatePortPair(t) \/ AddPipe(t) \/ MergePortIntoInviter(t)
    PROVE  EndInv(c)' /\ Survives(t, c)
<1>1. PICK p \in Port : p = <<c, 1>>
  BY EndsApart
<1>2. /\ th[t] # None /\ th[t].step \in {"pair", "handle", "merge"}
      /\ attached' = attached /\ sent' = sent
  BY DEF CreatePortPair, AddPipe, MergePortIntoInviter, At
<1>3. Free(t, p)
  BY <1>2, LocalsFree
<1>4. th[t].call \in Call /\ Pipe(<<th[t].call, 0>>) \in Dispatcher
  BY <1>2, FrameFacts
<1>5. MOJO_HANDLE_INVALID \in Handle /\ None \in Port \cup {None} /\ None \in Ports \cup {None}
  BY NoHandle
<1>6. InTable(p)' = InTable(p) /\ Free(t, p)'
  <2>1. CASE CreatePortPair(t)
    <3>1. handles' = handles /\ Goto(t, "handle", MOJO_HANDLE_INVALID, None, None)
      BY <2>1 DEF CreatePortPair
    <3>2. th'[t].port = None /\ th'[t].ports = None
      BY <3>1, <1>2, <1>5, GotoFacts DEF Step
    <3> QED
      BY <3>1, <3>2, TableQuietly, NoneNoPort DEF Free
  <2>2. CASE AddPipe(t)
    <3>1. PICK h \in Handle :
            /\ AddDispatcher(Pipe(<<th[t].call, 0>>), h)
            /\ \/ Goto(t, "merge", h, None, None)
               \/ Leave(t, "RESOURCE_EXHAUSTED", h)
               \/ Goto(t, "put", h, None, None)
      BY <2>2 DEF AddPipe
    <3>2. Pipe(<<th[t].call, 0>>) # Pipe(p)
      BY <1>1, <1>4, EndsApart
    <3>3. InTable(p)' = InTable(p)
      BY <3>1, <3>2, <1>4, TableSame
    <3>4. th'[t] = None \/ (th'[t].port = None /\ th'[t].ports = None)
      BY <3>1, <1>2, <1>5, GotoFacts, LeaveFacts DEF Step, Code
    <3> QED
      BY <3>3, <3>4, NoneNoPort DEF Free
  <2>3. CASE MergePortIntoInviter(t)
    <3>1. handles' = handles
      BY <2>3 DEF MergePortIntoInviter
    <3>2. th'[t] = None
      BY <2>3 DEF MergePortIntoInviter, Leave, HInv, ApiTypeOK
    <3> QED
      BY <3>1, <3>2, TableQuietly DEF Free
  <2> QED
    BY <2>1, <2>2, <2>3
<1>7. AttachedAt(p)' = AttachedAt(p) /\ SentWith(p)' = SentWith(p)
  BY <1>2, AttachedSame, SentSame
<1>8. Continue(t)
  BY DEF Continue
<1> QED
  BY <1>1, <1>3, <1>6, <1>7, <1>8, EndStays


LEMMA EntryPlace ==
    ASSUME NEW p, NEW e \in Call \X Name
    PROVE  /\ <<"attached", e>> \in AttachedAt(p) <=> attached[e] = p
           /\ <<"attached", e>> \in AttachedAt(p)' <=> attached'[e] = p
<1>1. \A g : <<"attached", e>> = <<"attached", g>> => e = g
  OBVIOUS
<1> QED
  BY <1>1 DEF AttachedAt

\* An entry of attached_ports_ is set or erased: the other entries keep their ends.
LEMMA EntryOther ==
    ASSUME HInv, NEW p, NEW e \in Call \X Name, NEW q, attached' = [attached EXCEPT ![e] = q]
    PROVE  /\ \A x \in AttachedAt(p) : x # <<"attached", e>> => x \in AttachedAt(p)'
           /\ \A x \in AttachedAt(p)' : x # <<"attached", e>> => x \in AttachedAt(p)
           /\ <<"attached", e>> \in AttachedAt(p) <=> attached[e] = p
           /\ <<"attached", e>> \in AttachedAt(p)' <=> q = p
<1>1. attached'[e] = q /\ \A g \in Call \X Name : g # e => attached'[g] = attached[g]
  BY DEF HInv, ApiTypeOK
<1>2. \A x \in AttachedAt(p) : x # <<"attached", e>> => x \in AttachedAt(p)'
  BY <1>1 DEF AttachedAt
<1>3. \A x \in AttachedAt(p)' : x # <<"attached", e>> => x \in AttachedAt(p)
  BY <1>1 DEF AttachedAt
<1> QED
  BY <1>1, <1>2, <1>3, EntryPlace

\* AttachMessagePipe: the end is born, into the entry of its name.
LEMMA EndAttach ==
    ASSUME HInv, CallsInv, NEW c \in Call, EndInv(c), NEW t \in Thread, AttachMessagePipe(t)
    PROVE  EndInv(c)' /\ Survives(t, c)
<1>1. PICK p \in Port : p = <<c, 1>>
  BY EndsApart
<1>2. th[t] # None /\ th[t].step = "put" /\ handles' = handles /\ sent' = sent
  BY DEF AttachMessagePipe, At
<1>3. th[t].call \in Call /\ th[t].inv \in Call /\ th[t].name \in Name /\ th[t].handle \in Handle
  BY <1>2, FrameFacts
<1>4. PICK e \in Call \X Name : e = <<th[t].inv, th[t].name>>
  BY <1>3
<1>5. MOJO_HANDLE_INVALID \in Handle
  BY NoHandle
<1>6. \/ /\ attached[e] = None /\ attached' = [attached EXCEPT ![e] = <<th[t].call, 1>>]
         /\ Leave(t, "OK", th[t].handle)
      \/ attached' = attached /\ Leave(t, "ALREADY_EXISTS", MOJO_HANDLE_INVALID)
  BY <1>4 DEF AttachMessagePipe
<1>7. /\ th'[t] = None /\ \A u \in Thread : u # t => th'[u] = th[u]
      /\ result'[th[t].call] # None
  BY <1>2, <1>3, <1>5, <1>6, LeaveFacts DEF Code
<1>8. Free(t, p) /\ Free(t, p)' /\ InTable(p)' = InTable(p) /\ SentWith(p)' = SentWith(p)
  BY <1>2, <1>7, LocalsFree, TableQuietly, SentSame DEF Free
<1>9. CASE AttachedAt(p)' = AttachedAt(p)
  BY <1>1, <1>8, <1>9, EndStays DEF Continue
<1>10. CASE AttachedAt(p)' # AttachedAt(p)
  <2>1. attached[e] = None /\ attached' = [attached EXCEPT ![e] = <<th[t].call, 1>>]
    BY <1>6, <1>10, AttachedSame
  <2>2. /\ \A x \in AttachedAt(p) : x # <<"attached", e>> => x \in AttachedAt(p)'
        /\ \A x \in AttachedAt(p)' : x # <<"attached", e>> => x \in AttachedAt(p)
        /\ <<"attached", e>> \notin AttachedAt(p)
        /\ <<"attached", e>> \in AttachedAt(p)' <=> <<th[t].call, 1>> = p
    <3>1. PICK q : q = <<th[t].call, 1>>
      OBVIOUS
    <3>2. attached' = [attached EXCEPT ![e] = q]
      BY <2>1, <3>1
    <3>3. attached[e] # p
      BY <2>1, NoneNoPort
    <3>4. /\ \A x \in AttachedAt(p) : x # <<"attached", e>> => x \in AttachedAt(p)'
          /\ \A x \in AttachedAt(p)' : x # <<"attached", e>> => x \in AttachedAt(p)
      BY <3>2, EntryOther
    <3>5. /\ <<"attached", e>> \in AttachedAt(p) <=> attached[e] = p
          /\ <<"attached", e>> \in AttachedAt(p)' <=> q = p
      BY <3>2, EntryOther
    <3> QED
      BY <3>1, <3>3, <3>4, <3>5
  <2>3. <<th[t].call, 1>> = p
    <3>1. CASE <<th[t].call, 1>> # p
      <4>1. \A x : x \in AttachedAt(p)' <=> x \in AttachedAt(p)
        BY <2>2, <3>1
      <4> QED
        BY <4>1, <1>10
    <3> QED
      BY <3>1
  <2>4. th[t].call = c
    BY <2>3, <1>1
  <2>5. result[c] = None /\ result'[c] # None
    BY <2>4, <1>2, <1>7 DEF CallsInv, CallsOwn
  <2>6. Places(p) = {}
    BY <2>5, <1>1 DEF EndInv
  <2>7. \A x \in Places(p)' : x = <<"attached", e>>
    <3>1. ExtractingBy(p)' = ExtractingBy(p) /\ SendingBy(p)' = SendingBy(p)
      BY <1>7, <1>8, ThreadSame
    <3> QED
      BY <2>2, <2>6, <3>1, <1>8 DEF Places
  <2>8. \A x \in Places(<<c, 1>>)' : x = <<"attached", e>>
    BY <2>7, <1>1
  <2> QED
    BY <2>5, <2>6, <2>8, <1>1 DEF EndInv, AtMostOne, Survives
<1> QED
  BY <1>9, <1>10


\* ExtractMessagePipe: the end goes from its entry to the thread.
LEMMA EndExtract ==
    ASSUME HInv, CallsInv, NEW c \in Call, EndInv(c), NEW t \in Thread, ExtractMessagePipe(t)
    PROVE  EndInv(c)' /\ Survives(t, c)
<1>1. PICK p \in Port : p = <<c, 1>>
  BY EndsApart
<1>2. /\ th[t] # None /\ th[t].step = "look" /\ handles' = handles /\ sent' = sent
      /\ Continue(t)
  BY DEF ExtractMessagePipe, At, Continue
<1>3. th[t].inv \in Call /\ th[t].name \in Name
  BY <1>2, FrameFacts
<1>4. PICK e \in Call \X Name : e = <<th[t].inv, th[t].name>>
  BY <1>3
<1>5. PICK q \in Port \cup {None} : q = attached[e]
  BY DEF HInv, ApiTypeOK
<1>6. MOJO_HANDLE_INVALID \in Handle /\ None \in Port \cup {None} /\ None \in Ports \cup {None}
  BY NoHandle
<1>7. \/ /\ q = None /\ attached' = attached
         /\ Goto(t, "pair", MOJO_HANDLE_INVALID, None, None)
      \/ /\ q # None /\ attached' = [attached EXCEPT ![e] = None]
         /\ Goto(t, "local", MOJO_HANDLE_INVALID, q, None)
  BY <1>4, <1>5 DEF ExtractMessagePipe
<1>8. /\ th'[t] # None /\ th'[t].ports = None
      /\ th'[t].port = q
      /\ \A u \in Thread : u # t => th'[u] = th[u]
  BY <1>2, <1>6, <1>7, GotoFacts DEF Step
<1>9. Free(t, p) /\ InTable(p)' = InTable(p) /\ SentWith(p)' = SentWith(p)
  BY <1>2, LocalsFree, TableQuietly, SentSame
<1>10. CASE q # p
  <2>1. Free(t, p)'
    BY <1>8, <1>10 DEF Free
  <2>2. AttachedAt(p)' = AttachedAt(p)
    <3>1. CASE attached' = attached
      BY <3>1, AttachedSame
    <3>2. CASE attached' = [attached EXCEPT ![e] = None]
      <4>1. /\ \A x \in AttachedAt(p) : x # <<"attached", e>> => x \in AttachedAt(p)'
            /\ \A x \in AttachedAt(p)' : x # <<"attached", e>> => x \in AttachedAt(p)
            /\ <<"attached", e>> \in AttachedAt(p) <=> attached[e] = p
            /\ <<"attached", e>> \in AttachedAt(p)' <=> None = p
        BY <3>2, EntryOther
      <4>2. \A x : x \in AttachedAt(p)' <=> x \in AttachedAt(p)
        BY <4>1, <1>5, <1>10, NoneNoPort
      <4> QED
        BY <4>2
    <3> QED
      BY <1>7, <3>1, <3>2
  <2> QED
    BY <2>1, <2>2, <1>1, <1>2, <1>9, EndStays
<1>11. CASE q = p
  <2>1. attached' = [attached EXCEPT ![e] = None] /\ attached[e] = p
    BY <1>5, <1>7, <1>11, NoneNoPort
  <2>2. /\ \A x \in AttachedAt(p)' : x # <<"attached", e>> => x \in AttachedAt(p)
        /\ <<"attached", e>> \in AttachedAt(p)
        /\ <<"attached", e>> \notin AttachedAt(p)'
    <3>1. /\ \A x \in AttachedAt(p)' : x # <<"attached", e>> => x \in AttachedAt(p)
          /\ <<"attached", e>> \in AttachedAt(p) <=> attached[e] = p
          /\ <<"attached", e>> \in AttachedAt(p)' <=> None = p
      BY <2>1, EntryOther
    <3> QED
      BY <3>1, <2>1, NoneNoPort
  <2>3. /\ \A x \in ExtractingBy(p)' : x # <<"extracting", t>> => x \in ExtractingBy(p)
        /\ <<"extracting", t>> \in ExtractingBy(p)'
    BY <1>8, <1>11, ExtractingOther
  <2>4. /\ \A x \in SendingBy(p)' : x # <<"sending", t>> => x \in SendingBy(p)
        /\ <<"sending", t>> \notin SendingBy(p)'
    BY <1>8, SendingOther
  <2>5. PICK x : x = <<"attached", e>>
    OBVIOUS
  <2>6. PICK y : y = <<"extracting", t>>
    OBVIOUS
  <2>7. x \in Places(p) /\ y \in Places(p)'
    BY <2>2, <2>3, <2>5, <2>6 DEF Places
  <2>8. x[1] = "attached"
    BY <2>5
  <2>9. \A z \in Places(p)' : z = y \/ (z # x /\ z \in Places(p))
    BY <2>2, <2>3, <2>4, <2>5, <2>6, <2>8, <1>9, PlaceKinds DEF Places
  <2> QED
    BY <2>7, <2>9, <1>1, <1>2, EndTaken
<1> QED
  BY <1>10, <1>11

\* AddExtracted: from the thread to the table, unless the handles are exhausted.
LEMMA EndExtracted ==
    ASSUME HInv, CallsInv, NEW c \in Call, EndInv(c), NEW t \in Thread, AddExtracted(t)
    PROVE  EndInv(c)' /\ Survives(t, c)
<1>1. PICK p \in Port : p = <<c, 1>>
  BY EndsApart
<1>2. /\ th[t] # None /\ th[t].step = "local" /\ attached' = attached /\ sent' = sent
      /\ Continue(t)
  BY DEF AddExtracted, At, Continue
<1>3. PICK q \in Port : q = th[t].port
  BY <1>2, FrameFacts
<1>4. th[t].ports = None
  BY <1>2, LocalsFree, <1>1
<1>5. MOJO_HANDLE_INVALID \in Handle /\ None \in Port \cup {None} /\ None \in Ports \cup {None}
  BY NoHandle
<1>6. PICK h \in Handle :
        /\ AddDispatcher(Pipe(q), h)
        /\ Goto(t, "pair", h, None, None) \/ Leave(t, "OK", h)
  BY <1>3 DEF AddExtracted
<1>7. Pipe(q) \in Dispatcher
  BY DEF Dispatcher
<1>8. \/ th'[t] = None
      \/ th'[t].port = None /\ th'[t].ports = None
  BY <1>2, <1>5, <1>6, GotoFacts, LeaveFacts DEF Step, Code
<1>9. /\ Free(t, p)'
      /\ AttachedAt(p)' = AttachedAt(p) /\ SentWith(p)' = SentWith(p)
      /\ \A u \in Thread : u # t => th'[u] = th[u]
  BY <1>2, <1>8, ResultsStay, AttachedSame, SentSame, NoneNoPort DEF Free
<1>10. CASE q # p
  <2>1. Pipe(q) # Pipe(p)
    <3>1. Pipe(q).port = q /\ Pipe(p).port = p
      BY DEF Pipe
    <3> QED
      BY <3>1, <1>10
  <2>2. InTable(p)' = InTable(p)
    BY <2>1, <1>6, <1>7, TableSame
  <2>3. Free(t, p)
    BY <1>3, <1>4, <1>10 DEF Free
  <2> QED
    BY <2>2, <2>3, <1>1, <1>2, <1>9, EndStays
<1>11. CASE q = p
  <2>1. /\ \A x \in ExtractingBy(p)' : x # <<"extracting", t>> => x \in ExtractingBy(p)
        /\ <<"extracting", t>> \notin ExtractingBy(p)'
        /\ <<"extracting", t>> \in ExtractingBy(p)
    BY <1>2, <1>3, <1>9, <1>11, ExtractingOther DEF Free
  <2>2. /\ \A x \in SendingBy(p)' : x # <<"sending", t>> => x \in SendingBy(p)
        /\ <<"sending", t>> \notin SendingBy(p)'
    BY <1>9, SendingOther DEF Free
  <2>3. PICK x : x = <<"extracting", t>>
    OBVIOUS
  <2>4. PICK y : y = <<"table", h>>
    OBVIOUS
  <2>5. x \in Places(p) /\ x[1] = "extracting"
    BY <2>1, <2>3 DEF Places
  <2>6. \A g \in Handle : handles'[g] = Pipe(p) => g = h \/ handles[g] = Pipe(p)
    BY <1>6, <1>7, AddFacts
  <2>7. \A z \in InTable(p)' : z = y \/ z \in InTable(p)
    <3>1. \A z \in InTable(p)' : \E g \in Handle : z = <<"table", g>> /\ handles'[g] = Pipe(p)
      BY DEF InTable, Pipe
    <3> QED
      BY <3>1, <2>4, <2>6 DEF InTable
  <2>8. \A z \in Places(p)' : z = y \/ (z # x /\ z \in Places(p))
    BY <2>1, <2>2, <2>3, <2>5, <2>7, <1>9, PlaceKinds DEF Places
  <2>9. CASE next # MOJO_HANDLE_INVALID
    <3>1. handles'[h] = Pipe(p)
      BY <2>9, <1>6, <1>7, <1>11, AddFacts
    <3>2. y \in InTable(p)'
      BY <3>1, <2>4 DEF InTable, Pipe
    <3>3. y \in Places(p)'
      BY <3>2 DEF Places
    <3> QED
      BY <2>5, <2>8, <3>3, <1>1, <1>2, EndTaken
  <2>10. CASE next = MOJO_HANDLE_INVALID
    <3>1. LostBy(t, p)
      BY <2>10, <1>2, <1>3, <1>11 DEF LostBy, At
    <3>2. \A d \in Call : result[d] # None => result'[d] = result[d]
      BY <1>2, ResultsStay
    <3> QED
      BY <2>5, <2>8, <3>1, <3>2, <1>1, EndMoved DEF Survives
  <2> QED
    BY <2>9, <2>10
<1> QED
  BY <1>10, <1>11


LEMMA EmptiedOther ==
    ASSUME HInv, NEW p \in Port, NEW i \in Call, attached' = Emptied(i)
    PROVE  /\ \A x \in AttachedAt(p)' : x \in AttachedAt(p)
           /\ \A e \in Call \X Name : attached[e] = p /\ e[1] # i
                                        => <<"attached", e>> \in AttachedAt(p)'
           /\ \A e \in Call \X Name : e[1] = i => <<"attached", e>> \notin AttachedAt(p)'
<1>1. \A e \in Call \X Name : attached'[e] = IF e[1] = i THEN None ELSE attached[e]
  BY DEF Emptied
<1>2. p # None
  BY NoneNoPort
<1>3. \A x \in AttachedAt(p)' : x \in AttachedAt(p)
  BY <1>1, <1>2 DEF AttachedAt
<1> QED
  BY <1>1, <1>2, <1>3, EntryPlace

\* TakeAttachPorts: from an entry of the invitation to the thread that sends it.
LEMMA EndTake ==
    ASSUME HInv, CallsInv, NEW c \in Call, EndInv(c), NEW t \in Thread, TakeAttachPorts(t)
    PROVE  EndInv(c)' /\ Survives(t, c)
<1>1. PICK p \in Port : p = <<c, 1>>
  BY EndsApart
<1>2. /\ th[t] # None /\ th[t].step = "take" /\ handles' = handles /\ sent' = sent
      /\ Continue(t)
  BY DEF TakeAttachPorts, At, Continue
<1>3. PICK i \in Call : i = th[t].inv
  BY <1>2, FrameFacts
<1>4. PICK ps \in Ports : ps = Attached(i)
  BY EmptiedTyped
<1>5. MOJO_HANDLE_INVALID \in Handle /\ None \in Port \cup {None}
  BY NoHandle
<1>6. attached' = Emptied(i) /\ Goto(t, "again", MOJO_HANDLE_INVALID, None, ps)
  BY <1>3, <1>4 DEF TakeAttachPorts
<1>7. /\ th'[t] # None /\ th'[t].port = None /\ th'[t].ports = ps /\ ps # None
      /\ \A u \in Thread : u # t => th'[u] = th[u]
  BY <1>2, <1>5, <1>6, GotoFacts, LocalsAssumption DEF Step
<1>8. Free(t, p) /\ InTable(p)' = InTable(p) /\ SentWith(p)' = SentWith(p)
  BY <1>2, LocalsFree, TableQuietly, SentSame
<1>9. \A m \in Name : ps[m] = attached[<<i, m>>]
  BY <1>4 DEF Attached
<1>10. /\ \A x \in AttachedAt(p)' : x \in AttachedAt(p)
       /\ \A e \in Call \X Name : attached[e] = p /\ e[1] # i => <<"attached", e>> \in AttachedAt(p)'
       /\ \A e \in Call \X Name : e[1] = i => <<"attached", e>> \notin AttachedAt(p)'
  BY <1>6, EmptiedOther
<1>11. CASE \A m \in Name : ps[m] # p
  <2>1. Free(t, p)'
    BY <1>7, <1>11, NoneNoPort DEF Free
  <2>2. \A e \in Call \X Name : attached[e] = p => e[1] # i
    BY <1>9, <1>11
  <2>3. \A x : x \in AttachedAt(p)' <=> x \in AttachedAt(p)
    <3>1. \A x \in AttachedAt(p) : \E e \in Call \X Name : x = <<"attached", e>> /\ attached[e] = p
      BY DEF AttachedAt
    <3> QED
      BY <3>1, <2>2, <1>10
  <2>4. AttachedAt(p)' = AttachedAt(p)
    BY <2>3
  <2> QED
    BY <2>1, <2>4, <1>1, <1>2, <1>8, EndStays
<1>12. CASE \E m \in Name : ps[m] = p
  <2>1. PICK m \in Name : ps[m] = p
    BY <1>12
  <2>2. PICK e \in Call \X Name : e = <<i, m>>
    OBVIOUS
  <2>3. attached[e] = p /\ e[1] = i
    BY <2>1, <2>2, <1>9
  <2>4. <<"attached", e>> \in AttachedAt(p) /\ <<"attached", e>> \notin AttachedAt(p)'
    BY <2>3, <1>10, EntryPlace
  <2>5. /\ \A x \in ExtractingBy(p)' : x # <<"extracting", t>> => x \in ExtractingBy(p)
        /\ <<"extracting", t>> \notin ExtractingBy(p)'
    BY <1>7, ExtractingOther, NoneNoPort
  <2>6. /\ \A x \in SendingBy(p)' : x # <<"sending", t>> => x \in SendingBy(p)
        /\ <<"sending", t>> \in SendingBy(p)'
    BY <2>1, <1>7, SendingOther
  <2>7. PICK x : x = <<"attached", e>>
    OBVIOUS
  <2>8. PICK y : y = <<"sending", t>>
    OBVIOUS
  <2>9. x \in Places(p) /\ y \in Places(p)' /\ x[1] = "attached"
    BY <2>4, <2>6, <2>7, <2>8 DEF Places
  <2>10. \A z \in Places(p)' : z = y \/ (z # x /\ z \in Places(p))
    BY <2>4, <2>5, <2>6, <2>7, <2>8, <2>9, <1>8, <1>10, PlaceKinds DEF Places
  <2> QED
    BY <2>9, <2>10, <1>1, <1>2, EndTaken
<1> QED
  BY <1>11, <1>12


\* The second TakeAttachPorts: what has been attached since is lost.
LEMMA EndTakeAgain ==
    ASSUME HInv, CallsInv, NEW c \in Call, EndInv(c), NEW t \in Thread, TakeAgain(t)
    PROVE  EndInv(c)' /\ Survives(t, c)
<1>1. PICK p \in Port : p = <<c, 1>>
  BY EndsApart
<1>2. /\ th[t] # None /\ th[t].step = "again" /\ handles' = handles /\ sent' = sent
      /\ Continue(t)
  BY DEF TakeAgain, At, Continue
<1>3. PICK i \in Call : i = th[t].inv
  BY <1>2, FrameFacts
<1>4. PICK ps \in Ports \cup {None} : ps = th[t].ports
  BY <1>2, FrameFacts
<1>5. MOJO_HANDLE_INVALID \in Handle /\ None \in Port \cup {None}
  BY NoHandle
<1>6. attached' = Emptied(i) /\ Goto(t, "send", MOJO_HANDLE_INVALID, None, ps)
  BY <1>3, <1>4 DEF TakeAgain
<1>7. /\ th'[t] # None /\ th'[t].port = None /\ th'[t].ports = ps
      /\ th[t].port = None /\ ps # None
      /\ \A u \in Thread : u # t => th'[u] = th[u]
  BY <1>1, <1>2, <1>4, <1>5, <1>6, GotoFacts, LocalsFree DEF Step
<1>8. InTable(p)' = InTable(p) /\ SentWith(p)' = SentWith(p)
  BY <1>2, TableQuietly, SentSame
<1>9. /\ \A x \in AttachedAt(p)' : x \in AttachedAt(p)
      /\ \A e \in Call \X Name : attached[e] = p /\ e[1] # i => <<"attached", e>> \in AttachedAt(p)'
  BY <1>6, EmptiedOther
<1>10. \A x : x \in ExtractingBy(p)' <=> x \in ExtractingBy(p)
  <2>1. /\ \A x \in ExtractingBy(p) : x # <<"extracting", t>> => x \in ExtractingBy(p)'
        /\ \A x \in ExtractingBy(p)' : x # <<"extracting", t>> => x \in ExtractingBy(p)
    BY <1>7, ExtractingOther
  <2>2. <<"extracting", t>> \in ExtractingBy(p)' <=> <<"extracting", t>> \in ExtractingBy(p)
    BY <1>2, <1>7, ExtractingOther
  <2> QED
    BY <2>1, <2>2
<1>11. \A x : x \in SendingBy(p)' <=> x \in SendingBy(p)
  <2>1. /\ \A x \in SendingBy(p) : x # <<"sending", t>> => x \in SendingBy(p)'
        /\ \A x \in SendingBy(p)' : x # <<"sending", t>> => x \in SendingBy(p)
    BY <1>7, SendingOther
  <2>2. <<"sending", t>> \in SendingBy(p)' <=> <<"sending", t>> \in SendingBy(p)
    BY <1>2, <1>4, <1>7, SendingOther
  <2> QED
    BY <2>1, <2>2
<1>12. \A z \in Places(p)' : z \in Places(p)
  BY <1>8, <1>9, <1>10, <1>11 DEF Places
<1>13. EndInv(c)'
  <2>1. AtMostOne(Places(p)) /\ (result[c] = None => Places(p) = {})
    BY <1>1 DEF EndInv
  <2>2. \A x, y \in Places(p)' : x = y
    BY <2>1, <1>12 DEF AtMostOne
  <2>3. result' = result
    BY DEF TakeAgain
  <2>4. result'[c] = None => Places(p)' = {}
    BY <2>1, <2>3, <1>12
  <2> QED
    BY <2>2, <2>4, <1>1 DEF EndInv, AtMostOne
<1>14. ASSUME Places(p) # {}, Places(p)' = {} PROVE LostBy(t, p)
  <2>1. PICK x : x \in Places(p) /\ x \notin Places(p)'
    BY <1>14
  <2>2. x \in AttachedAt(p) /\ x \notin AttachedAt(p)'
    BY <2>1, <1>8, <1>10, <1>11 DEF Places
  <2>3. PICK e \in Call \X Name : x = <<"attached", e>> /\ attached[e] = p
    BY <2>2 DEF AttachedAt
  <2>4. e[1] = i
    BY <2>2, <2>3, <1>9
  <2>5. PICK m \in Name : e = <<i, m>>
    BY <2>4
  <2>6. <<"sending", t>> \notin SendingBy(p)
    BY <1>11, <1>14 DEF Places
  <2>7. ps[m] # p
    BY <2>6, <1>2, <1>4, <1>7, SendingOther DEF SendingBy
  <2> QED
    BY <2>3, <2>5, <2>7, <1>2, <1>3, <1>4 DEF LostBy, At
<1> QED
  BY <1>1, <1>13, <1>14 DEF Survives

\* SendInvitation: from the thread to the invitation that was sent.
LEMMA EndSend ==
    ASSUME HInv, CallsInv, NEW c \in Call, EndInv(c), NEW t \in Thread, SendInvitation(t)
    PROVE  EndInv(c)' /\ Survives(t, c)
<1>1. PICK p \in Port : p = <<c, 1>>
  BY EndsApart
<1>2. /\ th[t] # None /\ th[t].step = "send" /\ handles' = handles /\ attached' = attached
      /\ Continue(t)
  BY DEF SendInvitation, At, Continue
<1>3. PICK d \in Call : d = th[t].call
  BY <1>2, FrameFacts
<1>4. PICK ps \in Ports \cup {None} : ps = th[t].ports
  BY <1>2, FrameFacts
<1>5. th[t].port = None /\ ps # None
  BY <1>1, <1>2, <1>4, LocalsFree
<1>6. sent[d] = None
  BY <1>2, <1>3 DEF CallsInv, CallsOwn, SentInv
<1>7. sent' = [sent EXCEPT ![d] = ps] /\ th'[t] = None
  BY <1>3, <1>4 DEF SendInvitation, Leave, HInv, ApiTypeOK
<1>8. sent'[d] = ps /\ \A f \in Call : f # d => sent'[f] = sent[f]
  BY <1>7 DEF HInv, ApiTypeOK
<1>9. \A u \in Thread : u # t => th'[u] = th[u]
  BY <1>2, ResultsStay
<1>10. Free(t, p)' /\ InTable(p)' = InTable(p) /\ AttachedAt(p)' = AttachedAt(p)
  BY <1>2, <1>7, TableQuietly, AttachedSame DEF Free
<1>11. PICK y : y = <<"sent", d>>
  OBVIOUS
<1>12. /\ \A z \in SentWith(p)' : z = y \/ z \in SentWith(p)
       /\ \A z \in SentWith(p) : z \in SentWith(p)'
       /\ y \in SentWith(p)' <=> \E m \in Name : ps[m] = p
  BY <1>5, <1>6, <1>8, <1>11 DEF SentWith
<1>13. CASE \A m \in Name : ps[m] # p
  <2>1. y \notin SentWith(p)'
    BY <1>12, <1>13
  <2>2. \A z : z \in SentWith(p)' <=> z \in SentWith(p)
    BY <2>1, <1>12
  <2>3. SentWith(p)' = SentWith(p)
    BY <2>2
  <2>4. Free(t, p)
    BY <1>4, <1>5, <1>13, NoneNoPort DEF Free
  <2> QED
    BY <2>3, <2>4, <1>1, <1>2, <1>10, EndStays
<1>14. CASE \E m \in Name : ps[m] = p
  <2>1. /\ \A x \in ExtractingBy(p)' : x # <<"extracting", t>> => x \in ExtractingBy(p)
        /\ <<"extracting", t>> \notin ExtractingBy(p)'
    BY <1>7, <1>9, ExtractingOther
  <2>2. /\ \A x \in SendingBy(p)' : x # <<"sending", t>> => x \in SendingBy(p)
        /\ <<"sending", t>> \notin SendingBy(p)'
        /\ <<"sending", t>> \in SendingBy(p)
    BY <1>2, <1>4, <1>5, <1>7, <1>9, <1>14, SendingOther
  <2>3. PICK x : x = <<"sending", t>>
    OBVIOUS
  <2>4. x \in Places(p) /\ y \in Places(p)' /\ x[1] = "sending"
    BY <2>2, <2>3, <1>12, <1>14 DEF Places
  <2>5. \A z \in Places(p)' : z = y \/ (z # x /\ z \in Places(p))
    BY <2>1, <2>2, <2>3, <2>4, <1>10, <1>12, PlaceKinds DEF Places
  <2> QED
    BY <2>4, <2>5, <1>1, <1>2, EndTaken
<1> QED
  BY <1>13, <1>14


LEMMA EndContinue ==
    ASSUME HInv, CallsInv, NEW c \in Call, EndInv(c), NEW t \in Thread, Continue(t)
    PROVE  EndInv(c)' /\ Survives(t, c)
  BY EndPair, EndAttach, EndExtract, EndExtracted, EndTake, EndTakeAgain, EndSend DEF Continue

LEMMA EndsInvInit == ApiInit => EndsInv
<1> SUFFICES ASSUME ApiInit, NEW c \in Call PROVE EndInv(c)
  BY DEF EndsInv
<1>1. PICK p \in Port : p = <<c, 1>>
  BY EndsApart
<1>2. p # None
  BY NoneNoPort
<1>3. /\ \A h \in Handle : handles[h] = None
      /\ \A e \in Call \X Name : attached[e] = None
      /\ \A d \in Call : sent[d] = None
      /\ \A t \in Thread : th[t] = None
  BY DEF ApiInit
<1>4. Pipe(p) # None
  <2>1. Pipe(p) \in Dispatcher
    BY DEF Dispatcher
  <2> QED
    BY <2>1, TableAssumption
<1>5. AttachedAt(p) = {} /\ InTable(p) = {}
  BY <1>2, <1>3, <1>4 DEF AttachedAt, InTable
<1>6. ExtractingBy(p) = {} /\ SendingBy(p) = {} /\ SentWith(p) = {}
  BY <1>3 DEF ExtractingBy, SendingBy, SentWith
<1>7. Places(p) = {}
  BY <1>5, <1>6 DEF Places
<1> QED
  BY <1>1, <1>7 DEF EndInv, AtMostOne

LEMMA PlacesUnchanged ==
    ASSUME NEW p, UNCHANGED apiVars
    PROVE  Places(p)' = Places(p)
<1>1. UNCHANGED <<handles, attached, sent, th>>
  BY DEF apiVars
<1>2. ExtractingBy(p)' = ExtractingBy(p) /\ SendingBy(p)' = SendingBy(p)
  BY <1>1 DEF ExtractingBy, SendingBy
<1> QED
  BY <1>1, <1>2, PlacesSame, AttachedSame, TableQuietly, SentSame

LEMMA EndsInvNext == HInv /\ CallsInv /\ EndsInv /\ [ApiNext]_apiVars => EndsInv'
<1> SUFFICES ASSUME HInv, CallsInv, EndsInv, [ApiNext]_apiVars, NEW c \in Call
             PROVE  EndInv(c)'
  BY DEF EndsInv
<1>1. EndInv(c)
  BY DEF EndsInv
<1>2. CASE UNCHANGED apiVars
  <2>1. result' = result
    BY <1>2 DEF apiVars
  <2> QED
    BY <2>1, <1>1, <1>2, PlacesUnchanged, EndSame
<1>3. CASE \E t \in Thread : Begin(t)
  BY <1>1, <1>3, EndBegin
<1>4. CASE \E t \in Thread : Continue(t)
  BY <1>1, <1>4, EndContinue
<1> QED
  BY <1>2, <1>3, <1>4 DEF ApiNext

LEMMA EndsInvAlways == ApiSpec => []EndsInv
  BY EndsInvInit, EndsInvNext, HInvAlways, CallsInvAlways, PTL DEF ApiSpec

\* Threads that attach, extract and send on one invitation never share an end: it is sent to
\* one invitee, or extracted, and only once, whatever the order of their critical sections.
THEOREM OnePlaceCorrect == ApiSpec => []OnePlace
<1>1. EndsInv => OnePlace
  <2> SUFFICES ASSUME EndsInv, NEW c \in Call PROVE Cardinality(Places(<<c, 1>>)) <= 1
    BY DEF OnePlace
  <2>1. \A x, y \in Places(<<c, 1>>) : x = y
    BY DEF EndsInv, EndInv, AtMostOne
  <2>2. CASE Places(<<c, 1>>) = {}
    BY <2>2, FS_EmptySet
  <2>3. CASE Places(<<c, 1>>) # {}
    <3>1. PICK x : Places(<<c, 1>>) = {x}
      BY <2>1, <2>3
    <3> QED
      BY <3>1, FS_Singleton
  <2> QED
    BY <2>2, <2>3
<1> QED
  BY <1>1, EndsInvAlways, PTL

\* An attached end disappears in two ways only: the second TakeAttachPorts of SendInvitation
\* drops what was attached since the first, or the extraction finds the handles exhausted.
THEOREM LostInTwoWaysCorrect == ApiSpec => LostInTwoWays
<1> DEFINE Explained(c) == LET p == <<c, 1>>
                       IN  Places(p) # {} /\ Places(p)' = {} =>
                             \E t \in Thread :
                               \/ At(t, "again") /\ \E m \in Name : /\ attached[<<th[t].inv, m>>] = p
                                                                    /\ th[t].ports[m] # p
                               \/ At(t, "local") /\ th[t].port = p /\ next = MOJO_HANDLE_INVALID
<1>1. ASSUME HInv, CallsInv, EndsInv, [ApiNext]_apiVars
      PROVE  [\A c \in Call : Explained(c)]_apiVars
  <2> SUFFICES ASSUME ApiNext, NEW c \in Call PROVE Explained(c)
    BY <1>1
  <2> HIDE DEF Explained
  <2>1. EndInv(c)
    BY <1>1 DEF EndsInv
  <2>2. CASE \E t \in Thread : Begin(t)
    BY <2>1, <2>2, <1>1, EndBegin DEF Explained
  <2>3. CASE \E t \in Thread : Continue(t)
    BY <2>1, <2>3, <1>1, EndContinue DEF Explained, Survives, LostBy
  <2> QED
    BY <2>2, <2>3 DEF ApiNext
<1> QED
  BY <1>1, HInvAlways, CallsInvAlways, EndsInvAlways, PTL DEF ApiSpec, LostInTwoWays


=============================================================================
