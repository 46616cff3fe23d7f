------------------------------ MODULE MutexProofs ------------------------------
(***************************************************************************)
(* For any threads, locks and routines: regions of one lock exclude each   *)
(* other, and where locks are taken in the order of their ranks, no        *)
(* threads wait for each other.  For the API calls and callbacks of a      *)
(* process, any channels and any threads: they keep that order, and every  *)
(* member but the ones in Unguarded has a lock, or a thread, of its own.   *)
(***************************************************************************)
EXTENDS Threads, SequenceTheorems, WellFoundedInduction, TLAPS

RunTypeOK ==
    /\ run \in [Thread -> Routine \cup {None}]
    /\ pos \in [Thread -> Nat]
    /\ \A t \in Thread : Busy(t) => pos[t] \in DOMAIN Prog[run[t]]
    /\ owner \in [Lock -> Thread \cup {None}]

\* A thread owns the locks of its regions, and no other.
Owned ==
    /\ \A t \in Thread : HeldBy(t) \subseteq Lock
    /\ \A t \in Thread : \A l \in Lock : owner[l] = t <=> l \in HeldBy(t)

MInv == RunTypeOK /\ Owned

-----------------------------------------------------------------------------
\* After Advance a thread is at the next step, or has returned and holds nothing; the other
\* threads are where they were.
LEMMA AdvanceHeld ==
    ASSUME RunTypeOK, NEW t \in Thread, Busy(t), Advance(t)
    PROVE  /\ HeldBy(t)' = HeldAt(run[t], pos[t] + 1)
           /\ \A u \in Thread : u # t => HeldBy(u)' = HeldBy(u)
           /\ run' \in [Thread -> Routine \cup {None}]
           /\ pos' \in [Thread -> Nat]
           /\ \A u \in Thread : Busy(u)' => pos'[u] \in DOMAIN Prog[run'[u]]
<1> DEFINE r == run[t]  i == pos[t]
<1>1. r \in Routine /\ r # None /\ i \in Nat
  BY DEF RunTypeOK, Busy
<1>2. Len(Prog[r]) \in Nat /\ DOMAIN Prog[r] = 1 .. Len(Prog[r])
  BY <1>1, MutexAssumption
<1>3. i \in 1 .. Len(Prog[r])
  BY <1>2 DEF RunTypeOK
<1>4. \A u \in Thread : u # t => run'[u] = run[u] /\ pos'[u] = pos[u]
  BY DEF Advance, RunTypeOK
<1>5. \A u \in Thread : u # t => HeldBy(u)' = HeldBy(u)
  BY <1>4 DEF HeldBy, Busy
<1>6. CASE i < Len(Prog[r])
  <2>1. run' = run /\ pos' = [pos EXCEPT ![t] = i + 1]
    BY <1>6 DEF Advance
  <2>2. pos' \in [Thread -> Nat] /\ pos'[t] = i + 1
    BY <2>1, <1>1 DEF RunTypeOK
  <2>3. i + 1 \in 1 .. Len(Prog[r])
    BY <1>6, <1>3, <1>2
  <2>4. HeldBy(t)' = HeldAt(r, i + 1)
    BY <2>1, <2>2, <1>1 DEF HeldBy, Busy
  <2>5. \A u \in Thread : Busy(u)' => pos'[u] \in DOMAIN Prog[run'[u]]
    BY <2>1, <2>2, <2>3, <1>2, <1>4 DEF RunTypeOK, Busy
  <2> QED
    BY <2>1, <2>2, <2>4, <2>5, <1>5 DEF RunTypeOK
<1>7. CASE ~ (i < Len(Prog[r]))
  <2>1. run' = [run EXCEPT ![t] = None] /\ pos' = [pos EXCEPT ![t] = 1]
    BY <1>7 DEF Advance
  <2>2. /\ run' \in [Thread -> Routine \cup {None}] /\ run'[t] = None
        /\ pos' \in [Thread -> Nat]
    BY <2>1 DEF RunTypeOK
  <2>3. i + 1 \notin DOMAIN Prog[r]
    BY <1>7, <1>3, <1>2
  <2>4. HeldAt(r, i + 1) = {} /\ HeldBy(t)' = {}
    BY <2>2, <2>3 DEF HeldAt, HeldBy, Busy
  <2>5. \A u \in Thread : Busy(u)' => pos'[u] \in DOMAIN Prog[run'[u]]
    BY <2>2, <1>4 DEF RunTypeOK, Busy
  <2> QED
    BY <2>2, <2>4, <2>5, <1>5
<1> QED
  BY <1>6, <1>7

\* The step that a thread is about to take is one of the four, and nests.
LEMMA StepNests ==
    ASSUME RunTypeOK, NEW t \in Thread, Busy(t)
    PROVE  /\ StepOf(t).do \in {"lock", "unlock", "get", "put"}
           /\ Nested(run[t], pos[t])
           /\ HeldBy(t) = StepOf(t).held
<1>1. run[t] \in Routine /\ pos[t] \in DOMAIN Prog[run[t]]
  BY DEF RunTypeOK, Busy
<1> QED
  BY <1>1, MutexAssumption DEF StepOf, HeldBy, HeldAt

-----------------------------------------------------------------------------
LEMMA InitMInv == MutexInit => MInv
<1> SUFFICES ASSUME MutexInit PROVE MInv
  OBVIOUS
<1>1. \A t \in Thread : ~ Busy(t) /\ HeldBy(t) = {}
  BY DEF MutexInit, Busy, HeldBy
<1>2. RunTypeOK
  BY <1>1 DEF MutexInit, RunTypeOK
<1>3. Owned
  BY <1>1, MutexAssumption DEF MutexInit, Owned
<1> QED
  BY <1>2, <1>3 DEF MInv

LEMMA CallMInv ==
    ASSUME MInv, NEW t \in Thread, NEW r \in Routine, Call(t, r)
    PROVE  MInv'
<1> USE DEF MInv
<1>1. /\ run' = [run EXCEPT ![t] = r] /\ pos' = [pos EXCEPT ![t] = 1]
      /\ owner' = owner /\ ~ Busy(t) /\ Prog[r] # <<>>
  BY DEF Call
<1>2. run' \in [Thread -> Routine \cup {None}] /\ pos' \in [Thread -> Nat]
  BY <1>1 DEF RunTypeOK
<1>3. run'[t] = r /\ pos'[t] = 1 /\ \A u \in Thread : u # t => run'[u] = run[u] /\ pos'[u] = pos[u]
  BY <1>1 DEF RunTypeOK
<1>4. HeldAt(r, 1) = {} /\ Len(Prog[r]) \in Nat /\ DOMAIN Prog[r] = 1 .. Len(Prog[r])
  BY MutexAssumption
<1>5. \A u \in Thread : HeldBy(u)' = HeldBy(u)
  <2>1. HeldBy(t)' = HeldAt(r, 1) /\ HeldBy(t) = {}
    BY <1>1, <1>3, MutexAssumption DEF HeldBy, Busy
  <2>2. \A u \in Thread : u # t => HeldBy(u)' = HeldBy(u)
    BY <1>3 DEF HeldBy, Busy
  <2> QED
    BY <2>1, <2>2, <1>4
<1>6. Owned'
  BY <1>1, <1>5 DEF Owned
<1>7. 1 \in DOMAIN Prog[r]
  BY <1>1, <1>4, MutexAssumption
<1>8. RunTypeOK'
  BY <1>1, <1>2, <1>3, <1>7 DEF RunTypeOK, Busy
<1> QED
  BY <1>6, <1>8

LEMMA LockMInv ==
    ASSUME MInv, NEW t \in Thread, LockMutex(t)
    PROVE  MInv'
<1> DEFINE l == StepOf(t).on
<1>1. RunTypeOK /\ Owned /\ Busy(t) /\ StepOf(t).do = "lock" /\ Advance(t)
  BY DEF MInv, LockMutex
<1>2. l \in Lock /\ HeldAt(run[t], pos[t] + 1) = HeldBy(t) \cup {l}
  BY <1>1, StepNests DEF Nested, StepOf
<1>3. owner[l] \in {None, t} /\ owner' = [owner EXCEPT ![l] = t]
  BY DEF LockMutex
<1>4. /\ HeldBy(t)' = HeldBy(t) \cup {l}
      /\ \A u \in Thread : u # t => HeldBy(u)' = HeldBy(u)
  BY <1>1, <1>2, AdvanceHeld
<1>5. RunTypeOK'
  <2>1. owner' \in [Lock -> Thread \cup {None}]
    BY <1>1, <1>3 DEF RunTypeOK
  <2> QED
    BY <2>1, <1>1, AdvanceHeld DEF RunTypeOK
<1>6. Owned'
  <2>1. /\ owner'[l] = t
        /\ \A m \in Lock : m # l => owner'[m] = owner[m]
    BY <1>1, <1>2, <1>3 DEF RunTypeOK
  <2>2. \A u \in Thread : u # t => l \notin HeldBy(u)
    BY <1>1, <1>2, <1>3, MutexAssumption DEF Owned
  <2>3. \A u \in Thread : HeldBy(u)' \subseteq Lock
    BY <1>1, <1>2, <1>4 DEF Owned
  <2>4. ASSUME NEW u \in Thread, NEW m \in Lock
        PROVE  owner'[m] = u <=> m \in HeldBy(u)'
    <3>1. CASE m = l
      BY <3>1, <2>1, <2>2, <1>4
    <3>2. CASE m # l
      BY <3>2, <2>1, <1>1, <1>4 DEF Owned
    <3> QED
      BY <3>1, <3>2
  <2> QED
    BY <2>3, <2>4 DEF Owned
<1> QED
  BY <1>5, <1>6 DEF MInv

LEMMA UnLockMInv ==
    ASSUME MInv, NEW t \in Thread, UnLockMutex(t)
    PROVE  MInv'
<1> DEFINE l == StepOf(t).on
           next == HeldAt(run[t], pos[t] + 1)
<1>1. RunTypeOK /\ Owned /\ Busy(t) /\ StepOf(t).do = "unlock" /\ Advance(t)
  BY DEF MInv, UnLockMutex
<1>2. l \in Lock /\ l \in HeldBy(t) /\ next \in {HeldBy(t), HeldBy(t) \ {l}}
  BY <1>1, StepNests DEF Nested, StepOf
<1>3. owner' = [owner EXCEPT ![l] = IF l \in next THEN t ELSE None]
  BY DEF UnLockMutex
<1>4. HeldBy(t)' = next /\ \A u \in Thread : u # t => HeldBy(u)' = HeldBy(u)
  BY <1>1, AdvanceHeld
<1>5. RunTypeOK'
  <2>1. owner' \in [Lock -> Thread \cup {None}]
    BY <1>1, <1>3 DEF RunTypeOK
  <2> QED
    BY <2>1, <1>1, AdvanceHeld DEF RunTypeOK
<1>6. Owned'
  <2>1. /\ owner'[l] = IF l \in next THEN t ELSE None
        /\ \A m \in Lock : m # l => owner'[m] = owner[m]
    BY <1>1, <1>2, <1>3 DEF RunTypeOK
  <2>2. \A u \in Thread : u # t => l \notin HeldBy(u)
    BY <1>1, <1>2 DEF Owned
  <2>3. \A u \in Thread : HeldBy(u)' \subseteq Lock
    BY <1>1, <1>2, <1>4 DEF Owned
  <2>4. ASSUME NEW u \in Thread, NEW m \in Lock
        PROVE  owner'[m] = u <=> m \in HeldBy(u)'
    <3>1. CASE m = l
      BY <3>1, <2>1, <2>2, <1>4, MutexAssumption
    <3>2. CASE m # l
      <4>1. m \in next <=> m \in HeldBy(t)
        BY <3>2, <1>2
      <4> QED
        BY <4>1, <3>2, <2>1, <1>1, <1>4 DEF Owned
    <3> QED
      BY <3>1, <3>2
  <2> QED
    BY <2>3, <2>4 DEF Owned
<1> QED
  BY <1>5, <1>6 DEF MInv

LEMMA UseMInv ==
    ASSUME MInv, NEW t \in Thread, UseMember(t)
    PROVE  MInv'
<1>1. /\ RunTypeOK /\ Owned /\ Busy(t) /\ StepOf(t).do \in {"get", "put"} /\ Advance(t)
      /\ owner' = owner
  BY DEF MInv, UseMember
<1>2. HeldAt(run[t], pos[t] + 1) = HeldBy(t)
  BY <1>1, StepNests DEF Nested, StepOf
<1>3. \A u \in Thread : HeldBy(u)' = HeldBy(u)
  BY <1>1, <1>2, AdvanceHeld
<1>4. RunTypeOK'
  BY <1>1, AdvanceHeld DEF RunTypeOK
<1>5. Owned'
  BY <1>1, <1>3 DEF Owned
<1> QED
  BY <1>4, <1>5 DEF MInv

\* Every step of a thread keeps the invariant.
LEMMA NextMInv == MInv /\ [MutexNext]_mutexVars => MInv'
<1> SUFFICES ASSUME MInv, [MutexNext]_mutexVars PROVE MInv'
  OBVIOUS
<1>1. CASE UNCHANGED mutexVars
  BY <1>1 DEF mutexVars, MInv, RunTypeOK, Owned, Busy, HeldBy
<1>2. CASE MutexNext
  <2>1. PICK t \in Thread : \/ \E r \in Routine : Call(t, r)
                            \/ LockMutex(t) \/ UnLockMutex(t) \/ UseMember(t)
    BY <1>2 DEF MutexNext
  <2>2. CASE \E r \in Routine : Call(t, r)
    BY <2>2, CallMInv
  <2>3. CASE LockMutex(t)
    BY <2>3, LockMInv
  <2>4. CASE UnLockMutex(t)
    BY <2>4, UnLockMInv
  <2>5. CASE UseMember(t)
    BY <2>5, UseMInv
  <2> QED
    BY <2>1, <2>2, <2>3, <2>4, <2>5
<1> QED
  BY <1>1, <1>2

\* The invariant holds in every state.
LEMMA MInvAlways == MutexSpec => []MInv
  BY InitMInv, NextMInv, PTL DEF MutexSpec

-----------------------------------------------------------------------------
LEMMA ExclusiveFromMInv == MInv => Exclusive
<1> SUFFICES ASSUME MInv PROVE Exclusive
  OBVIOUS
<1>1. \A t \in Thread : HeldBy(t) \subseteq Lock
  BY DEF MInv, Owned
<1>2. \A t \in Thread : \A l \in Lock : owner[l] = t <=> l \in HeldBy(t)
  BY DEF MInv, Owned
<1>3. \A t \in Thread : HeldBy(t) = { l \in Lock : owner[l] = t }
  BY <1>1, <1>2
<1>4. \A t, u \in Thread : t # u => HeldBy(t) \cap HeldBy(u) = {}
  BY <1>3
<1> QED
  BY <1>3, <1>4 DEF Exclusive

\* Mutual exclusion: no two threads are in regions of the same MutexLock.
THEOREM MutualExclusion == MutexSpec => []Exclusive
  BY MInvAlways, ExclusiveFromMInv, PTL

\* Of threads that wait for each other one waits for a lock of least rank; the thread that
\* has it waits for a lock of a lower one yet.
LEMMA OrderPreventsDeadlock ==
    ASSUME MInv, LocksOrdered
    PROVE  NoDeadlock
<1> SUFFICES ASSUME NEW S \in SUBSET Thread, S # {},
                    \A t \in S : Waits(t) /\ owner[StepOf(t).on] \in S
             PROVE  FALSE
  BY DEF NoDeadlock
<1> DEFINE ranks == { rank[StepOf(t).on] : t \in S }
<1>1. \A t \in S : Busy(t) /\ StepOf(t).do = "lock" /\ StepOf(t).on \in Lock
  BY StepNests DEF MInv, Waits, Nested, StepOf
<1>2. \A t \in S : rank[StepOf(t).on] \in Nat
  BY <1>1, MutexAssumption
<1>3. PICK n \in ranks : \A m \in ranks : ~ (m < n)
  <2> DEFINE less == OpToRel(<, Nat)
  <2>1. ranks \subseteq Nat /\ ranks # {}
    BY <1>2
  <2>2. \A m, n \in Nat : <<m, n>> \in less <=> m < n
    BY Zenon DEF OpToRel
  <2>3. IsWellFoundedOn(less, Nat)
    BY NatLessThanWellFounded, Zenon
  <2> HIDE DEF less, ranks
  <2>4. \E n \in ranks : \A m \in ranks : ~ (<<m, n>> \in less)
    BY <2>1, <2>3, WFMin
  <2> QED
    BY <2>1, <2>2, <2>4
<1>4. PICK t \in S : n = rank[StepOf(t).on]
  OBVIOUS
<1>5. PICK u \in S : owner[StepOf(t).on] = u
  BY <1>4
<1>6. StepOf(t).on \in HeldBy(u)
  BY <1>1, <1>5 DEF MInv, Owned
<1>7. StepOf(u).on \notin HeldBy(u)
  BY <1>1 DEF MInv, Owned, Waits
<1>8. rank[StepOf(u).on] < rank[StepOf(t).on]
  BY <1>1, <1>6, <1>7 DEF LocksOrdered
<1> QED
  BY <1>3, <1>4, <1>8

\* Threads, however many, whose routines keep the order of the ranks never deadlock.
THEOREM OrderedNeverDeadlock == MutexSpec => [](LocksOrdered => NoDeadlock)
<1>1. MInv => (LocksOrdered => NoDeadlock)
  BY OrderPreventsDeadlock
<1> QED
  BY <1>1, MInvAlways, PTL

-----------------------------------------------------------------------------
(* The routines of this program.  Every one of them is put together from     *)
(* regions and uses of members by \o and Guard, and so is the proof.         *)

\* The program's locks, its routines, and who runs them; one thread at most runs callbacks.
Process ==
    /\ Lock = ProcessLock /\ Routine = ProcessRoutine /\ Prog = ProcessProg
    /\ mayRun = ProcessMayRun /\ rank = ProcessRank
    /\ \A t, u \in Thread : t \notin AppThread /\ u \notin AppThread => t = u

\* The lock that protects a member; in place of a lock, what only the IO thread uses.
Protection ==
    { <<"node_controller_lock", "node_controller">>, <<"handle_table", "handles">>,
      <<"dispatcher", "attached_ports">>, <<"names", "name_cache">>,
      <<"inviter_lock", "inviter_name">>, <<"peers_lock", "peers">>,
      <<"peers_lock", "pending_peer_messages">>, <<"reserved_ports_lock", "reserved_ports">>,
      <<"pending_port_merges_lock", "pending_port_merges">>, <<"channel_lock", "channel">>,
      <<"writing_protocol_lock", "writing_protocol">>, <<"io_thread", "remote_node_name">> }

Lone == { "node_controller_lock", "handle_table", "dispatcher", "names", "ports_lock",
          "inviter_lock", "peers_lock", "reserved_ports_lock", "pending_port_merges_lock" }
Members == { "node_controller", "handles", "attached_ports", "name_cache", "inviter_name",
             "peers", "pending_peer_messages", "reserved_ports", "pending_port_merges" }
Free == { "ports", "peer_port_maps", "peer_address", "message_queue", "inviter_channel",
          "pending_invitations", "delegate_map", "handles_map" }
Name == Lone \cup Members \cup Free
        \cup { "channel_lock", "writing_protocol_lock", "io_thread",
               "channel", "writing_protocol", "remote_node_name" }

Thing == Name \X (Channel \cup {0})
Protects(l, m) == l \in Thing /\ m \in Thing /\ <<l[1], m[1]>> \in Protection /\ l[2] = m[2]
IoThread == {"io_thread"} \X Channel

\* The steps of a routine that holds H, and in it takes only locks of a rank below n, in
\* order, and uses each member under its protection.
GoodStep(n, H) ==
    { st \in [do : {"lock", "unlock", "get", "put"}, on : Thing, held : SUBSET ProcessLock] :
        /\ st.do = "lock" => /\ st.on \in ProcessLock /\ ProcessRank[st.on] < n
                             /\ \A l \in st.held : ProcessRank[st.on] < ProcessRank[l]
        /\ st.do \in {"get", "put"} =>
             st.on \in Unguarded \/ \E l \in st.held \cup H : Protects(l, st.on) }
Good(s, n, H) == s \in Seq(GoodStep(n, H))

LEMMA RankIs ==
    /\ ProcessRank \in [ProcessLock -> Nat]
    /\ \A l \in ProcessLock :
         /\ l[1] = "pending_port_merges_lock" => ProcessRank[l] = 4
         /\ l[1] \in {"inviter_lock", "peers_lock"} => ProcessRank[l] = 3
         /\ l[1] = "channel_lock" => ProcessRank[l] = 2
         /\ l[1] \notin {"pending_port_merges_lock", "inviter_lock", "peers_lock",
                         "channel_lock"} => ProcessRank[l] = 1
  BY DEF ProcessRank

LEMMA GoodConcat ==
    ASSUME NEW n, NEW H, NEW s, NEW t, Good(s, n, H), Good(t, n, H)
    PROVE  Good(s \o t, n, H)
  BY ConcatProperties DEF Good

LEMMA GoodWeaker ==
    ASSUME NEW n \in Nat, NEW m \in Nat, NEW H, NEW G, NEW s, Good(s, n, H), n <= m, H \subseteq G
    PROVE  Good(s, m, G)
<1>1. GoodStep(n, H) \subseteq GoodStep(m, G)
  <2> SUFFICES ASSUME NEW st \in GoodStep(n, H) PROVE st \in GoodStep(m, G)
    OBVIOUS
  <2>1. st.do = "lock" => ProcessRank[st.on] < m
    BY RankIs DEF GoodStep
  <2>2. ASSUME st.do \in {"get", "put"}, st.on \notin Unguarded
        PROVE  \E l \in st.held \cup G : Protects(l, st.on)
    BY <2>2 DEF GoodStep
  <2> QED
    BY <2>1, <2>2 DEF GoodStep
<1> QED
  BY <1>1, SeqMonotonic DEF Good

LEMMA GoodUse ==
    ASSUME NEW n \in Nat, NEW H, NEW do \in {"get", "put"}, NEW m \in Thing,
           m \in Unguarded \/ \E l \in H : Protects(l, m)
    PROVE  Good(Use(do, m), n, H)
<1> DEFINE st == [do |-> do, on |-> m, held |-> {}]
<1>1. st \in GoodStep(n, H)
  BY DEF GoodStep
<1>2. Use(do, m) = <<st>>
  BY DEF Use
<1> HIDE DEF st
<1> QED
  BY <1>1, <1>2 DEF Good

LEMMA LockIsThing == ProcessLock \subseteq Thing
<1> SUFFICES ASSUME NEW l \in ProcessLock PROVE l \in Thing
  OBVIOUS
<1>1. CASE l \in {"channel_lock", "writing_protocol_lock"} \X Channel
  BY <1>1 DEF Thing, Name
<1>2. CASE \E name \in Lone : l = <<name, 0>>
  BY <1>2 DEF Thing, Name
<1> QED
  BY <1>1, <1>2 DEF ProcessLock, The, Lone

LEMMA GoodGuard ==
    ASSUME NEW n \in Nat, NEW H, NEW l \in ProcessLock, NEW s,
           Good(s, ProcessRank[l], H \cup {l}), ProcessRank[l] < n
    PROVE  Good(Guard(l, s), n, H)
<1> DEFINE in == [do |-> "lock", on |-> l, held |-> {}]
           out == [do |-> "unlock", on |-> l, held |-> {l}]
           inside(st) == [do |-> st.do, on |-> st.on, held |-> st.held \cup {l}]
           body == [i \in DOMAIN s |-> inside(s[i])]
<1>1. in \in GoodStep(n, H) /\ out \in GoodStep(n, H)
  BY LockIsThing DEF GoodStep
<1>2. ASSUME NEW st \in GoodStep(ProcessRank[l], H \cup {l})
      PROVE  inside(st) \in GoodStep(n, H)
  <2>1. /\ st.do \in {"lock", "unlock", "get", "put"} /\ st.on \in Thing
        /\ st.held \subseteq ProcessLock
    BY DEF GoodStep
  <2>2. ASSUME st.do = "lock"
        PROVE  /\ st.on \in ProcessLock /\ ProcessRank[st.on] < n
               /\ \A k \in st.held \cup {l} : ProcessRank[st.on] < ProcessRank[k]
    <3>1. /\ st.on \in ProcessLock /\ ProcessRank[st.on] < ProcessRank[l]
          /\ \A k \in st.held : ProcessRank[st.on] < ProcessRank[k]
      BY <2>2 DEF GoodStep
    <3>2. ProcessRank[st.on] \in Nat /\ ProcessRank[l] \in Nat
      BY <3>1, RankIs
    <3> QED
      BY <3>1, <3>2
  <2>3. ASSUME st.do \in {"get", "put"}, st.on \notin Unguarded
        PROVE  \E k \in (st.held \cup {l}) \cup H : Protects(k, st.on)
    <3>1. \E k \in st.held \cup (H \cup {l}) : Protects(k, st.on)
      BY <2>3 DEF GoodStep
    <3> QED
      BY <3>1
  <2>4. PICK x : x = inside(st)
    OBVIOUS
  <2>5. x.do = st.do /\ x.on = st.on /\ x.held = st.held \cup {l}
        /\ x \in [do : {"lock", "unlock", "get", "put"}, on : Thing, held : SUBSET ProcessLock]
    BY <2>1, <2>4
  <2>6. x \in GoodStep(n, H)
    BY <2>2, <2>3, <2>5 DEF GoodStep
  <2> QED
    BY <2>4, <2>6
<1>3. Guard(l, s) = <<in>> \o body \o <<out>>
  BY DEF Guard
<1> HIDE DEF in, out, inside
<1>4. s \in Seq(GoodStep(ProcessRank[l], H \cup {l}))
  BY DEF Good
<1>5. Len(s) \in Nat /\ DOMAIN s = 1 .. Len(s)
      /\ \A i \in 1 .. Len(s) : s[i] \in GoodStep(ProcessRank[l], H \cup {l})
  BY <1>4
<1>6. body \in [1 .. Len(s) -> GoodStep(n, H)]
  BY <1>2, <1>5
<1> HIDE DEF body
<1>7. body \in Seq(GoodStep(n, H))
  BY <1>5, <1>6, IsASeq
<1>8. <<in>> \in Seq(GoodStep(n, H)) /\ <<out>> \in Seq(GoodStep(n, H))
  BY <1>1
<1> QED
  BY <1>3, <1>7, <1>8, ConcatProperties DEF Good

-----------------------------------------------------------------------------
\* Uses and regions of the program's members and locks, each of a member or a lock by name.

LEMMA GoodFree ==
    ASSUME NEW n \in Nat, NEW H, NEW m \in Free
    PROVE  Good(Get(m), n, H) /\ Good(Put(m), n, H)
<1>1. The(m) \in Unguarded /\ The(m) \in Thing
  BY DEF Free, Unguarded, Thing, The, Name
<1> QED
  BY <1>1, GoodUse DEF Get, Put

LEMMA GoodMember ==
    ASSUME NEW n \in Nat, NEW H, NEW m \in Name, NEW l \in Name,
           <<l, m>> \in Protection, The(l) \in H
    PROVE  Good(Get(m), n, H) /\ Good(Put(m), n, H)
<1>1. The(m) \in Thing /\ The(l) \in Thing
  BY DEF Thing, The
<1>2. Protects(The(l), The(m))
  BY <1>1 DEF Protects, The
<1> QED
  BY <1>1, <1>2, GoodUse DEF Get, Put

LEMMA GoodMemberOf ==
    ASSUME NEW n \in Nat, NEW H, NEW m \in Name, NEW l \in Name, NEW k \in Channel,
           <<l, m>> \in Protection, <<l, k>> \in H
    PROVE  Good(GetOf(m, k), n, H) /\ Good(PutOf(m, k), n, H)
<1>1. <<m, k>> \in Thing /\ <<l, k>> \in Thing
  BY DEF Thing
<1>2. Protects(<<l, k>>, <<m, k>>)
  BY <1>1 DEF Protects
<1> QED
  BY <1>1, <1>2, GoodUse DEF GetOf, PutOf

\* A region of a lock that there is one of.
LEMMA GoodRegion ==
    ASSUME NEW n \in Nat, NEW H, NEW l \in Lone, NEW r \in Nat, NEW s,
           r = ProcessRank[The(l)], r < n, Good(s, r, H \cup {The(l)})
    PROVE  Good(Guard(The(l), s), n, H)
<1>1. The(l) \in ProcessLock
  BY DEF Lone, ProcessLock
<1> QED
  BY <1>1, GoodGuard

LEMMA LoneRanks ==
    /\ ProcessRank[The("pending_port_merges_lock")] = 4
    /\ ProcessRank[The("inviter_lock")] = 3 /\ ProcessRank[The("peers_lock")] = 3
    /\ \A l \in Lone : l \notin {"pending_port_merges_lock", "inviter_lock", "peers_lock"} =>
         ProcessRank[The(l)] = 1
<1>1. \A l \in Lone : The(l) \in ProcessLock /\ The(l)[1] = l
  BY DEF Lone, ProcessLock, The
<1> QED
  BY <1>1, RankIs DEF Lone

\* What any thread may do with no lock held, whatever the rank below which it must stay.
LEMMA GoodSingle ==
    ASSUME NEW n \in Nat, n > 1, NEW H
    PROVE  /\ Good(GetNodeController, n, H) /\ Good(GetDispatcher, n, H)
           /\ Good(AddDispatcher, n, H) /\ Good(PutAttached, n, H)
           /\ Good(Guard(The("dispatcher"), Get("attached_ports")), n, H)
           /\ Good(GenerateRandomPortName, n, H) /\ Good(AddPortWithName, n, H)
           /\ Good(InitializePort, n, H) /\ Good(ErasePort, n, H)
           /\ Good(Guard(The("reserved_ports_lock"), Put("reserved_ports")), n, H)
           /\ Good(Guard(The("reserved_ports_lock"), Get("reserved_ports")), n, H)
           /\ Good(Guard(The("ports_lock"), Get("ports")), n, H)
           /\ Good(Guard(The("ports_lock"), Get("peer_address") \o Get("ports")), n, H)
<1>1. \A l \in Lone : \A s :
        /\ l \notin {"pending_port_merges_lock", "inviter_lock", "peers_lock"}
        /\ Good(s, 1, H \cup {The(l)})
        => Good(Guard(The(l), s), n, H)
  BY LoneRanks, GoodRegion
<1>2. \A l \in Lone, m \in Members :
        /\ l \notin {"pending_port_merges_lock", "inviter_lock", "peers_lock"}
        /\ <<l, m>> \in Protection
        => Good(Guard(The(l), Get(m)), n, H) /\ Good(Guard(The(l), Put(m)), n, H)
  BY <1>1, GoodMember DEF Name
<1>3. /\ <<"node_controller_lock", "node_controller">> \in Protection
      /\ <<"handle_table", "handles">> \in Protection
      /\ <<"dispatcher", "attached_ports">> \in Protection
      /\ <<"names", "name_cache">> \in Protection
      /\ <<"reserved_ports_lock", "reserved_ports">> \in Protection
  BY DEF Protection
<1>4. \A m \in Free : Good(Guard(The("ports_lock"), Get(m)), n, H)
                      /\ Good(Guard(The("ports_lock"), Put(m)), n, H)
  BY <1>1, GoodFree DEF Lone
<1>5. /\ "ports" \in Free /\ "peer_address" \in Free /\ "peer_port_maps" \in Free
      /\ "ports_lock" \in Lone
  BY DEF Free, Lone
<1>6. Good(Get("peer_address") \o Get("ports"), 1, H \cup {The("ports_lock")})
  BY <1>5, GoodFree, GoodConcat
<1>7. /\ Good(GetNodeController, n, H) /\ Good(GetDispatcher, n, H)
      /\ Good(AddDispatcher, n, H) /\ Good(PutAttached, n, H)
      /\ Good(Guard(The("dispatcher"), Get("attached_ports")), n, H)
      /\ Good(GenerateRandomPortName, n, H)
  BY <1>2, <1>3 DEF Lone, Members, GetNodeController, GetDispatcher, AddDispatcher,
                    PutAttached, GenerateRandomPortName
<1>8. /\ Good(Guard(The("reserved_ports_lock"), Put("reserved_ports")), n, H)
      /\ Good(Guard(The("reserved_ports_lock"), Get("reserved_ports")), n, H)
  BY <1>2, <1>3 DEF Lone, Members
<1>9. /\ Good(AddPortWithName, n, H) /\ Good(InitializePort, n, H) /\ Good(ErasePort, n, H)
      /\ Good(Guard(The("ports_lock"), Get("ports")), n, H)
  BY <1>4, <1>5 DEF AddPortWithName, InitializePort, ErasePort
<1>10. Good(Guard(The("ports_lock"), Get("peer_address") \o Get("ports")), n, H)
  BY <1>1, <1>5, <1>6
<1> QED
  BY <1>7, <1>8, <1>9, <1>10

\* The members that no lock protects and that those of ports::Node and of a channel use.
LEMMA GoodNode ==
    ASSUME NEW n \in Nat, n > 1, NEW H
    PROVE  Good(CreatePortPair, n, H) /\ Good(MergePorts, n, H) /\ Good(MergePortsResponse, n, H)
<1>1. \A m \in Free : Good(Get(m), n, H) /\ Good(Put(m), n, H)
  BY GoodFree
<1>2. Good(CreatePortPair, n, H)
  BY GoodSingle, GoodConcat DEF CreatePortPair
<1>3. Good(MergePorts, n, H)
  BY <1>1, GoodSingle, GoodConcat DEF MergePorts, Free
<1>4. Good(MergePortsResponse, n, H)
  BY <1>1, <1>3, GoodSingle, GoodConcat DEF MergePortsResponse, Free
<1> QED
  BY <1>2, <1>3, <1>4

\* A channel's own two locks are taken one inside the other.
LEMMA GoodChannel ==
    ASSUME NEW k \in Channel, NEW n \in Nat, n > 2, NEW H
    PROVE  /\ Good(StartChannel(k), n, H) /\ Good(WriteChannelMessage(k), n, H)
           /\ Good(Guard(<<"writing_protocol_lock", k>>, PutOf("writing_protocol", k)), n, H)
<1> DEFINE c == <<"channel_lock", k>>  w == <<"writing_protocol_lock", k>>
<1>1. c \in ProcessLock /\ w \in ProcessLock
  BY DEF ProcessLock
<1>2. ProcessRank[c] = 2 /\ ProcessRank[w] = 1
  BY <1>1, RankIs
<1>3. \A G : w \in G => Good(PutOf("writing_protocol", k), 1, G)
  BY GoodMemberOf DEF Protection, Name
<1>4. \A G : c \in G => Good(GetOf("channel", k), 2, G)
  BY GoodMemberOf DEF Protection, Name
<1>5. \A m \in Nat : \A G : m > 1 => Good(Guard(w, PutOf("writing_protocol", k)), m, G)
  BY <1>1, <1>2, <1>3, GoodGuard
<1>6. Good(GetOf("channel", k) \o Guard(w, PutOf("writing_protocol", k)), 2, H \cup {c})
  BY <1>4, <1>5, GoodConcat
<1>7. Good(GetOf("channel", k) \o Put("handles_map"), 2, H \cup {c})
  BY <1>4, GoodFree, GoodConcat DEF Free
<1>8. Good(WriteChannelMessage(k), n, H)
  BY <1>1, <1>2, <1>6, GoodGuard DEF WriteChannelMessage
<1>9. Good(StartChannel(k), n, H)
  BY <1>1, <1>2, <1>7, GoodGuard DEF StartChannel
<1> QED
  BY <1>5, <1>8, <1>9

LEMMA GoodPeers ==
    ASSUME NEW n \in Nat, n > 3, NEW H
    PROVE  /\ Good(GetPeerChannel, n, H) /\ Good(GetInviterChannel, n, H)
           /\ Good(DropPeer, n, H)
           /\ Good(Guard(The("inviter_lock"), Put("inviter_name")), n, H)
           /\ Good(Guard(The("inviter_lock"), Put("inviter_name") \o CreateChannel
                                              \o Put("inviter_channel")), n, H)
           /\ Good(Guard(The("peers_lock"), Get("peers") \o Put("peers")
                                            \o Put("pending_peer_messages")), n, H)
           /\ Good(Guard(The("peers_lock"), Get("peers") \o Put("pending_peer_messages")), n, H)
           /\ \A k \in Channel : Good(SendPeerEventLate(k), n, H)
<1>1. \A l \in {"inviter_lock", "peers_lock"} : \A s :
        Good(s, 3, H \cup {The(l)}) => Good(Guard(The(l), s), n, H)
  BY LoneRanks, GoodRegion DEF Lone
<1> DEFINE P == H \cup {The("peers_lock")}  I == H \cup {The("inviter_lock")}
<1>2. /\ Good(Get("peers"), 3, P) /\ Good(Put("peers"), 3, P)
      /\ Good(Put("pending_peer_messages"), 3, P)
  BY GoodMember DEF Protection, Name, Lone, Members
<1>3. Good(Get("inviter_name"), 3, I) /\ Good(Put("inviter_name"), 3, I)
  BY GoodMember DEF Protection, Name, Lone, Members
<1>4. \A G : /\ Good(CreateChannel, 3, G) /\ Good(Put("inviter_channel"), 3, G)
             /\ Good(Put("pending_invitations"), 3, G)
  BY GoodFree DEF CreateChannel, Free
<1>5. /\ Good(Put("inviter_name") \o CreateChannel \o Put("inviter_channel"), 3, I)
      /\ Good(Get("peers") \o Put("peers") \o Put("pending_peer_messages"), 3, P)
      /\ Good(Get("peers") \o Put("pending_peer_messages"), 3, P)
      /\ Good(Put("peers") \o Put("pending_peer_messages") \o Put("pending_invitations"), 3, P)
      /\ \A k \in Channel : Good(Get("peers") \o WriteChannelMessage(k), 3, P)
  <2> HIDE DEF P, I
  <2>1. \A k \in Channel : Good(WriteChannelMessage(k), 3, P)
    <3> SUFFICES ASSUME NEW k \in Channel PROVE Good(WriteChannelMessage(k), 3, P)
      OBVIOUS
    <3>1. \A x \in Nat : \A G : x > 2 => Good(WriteChannelMessage(k), x, G)
      BY GoodChannel
    <3> QED
      BY <3>1
  <2> QED
    BY <1>2, <1>3, <1>4, <2>1, GoodConcat
<1>6. /\ Good(GetPeerChannel, n, H)
      /\ Good(Guard(The("inviter_lock"), Get("inviter_name")), n, H)
  BY <1>1, <1>2, <1>3 DEF GetPeerChannel
<1>7. Good(GetInviterChannel, n, H)
  BY <1>6, GoodConcat DEF GetInviterChannel
<1>8. Good(DropPeer, n, H)
  <2>1. Good(Guard(The("peers_lock"), Put("peers") \o Put("pending_peer_messages")
                                      \o Put("pending_invitations")), n, H)
    BY <1>1, <1>5
  <2> QED
    BY <2>1, GoodSingle, GoodConcat DEF DropPeer
<1>9. \A k \in Channel : Good(SendPeerEventLate(k), n, H)
  <2>1. \A k \in Channel :
          Good(Guard(The("peers_lock"), Get("peers") \o WriteChannelMessage(k)), n, H)
    BY <1>1, <1>5
  <2> QED
    BY <1>6, <2>1, GoodConcat DEF SendPeerEventLate
<1> QED
  BY <1>1, <1>3, <1>5, <1>6, <1>7, <1>8, <1>9

\* The waiting merges are the outermost region of all.
LEMMA GoodMerges ==
    ASSUME NEW k \in Channel, NEW H
    PROVE  /\ Good(MergePortIntoInviter(k), 5, H) /\ Good(MergePortIntoInviterWaits, 5, H)
           /\ Good(HandlePendingMergePort(k), 5, H)
<1> DEFINE l == The("pending_port_merges_lock")  M == H \cup {l}
<1>1. \A s : Good(s, 4, M) => Good(Guard(l, s), 5, H)
  <2>1. ProcessRank[l] = 4 /\ "pending_port_merges_lock" \in Lone
    BY LoneRanks DEF Lone
  <2>2. \A r, n \in Nat : \A s : r = ProcessRank[l] /\ r < n /\ Good(s, r, M)
                                 => Good(Guard(l, s), n, H)
    BY <2>1, GoodRegion
  <2> QED
    BY <2>1, <2>2
<1>2. Good(GetInviterChannel, 4, M) /\ Good(GetInviterChannel, 5, H)
      /\ Good(WriteChannelMessage(k), 5, H)
  <2>1. \A n \in Nat : \A G : n > 3 => Good(GetInviterChannel, n, G)
    BY GoodPeers
  <2>2. \A n \in Nat : \A G : n > 2 => Good(WriteChannelMessage(k), n, G)
    BY GoodChannel
  <2> QED
    BY <2>1, <2>2
<1>3. Good(Put("pending_port_merges"), 4, M)
  BY GoodMember DEF Protection, Name, Lone, Members
<1>4. Good(GetInviterChannel \o Put("pending_port_merges"), 4, M)
  BY <1>2, <1>3, GoodConcat
<1>5. /\ Good(Guard(l, GetInviterChannel), 5, H)
      /\ Good(Guard(l, Put("pending_port_merges")), 5, H)
      /\ Good(Guard(l, GetInviterChannel \o Put("pending_port_merges")), 5, H)
  BY <1>1, <1>2, <1>3, <1>4
<1> QED
  BY <1>2, <1>5, GoodConcat DEF MergePortIntoInviter, MergePortIntoInviterWaits,
                                HandlePendingMergePort

\* Everything above with room to spare: below 5, and with any H.
LEMMA GoodParts ==
    ASSUME NEW k \in Channel, NEW H
    PROVE  /\ \A m \in Free : Good(Get(m), 5, H) /\ Good(Put(m), 5, H)
           /\ Good(GetNodeController, 5, H) /\ Good(GetDispatcher, 5, H)
           /\ Good(AddDispatcher, 5, H) /\ Good(PutAttached, 5, H)
           /\ Good(Guard(The("dispatcher"), Get("attached_ports")), 5, H)
           /\ Good(Guard(The("reserved_ports_lock"), Put("reserved_ports")), 5, H)
           /\ Good(Guard(The("reserved_ports_lock"), Get("reserved_ports")), 5, H)
           /\ Good(CreatePortPair, 5, H) /\ Good(MergePorts, 5, H) /\ Good(MergePortsResponse, 5, H)
           /\ Good(StartChannel(k), 5, H) /\ Good(WriteChannelMessage(k), 5, H)
           /\ Good(Guard(<<"writing_protocol_lock", k>>, PutOf("writing_protocol", k)), 5, H)
           /\ Good(GetPeerChannel, 5, H) /\ Good(GetInviterChannel, 5, H)
           /\ Good(DropPeer, 5, H)
           /\ Good(Guard(The("inviter_lock"), Put("inviter_name")), 5, H)
           /\ Good(Guard(The("inviter_lock"), Put("inviter_name") \o CreateChannel
                                              \o Put("inviter_channel")), 5, H)
           /\ Good(Guard(The("peers_lock"), Get("peers") \o Put("peers")
                                            \o Put("pending_peer_messages")), 5, H)
           /\ Good(Guard(The("peers_lock"), Get("peers") \o Put("pending_peer_messages")), 5, H)
           /\ Good(SendPeerEventLate(k), 5, H)
<1>1. PICK n \in Nat : n = 5
  OBVIOUS
<1>2. \A m \in Free : Good(Get(m), n, H) /\ Good(Put(m), n, H)
  BY GoodFree
<1>3. /\ Good(GetNodeController, n, H) /\ Good(GetDispatcher, n, H)
      /\ Good(AddDispatcher, n, H) /\ Good(PutAttached, n, H)
      /\ Good(Guard(The("dispatcher"), Get("attached_ports")), n, H)
      /\ Good(Guard(The("reserved_ports_lock"), Put("reserved_ports")), n, H)
      /\ Good(Guard(The("reserved_ports_lock"), Get("reserved_ports")), n, H)
  BY <1>1, GoodSingle
<1>4. Good(CreatePortPair, n, H) /\ Good(MergePorts, n, H) /\ Good(MergePortsResponse, n, H)
  BY <1>1, GoodNode
<1>5. /\ Good(StartChannel(k), n, H) /\ Good(WriteChannelMessage(k), n, H)
      /\ Good(Guard(<<"writing_protocol_lock", k>>, PutOf("writing_protocol", k)), n, H)
  BY <1>1, GoodChannel
<1>6. /\ Good(GetPeerChannel, n, H) /\ Good(GetInviterChannel, n, H)
      /\ Good(DropPeer, n, H)
      /\ Good(Guard(The("inviter_lock"), Put("inviter_name")), n, H)
      /\ Good(Guard(The("inviter_lock"), Put("inviter_name") \o CreateChannel
                                         \o Put("inviter_channel")), n, H)
      /\ Good(Guard(The("peers_lock"), Get("peers") \o Put("peers")
                                       \o Put("pending_peer_messages")), n, H)
      /\ Good(Guard(The("peers_lock"), Get("peers") \o Put("pending_peer_messages")), n, H)
      /\ Good(SendPeerEventLate(k), n, H)
  BY <1>1, GoodPeers
<1> QED
  BY <1>1, <1>2, <1>3, <1>4, <1>5, <1>6

\* The API calls hold nothing when they begin.
LEMMA GoodApiCalls ==
    ASSUME NEW k \in Channel, NEW name \in DOMAIN ApiCalls(k)
    PROVE  Good(ApiCalls(k)[name], 5, {})
<1>1. \A s, t : Good(s, 5, {}) /\ Good(t, 5, {}) => Good(s \o t, 5, {})
  BY GoodConcat
<1>2. /\ Good(Put("peer_address"), 5, {}) /\ Good(Get("peer_address"), 5, {})
      /\ Good(Get("message_queue"), 5, {}) /\ Good(Put("message_queue"), 5, {})
      /\ Good(Put("pending_invitations"), 5, {}) /\ Good(Get("inviter_channel"), 5, {})
      /\ Good(CreateChannel, 5, {})
  BY GoodFree DEF CreateChannel, Free
<1>3. Good(AttachMessagePipe, 5, {})
  BY <1>1, GoodParts DEF AttachMessagePipe
<1>4. Good(ExtractLocally, 5, {})
  BY <1>1, GoodParts DEF ExtractLocally
<1>5. \A merge : Good(merge, 5, {}) => Good(ExtractFromInviter(merge), 5, {})
  BY <1>1, GoodParts DEF ExtractFromInviter
<1>6. Good(SendInvitation(k), 5, {})
  BY <1>1, <1>2, GoodParts DEF SendInvitation
<1>7. Good(AcceptInvitation(k), 5, {})
  BY <1>1, <1>2, GoodParts DEF AcceptInvitation
<1>8. \A send : Good(send, 5, {}) => Good(WriteMessage(send), 5, {})
  BY <1>1, <1>2, GoodParts DEF WriteMessage
<1>9. Good(ReadMessage, 5, {})
  BY <1>1, <1>2, GoodParts DEF ReadMessage
<1>10. /\ Good(ExtractFromInviter(MergePortIntoInviter(k)), 5, {})
       /\ Good(ExtractFromInviter(MergePortIntoInviterWaits), 5, {})
  BY <1>5, GoodMerges
<1>11. /\ Good(WriteMessage(GetPeerChannel \o WriteChannelMessage(k)), 5, {})
       /\ Good(WriteMessage(SendPeerEventLate(k)), 5, {})
       /\ Good(WriteMessage(GetPeerChannel \o Guard(The("peers_lock"),
                                Get("peers") \o Put("pending_peer_messages"))), 5, {})
  BY <1>1, <1>8, GoodParts
<1>12. Good(AddDispatcher, 5, {})
  BY GoodParts
<1>13. name \in { "create", "attach", "local", "extract", "wait", "send", "accept", "write",
                  "writeLate", "writeWaits", "read" }
  BY DEF ApiCalls
<1> QED
  BY <1>3, <1>4, <1>6, <1>7, <1>9, <1>10, <1>11, <1>12, <1>13 DEF ApiCalls

\* The callbacks use remote_node_name_ as the one IO thread only.
LEMMA GoodCallbacks ==
    ASSUME NEW k \in Channel, NEW name \in DOMAIN Callbacks(k)
    PROVE  Good(Callbacks(k)[name], 5, IoThread)
<1>1. \A s, t : Good(s, 5, IoThread) /\ Good(t, 5, IoThread) => Good(s \o t, 5, IoThread)
  BY GoodConcat
<1>2. /\ Good(Get("delegate_map"), 5, IoThread)
      /\ Good(Get("inviter_channel"), 5, IoThread)
      /\ Good(Get("pending_invitations"), 5, IoThread)
      /\ Good(Put("pending_invitations"), 5, IoThread)
      /\ Good(Get("ports"), 5, IoThread) /\ Good(Put("message_queue"), 5, IoThread)
  BY GoodFree DEF Free
<1>3. /\ Good(GetOf("remote_node_name", k), 5, IoThread)
      /\ Good(PutOf("remote_node_name", k), 5, IoThread)
  <2>1. <<"io_thread", k>> \in IoThread /\ <<"io_thread", "remote_node_name">> \in Protection
    BY DEF IoThread, Protection
  <2> QED
    BY <2>1, GoodMemberOf DEF Name
<1>4. Good(AddPeer(k), 5, IoThread)
  BY <1>1, <1>3, GoodParts DEF AddPeer
<1>5. Good(OnAcceptInvitee(k), 5, IoThread)
  BY <1>1, <1>2, <1>3, <1>4, GoodParts, GoodMerges DEF OnAcceptInvitee
<1>6. Good(OnAcceptInvitation(k), 5, IoThread)
  BY <1>1, <1>2, <1>4, GoodParts DEF OnAcceptInvitation
<1>7. Good(OnRequestPortMerge(k), 5, IoThread)
  BY <1>1, GoodParts DEF OnRequestPortMerge
<1>8. Good(OnUserMessage, 5, IoThread)
  BY <1>1, <1>2 DEF OnUserMessage
<1>9. \A s : Good(s, 5, IoThread) => Good(OnFdReadable(k, s), 5, IoThread)
  BY <1>1, <1>2, <1>3 DEF OnFdReadable
<1>10. Good(OnFdWriteable(k), 5, IoThread)
  BY <1>1, <1>2, GoodParts DEF OnFdWriteable
<1>11. /\ Good(Get("pending_invitations") \o DropPeer, 5, IoThread)
       /\ Good(Guard(The("reserved_ports_lock"), Get("reserved_ports")), 5, IoThread)
       /\ Good(MergePortsResponse, 5, IoThread)
  BY <1>1, <1>2, GoodParts
<1>12. name \in { "invitee", "invitation", "unexpected", "request", "unknown", "response",
                  "message", "writeable" }
  BY DEF Callbacks
<1> QED
  BY <1>5, <1>6, <1>7, <1>8, <1>9, <1>10, <1>11, <1>12 DEF Callbacks

-----------------------------------------------------------------------------
(* The threads that run these routines.                                      *)

\* A thread is in a routine that it may run.
InMayRun == \A t \in Thread : Busy(t) => run[t] \in mayRun[t]

LEMMA MayRunAlways == MutexSpec => []InMayRun
<1>1. MutexInit => InMayRun
  BY DEF MutexInit, InMayRun, Busy
<1>2. MInv /\ InMayRun /\ [MutexNext]_mutexVars => InMayRun'
  <2> SUFFICES ASSUME MInv, InMayRun, [MutexNext]_mutexVars PROVE InMayRun'
    OBVIOUS
  <2>1. run \in [Thread -> Routine \cup {None}]
    BY DEF MInv, RunTypeOK
  <2>2. CASE UNCHANGED mutexVars
    BY <2>2 DEF mutexVars, InMayRun, Busy
  <2>3. ASSUME NEW t \in Thread, NEW r \in Routine, Call(t, r) PROVE InMayRun'
    BY <2>1, <2>3 DEF Call, InMayRun, Busy
  <2>4. ASSUME NEW t \in Thread, Advance(t) PROVE InMayRun'
    BY <2>1, <2>4 DEF Advance, InMayRun, Busy
  <2> QED
    BY <2>2, <2>3, <2>4 DEF MutexNext, LockMutex, UnLockMutex, UseMember
<1> QED
  BY <1>1, <1>2, MInvAlways, PTL DEF MutexSpec

\* The next step of a thread keeps the order and the protection; only a thread that the
\* application does not have to itself is ever the IO thread.
LEMMA NextStepGood ==
    ASSUME Process, MInv, InMayRun, NEW t \in Thread, Busy(t)
    PROVE  \E H \in SUBSET IoThread :
             /\ StepOf(t) \in GoodStep(5, H)
             /\ t \in AppThread => H = {}
<1>1. /\ run[t] \in Routine /\ pos[t] \in DOMAIN Prog[run[t]]
      /\ run[t] \in mayRun[t]
  BY DEF MInv, RunTypeOK, Busy, InMayRun
<1>2. PICK name, k : /\ run[t] = <<name, k>> /\ k \in Channel
                     /\ name \in DOMAIN ApiCalls(k) \cup DOMAIN Callbacks(k)
  BY <1>1 DEF Process, ProcessRoutine
<1>3. t \in AppThread => name \in DOMAIN ApiCalls(k)
  BY <1>1, <1>2 DEF Process, ProcessMayRun
<1>4. Prog[run[t]] = IF name \in DOMAIN ApiCalls(k) THEN ApiCalls(k)[name] ELSE Callbacks(k)[name]
  BY <1>1, <1>2 DEF Process, ProcessProg
<1>5. PICK s : s = Prog[run[t]]
  OBVIOUS
<1>6. StepOf(t) = s[pos[t]] /\ pos[t] \in DOMAIN s
  BY <1>1, <1>5 DEF StepOf
<1>7. \A S : s \in Seq(S) => StepOf(t) \in S
  BY <1>6, ElementOfSeq, LenProperties
<1>8. CASE name \in DOMAIN ApiCalls(k)
  <2>1. Good(s, 5, {})
    BY <1>2, <1>4, <1>5, <1>8, GoodApiCalls
  <2>2. StepOf(t) \in GoodStep(5, {})
    BY <2>1, <1>7 DEF Good
  <2> QED
    BY <2>2
<1>9. CASE name \notin DOMAIN ApiCalls(k)
  <2>1. Good(s, 5, IoThread)
    BY <1>2, <1>4, <1>5, <1>9, GoodCallbacks
  <2>2. StepOf(t) \in GoodStep(5, IoThread)
    BY <2>1, <1>7 DEF Good
  <2> QED
    BY <2>2, <1>3, <1>9
<1> QED
  BY <1>8, <1>9

LEMMA OrderOfProcess == Process /\ MInv /\ InMayRun => LocksOrdered
<1> SUFFICES ASSUME Process, MInv, InMayRun, NEW t \in Thread, Busy(t), StepOf(t).do = "lock",
                    NEW l \in HeldBy(t)
             PROVE  rank[StepOf(t).on] < rank[l]
  BY DEF LocksOrdered
<1>1. HeldBy(t) = StepOf(t).held
  BY StepNests DEF MInv
<1>2. PICK H \in SUBSET IoThread : StepOf(t) \in GoodStep(5, H)
  BY NextStepGood
<1>3. \A k \in StepOf(t).held : ProcessRank[StepOf(t).on] < ProcessRank[k]
  BY <1>2 DEF GoodStep
<1> QED
  BY <1>1, <1>3 DEF Process

\* A member has one lock, or one substitute for it.
LEMMA OneProtection ==
    ASSUME NEW l, NEW k, NEW m, Protects(l, m), Protects(k, m)
    PROVE  l = k
<1>1. l[1] = k[1] /\ l[2] = k[2]
  BY DEF Protects, Protection
<1>2. l \in Thing /\ k \in Thing
  BY DEF Protects
<1> QED
  BY <1>1, <1>2 DEF Thing

LEMMA ProtectionOfProcess == Process /\ MInv /\ InMayRun => RacesOnlyOn
<1> SUFFICES ASSUME Process, MInv, InMayRun, NEW t \in Thread, NEW u \in Thread, t # u,
                    Busy(t), Busy(u), StepOf(t).do \in {"get", "put"},
                    StepOf(u).do \in {"get", "put"}, StepOf(t).on = StepOf(u).on,
                    StepOf(t).on \notin Unguarded
             PROVE  FALSE
  BY DEF RacesOnlyOn
<1>1. HeldBy(t) = StepOf(t).held /\ HeldBy(u) = StepOf(u).held
  BY StepNests DEF MInv
<1>2. HeldBy(t) \cap HeldBy(u) = {}
  BY ExclusiveFromMInv DEF Exclusive
<1>3. PICK H \in SUBSET IoThread : StepOf(t) \in GoodStep(5, H) /\ (t \in AppThread => H = {})
  BY NextStepGood
<1>4. PICK G \in SUBSET IoThread : StepOf(u) \in GoodStep(5, G) /\ (u \in AppThread => G = {})
  BY NextStepGood
<1>5. PICK l \in StepOf(t).held \cup H : Protects(l, StepOf(t).on)
  BY <1>3 DEF GoodStep
<1>6. PICK k \in StepOf(u).held \cup G : Protects(k, StepOf(t).on)
  BY <1>4 DEF GoodStep
<1>7. l = k
  BY <1>5, <1>6, OneProtection
<1>8. StepOf(t).held \subseteq ProcessLock /\ StepOf(u).held \subseteq ProcessLock
  BY <1>3, <1>4 DEF GoodStep
<1>9. ProcessLock \cap IoThread = {}
  BY DEF ProcessLock, IoThread, The
<1>10. CASE l \in ProcessLock
  BY <1>10, <1>1, <1>2, <1>5, <1>6, <1>7, <1>9
<1>11. CASE l \notin ProcessLock
  <2>1. H # {} /\ G # {}
    BY <1>11, <1>5, <1>6, <1>7, <1>8
  <2> QED
    BY <2>1, <1>3, <1>4 DEF Process
<1> QED
  BY <1>10, <1>11

\* Whatever threads run the API calls and the callbacks of a process with any number of
\* channels, they take its locks in the order of the ranks (core/ports/node_controller.cc,
\* core/ports/node_channel.cc, core/channel_posix.cc).
THEOREM LocksOrderedCorrect == Process /\ MutexSpec => []LocksOrdered
<1>1. Process /\ MInv /\ InMayRun => LocksOrdered
  BY OrderOfProcess
<1>2. ASSUME Process PROVE MutexSpec => []LocksOrdered
  BY <1>1, <1>2, MInvAlways, MayRunAlways, PTL
<1> QED
  BY <1>2

\* The threads of a process so never wait for each other's MutexLocks in a ring.
THEOREM ProcessNeverDeadlocks == Process /\ MutexSpec => []NoDeadlock
  BY LocksOrderedCorrect, OrderedNeverDeadlock, PTL

\* No two threads of a process are about to use a member at once, one of them to change it,
\* other than the members that the code uses under no common lock: each of the rest has one
\* MutexLock, or is used by the one IO thread.
THEOREM RacesOnlyOnCorrect == Process /\ MutexSpec => []RacesOnlyOn
<1>1. Process /\ MInv /\ InMayRun => RacesOnlyOn
  BY ProtectionOfProcess
<1>2. ASSUME Process PROVE MutexSpec => []RacesOnlyOn
  BY <1>1, <1>2, MInvAlways, MayRunAlways, PTL
<1> QED
  BY <1>2

=============================================================================
