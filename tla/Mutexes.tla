-------------------------------- MODULE Mutexes --------------------------------
(***************************************************************************)
(* MutexLock and MutexLockGuard of base/mutex.h under any threads that run *)
(* straight through routines which lock, unlock and use shared members.    *)
(* (holder_ is only read by AssertLocked, which nobody calls.)             *)
(*                                                                         *)
(* A routine is a sequence of steps; each says what it does, on which lock *)
(* or member, and which locks the guards in scope hold before it.          *)
(***************************************************************************)
EXTENDS Naturals, Sequences

CONSTANTS
    Thread,     \* the threads of a process
    Lock,       \* the MutexLocks
    Routine,    \* the routines
    Prog,       \* Prog[r]: the steps of routine r
    mayRun,     \* mayRun[t]: the routines that thread t runs
    rank,       \* rank[l]: a lock is taken before the locks of lower rank
    None        \* no thread

\* The locks held before step i of r, and after its last step.
HeldAt(r, i) == IF i \in DOMAIN Prog[r] THEN Prog[r][i].held ELSE {}

\* MutexLockGuards nest: every region ends, and what is held changes with them only.  A
\* mutex is recursive, so that a region may be inside another one of the same lock.
Nested(r, i) ==
    LET s == Prog[r][i]
    IN  /\ s.do = "lock" => s.on \in Lock /\ HeldAt(r, i + 1) = s.held \cup {s.on}
        /\ s.do = "unlock" => /\ s.on \in Lock /\ s.on \in s.held
                              /\ HeldAt(r, i + 1) \in {s.held, s.held \ {s.on}}
        /\ s.do \in {"get", "put"} => HeldAt(r, i + 1) = s.held

ASSUME MutexAssumption ==
    /\ None \notin Thread \cup Routine
    /\ rank \in [Lock -> Nat]
    /\ mayRun \in [Thread -> SUBSET Routine]
    /\ \A r \in Routine :
         /\ Len(Prog[r]) \in Nat /\ DOMAIN Prog[r] = 1 .. Len(Prog[r])
         /\ HeldAt(r, 1) = {}
         /\ \A i \in DOMAIN Prog[r] :
              Prog[r][i].do \in {"lock", "unlock", "get", "put"} /\ Nested(r, i)

VARIABLES
    run,        \* run[t]: the routine that t is in, or None
    pos,        \* pos[t]: its next step
    owner       \* owner[l]: the thread that has locked the pthread mutex

mutexVars == <<run, pos, owner>>

MutexInit ==
    /\ run = [t \in Thread |-> None]
    /\ pos = [t \in Thread |-> 1]
    /\ owner = [l \in Lock |-> None]

Busy(t) == run[t] # None
StepOf(t) == Prog[run[t]][pos[t]]
HeldBy(t) == IF Busy(t) THEN HeldAt(run[t], pos[t]) ELSE {}

\* The routine goes on, or returns.
Advance(t) ==
    IF pos[t] < Len(Prog[run[t]])
      THEN pos' = [pos EXCEPT ![t] = @ + 1] /\ UNCHANGED run
      ELSE run' = [run EXCEPT ![t] = None] /\ pos' = [pos EXCEPT ![t] = 1]

-----------------------------------------------------------------------------
Call(t, r) ==
    /\ ~ Busy(t) /\ r \in mayRun[t] /\ Prog[r] # <<>>
    /\ run' = [run EXCEPT ![t] = r]
    /\ pos' = [pos EXCEPT ![t] = 1]
    /\ UNCHANGED owner

\* A bug to try: pthread_mutex_trylock, whose result is not looked at.
LockMutexTries(t) ==
    /\ Busy(t) /\ StepOf(t).do = "lock"
    /\ owner' = [owner EXCEPT ![StepOf(t).on] = IF @ = None THEN t ELSE @]
    /\ Advance(t)

\* MutexLock::Lock waits until no other thread has the mutex.
LockMutex(t) ==
    /\ Busy(t) /\ StepOf(t).do = "lock"
    /\ owner[StepOf(t).on] \in {None, t}
    /\ owner' = [owner EXCEPT ![StepOf(t).on] = t]
    /\ Advance(t)

\* MutexLock::UnLock lets go of the mutex when the outermost of the regions ends.
UnLockMutex(t) ==
    /\ Busy(t) /\ StepOf(t).do = "unlock"
    /\ owner' = [owner EXCEPT ![StepOf(t).on] =
                     IF StepOf(t).on \in HeldAt(run[t], pos[t] + 1) THEN t ELSE None]
    /\ Advance(t)

\* A member is read or written.
UseMember(t) ==
    /\ Busy(t) /\ StepOf(t).do \in {"get", "put"}
    /\ Advance(t)
    /\ UNCHANGED owner

MutexNext ==
    \E t \in Thread :
        \/ \E r \in Routine : Call(t, r)
        \/ LockMutex(t) \/ UnLockMutex(t) \/ UseMember(t)

MutexSpec == MutexInit /\ [][MutexNext]_mutexVars

-----------------------------------------------------------------------------
(* Correctness.                                                              *)

\* t waits in pthread_mutex_lock.
Waits(t) == Busy(t) /\ StepOf(t).do = "lock" /\ owner[StepOf(t).on] \notin {None, t}

\* The regions of a lock exclude each other: no two threads are in regions of the same one,
\* and a thread has the mutex exactly while it is in a region (MutexLock::Lock, UnLock).
Exclusive ==
    /\ \A t, u \in Thread : t # u => HeldBy(t) \cap HeldBy(u) = {}
    /\ \A t \in Thread : HeldBy(t) = { l \in Lock : owner[l] = t }

\* A lock that is taken inside regions of others has a lower rank than they, unless it is
\* the thread's own already.
LocksOrdered ==
    \A t \in Thread : Busy(t) /\ StepOf(t).do = "lock" =>
        \A l \in HeldBy(t) : StepOf(t).on \in HeldBy(t) \/ rank[StepOf(t).on] < rank[l]

\* There are no threads that wait each for a lock that another one of them has.
NoDeadlock ==
    \A S \in (SUBSET Thread) \ {{}} :
        \E t \in S : ~ (Waits(t) /\ owner[StepOf(t).on] \in S)

=============================================================================
