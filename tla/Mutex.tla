-------------------------------- MODULE Mutex --------------------------------
(***************************************************************************)
(* uthread_mutex.c: one pthread mutex and the threads that call            *)
(* pthread_mutex_init, _lock, _trylock, _unlock and _destroy on it.        *)
(*                                                                         *)
(* The mutex is two pieces of state that no lock holds together: the       *)
(* kernel semaphore, which blocks and wakes threads, and the record        *)
(* m_type, m_owner, m_count in user memory, which the library reads to     *)
(* tell a relock from a contended lock and an unlock by the owner from     *)
(* anybody else's.  A call is a sequence of steps, one kernel call or one  *)
(* shared read or write each; pc[t] is where t is in its call.             *)
(***************************************************************************)
EXTENDS OS2Sem

CONSTANTS
  Kinds,         \* the m_type values a mutex is initialised with
  MaxDepth,      \* bound: a thread locks no deeper than this
  DestroyInUse   \* may the application destroy a mutex others still use?

FAST     == "MUTEX_TYPE_FAST"
COUNTING == "MUTEX_TYPE_COUNTING_FAST"
Live     == {FAST, COUNTING}

ASSUME KindsAssumption   == Kinds \subseteq Live
ASSUME DepthAssumption   == MaxDepth \in Nat \ {0}
ASSUME DestroyAssumption == DestroyInUse \in BOOLEAN

VARIABLES
  m_type,    \* "null" while *mutex == NULL, a kind, or "zero" once destroyed;
             \* the handle m_mutex is 0 exactly when m_type is "zero"
  m_owner,   \* the thread the record names as owner
  m_count,   \* m_data.m_count
  sem,       \* the kernel semaphore behind m_mutex
  pc,        \* where each thread is in its call
  ret,       \* the result of each thread's last call
  hold       \* locks minus unlocks that returned 0 to each thread: what the
             \* application knows, the library keeps no such count

mutexVars == <<m_type, m_owner, m_count, sem, pc, ret, hold>>

Locations == {"idle", "lock", "ilock", "busy", "blocked", "try", "itry",
              "trybusy", "got", "unlocking", "destroy"}
Results   == {"none", "ok", "EINVAL", "ENOMEM", "EBUSY", "EDEADLK", "EPERM"}

TypeOK ==
  /\ m_type  \in Live \cup {"null", "zero"}
  /\ m_owner \in Threads \cup {NoThread}
  /\ m_count \in Nat
  /\ sem     \in HMTX
  /\ pc      \in [Threads -> Locations]
  /\ ret     \in [Threads -> Results]
  /\ hold    \in [Threads -> Nat]

Init ==
  /\ m_type  = "null"
  /\ m_owner = NoThread
  /\ m_count = 0
  /\ sem     = Free
  /\ pc      = [t \in Threads |-> "idle"]
  /\ ret     = [t \in Threads |-> "none"]
  /\ hold    = [t \in Threads |-> 0]

-----------------------------------------------------------------------------
Goto(t, l) ==
  /\ pc' = [pc EXCEPT ![t] = l]
  /\ UNCHANGED ret

Return(t, r) ==
  /\ pc'  = [pc EXCEPT ![t] = "idle"]
  /\ ret' = [ret EXCEPT ![t] = r]

\* The call returns 0 to t, which from now on holds the mutex once more.
ReturnHolding(t) ==
  /\ Return(t, "ok")
  /\ hold' = [hold EXCEPT ![t] = @ + 1]

\* The kernel gives the semaphore to t.
Take(t) ==
  /\ sem' = Requested(sem, t)
  /\ Goto(t, "got")

(***************************************************************************)
(* Wrong versions of operations below.  No specification uses them: put in *)
(* the place of the operation they vary, each breaks a property.           *)
(***************************************************************************)

\* pthread_mutex_lock, its double-lock test dropped.
LockEnterUntested(t) ==
  /\ pc[t] = "idle"
  /\ hold[t] < MaxDepth
  /\ m_type \in Live
  /\ Goto(t, IF m_type = FAST THEN "lock" ELSE "ilock")
  /\ UNCHANGED <<m_type, m_owner, m_count, sem, hold>>

\* pthread_mutex_lock, which takes any owner for the caller.
LockEnterAnyOwner(t) ==
  /\ pc[t] = "idle"
  /\ hold[t] < MaxDepth
  /\ \/ m_owner # NoThread /\ Return(t, "EDEADLK")
     \/ m_type = FAST /\ m_owner = NoThread /\ Goto(t, "lock")
     \/ m_type = COUNTING /\ Goto(t, "ilock")
  /\ UNCHANGED <<m_type, m_owner, m_count, sem, hold>>

\* pthread_mutex_lock, the rc of DosRequestMutexSem not tested.
LockRequestUntested(t) ==
  /\ pc[t] = "lock"
  /\ Goto(t, "got")
  /\ sem' = IF Grantable(sem, t) THEN Requested(sem, t) ELSE sem
  /\ UNCHANGED <<m_type, m_owner, m_count, hold>>

\* The rc 640 branches without the test for the owner.
LockBusyUntested(t) ==
  /\ pc[t] = "busy"
  /\ m_count' = m_count + 1
  /\ ReturnHolding(t)
  /\ UNCHANGED <<m_type, m_owner, sem>>

TryBusyUntested(t) ==
  /\ pc[t] = "trybusy"
  /\ m_count' = m_count + 1
  /\ ReturnHolding(t)
  /\ UNCHANGED <<m_type, m_owner, sem>>

\* pthread_mutex_unlock that counts down without looking at the count.
UnlockUncounted(t) ==
  /\ m_type \in Live
  /\ m_owner = t
  /\ hold' = [hold EXCEPT ![t] = @ - 1]
  /\ m_count' = m_count - 1
  /\ Return(t, "ok")
  /\ UNCHANGED m_owner

\* pthread_mutex_unlock that releases the semaphore while the record still
\* names its caller.
UnlockReleaseFirst(t) ==
  /\ m_type \in Live
  /\ m_owner = t
  /\ hold' = [hold EXCEPT ![t] = @ - 1]
  /\ Goto(t, "unlocking")
  /\ UNCHANGED <<m_owner, m_count>>

\* pthread_mutex_unlock that forgets DosReleaseMutexSem.
UnlockKeepsSem(t) ==
  /\ pc[t] = "unlocking"
  /\ Return(t, "ok")
  /\ UNCHANGED <<m_type, m_owner, m_count, sem, hold>>

\* pthread_mutex_destroy whose loop only tries to close.
DestroySpins(t) ==
  /\ pc[t] = "destroy"
  /\ sem.owner # NoThread
  /\ UNCHANGED mutexVars

-----------------------------------------------------------------------------
(***************************************************************************)
(* pthread_mutex_init.  The application initialises the mutex only while   *)
(* *mutex is NULL.  When DosCreateMutexSem fails the record is freed and   *)
(* *mutex set to NULL, but ret is still 0.                                 *)
(***************************************************************************)
InitMutex(t) ==
  /\ pc[t] = "idle"
  /\ m_type = "null"
  /\ \/ \E k \in Kinds : m_type' = k /\ Return(t, "ok")
     \/ UNCHANGED m_type /\ Return(t, "ok")        \* no kernel semaphore
     \/ UNCHANGED m_type /\ Return(t, "ENOMEM")    \* malloc failed
  /\ UNCHANGED <<m_owner, m_count, sem, hold>>

-----------------------------------------------------------------------------
(***************************************************************************)
(* pthread_mutex_lock.                                                     *)
(***************************************************************************)

\* The argument checks, the switch on m_type and, for a FAST mutex, the test
\* for a double lock.
LockEnter(t) ==
  /\ pc[t] = "idle"
  /\ hold[t] < MaxDepth
  /\ \/ m_type \notin Live /\ Return(t, "EINVAL")
     \/ m_type = FAST /\ m_owner = t /\ Return(t, "EDEADLK")
     \/ m_type = FAST /\ m_owner # t /\ Goto(t, "lock")
     \/ m_type = COUNTING /\ Goto(t, "ilock")
  /\ UNCHANGED <<m_type, m_owner, m_count, sem, hold>>

\* DosRequestMutexSem(m_mutex, SEM_INDEFINITE_WAIT) is called.
LockRequest(t) ==
  /\ pc[t] = "lock"
  /\ \/ m_type = "zero" /\ Return(t, "EINVAL") /\ UNCHANGED sem
     \/ m_type # "zero" /\ Grantable(sem, t) /\ Take(t)
     \/ m_type # "zero" /\ ~Grantable(sem, t) /\ Goto(t, "blocked") /\ UNCHANGED sem
  /\ UNCHANGED <<m_type, m_owner, m_count, hold>>

\* The kernel wakes t out of that call.
LockGrant(t) ==
  /\ pc[t] = "blocked"
  /\ sem.owner = NoThread
  /\ Take(t)
  /\ UNCHANGED <<m_type, m_owner, m_count, hold>>

\* A COUNTING mutex is first requested with SEM_IMMEDIATE_RETURN.
LockProbe(t) ==
  /\ pc[t] = "ilock"
  /\ \/ m_type = "zero" /\ Return(t, "EINVAL") /\ UNCHANGED sem
     \/ m_type # "zero" /\ Grantable(sem, t) /\ Take(t)
     \/ m_type # "zero" /\ ~Grantable(sem, t) /\ Goto(t, "busy") /\ UNCHANGED sem
  /\ UNCHANGED <<m_type, m_owner, m_count, hold>>

\* rc == 640: a relock by the owner is counted, anybody else waits.
LockBusy(t) ==
  /\ pc[t] = "busy"
  /\ \/ /\ m_owner = t
        /\ m_count' = m_count + 1
        /\ ReturnHolding(t)
     \/ /\ m_owner # t
        /\ Goto(t, "lock")
        /\ UNCHANGED <<m_count, hold>>
  /\ UNCHANGED <<m_type, m_owner, sem>>

\* rc == 0, in pthread_mutex_lock and in pthread_mutex_trylock: the record is
\* made to name the new owner.
LockDone(t) ==
  /\ pc[t] = "got"
  /\ m_owner' = t
  /\ m_count' = 0
  /\ ReturnHolding(t)
  /\ UNCHANGED <<m_type, sem>>

-----------------------------------------------------------------------------
(***************************************************************************)
(* pthread_mutex_trylock.                                                  *)
(***************************************************************************)
TryEnter(t) ==
  /\ pc[t] = "idle"
  /\ hold[t] < MaxDepth
  /\ \/ m_type \notin Live /\ Return(t, "EINVAL")
     \/ m_type = FAST /\ m_owner = t /\ Return(t, "EBUSY")
     \/ m_type = FAST /\ m_owner # t /\ Goto(t, "try")
     \/ m_type = COUNTING /\ Goto(t, "itry")
  /\ UNCHANGED <<m_type, m_owner, m_count, sem, hold>>

\* A FAST mutex: every failed request is EBUSY.
TryRequest(t) ==
  /\ pc[t] = "try"
  /\ \/ m_type # "zero" /\ Grantable(sem, t) /\ Take(t)
     \/ m_type = "zero" /\ Return(t, "EBUSY") /\ UNCHANGED sem
     \/ ~Grantable(sem, t) /\ Return(t, "EBUSY") /\ UNCHANGED sem
  /\ UNCHANGED <<m_type, m_owner, m_count, hold>>

\* A COUNTING mutex: rc 640 needs a look at the owner.
TryProbe(t) ==
  /\ pc[t] = "itry"
  /\ \/ m_type = "zero" /\ Return(t, "EINVAL") /\ UNCHANGED sem
     \/ m_type # "zero" /\ Grantable(sem, t) /\ Take(t)
     \/ m_type # "zero" /\ ~Grantable(sem, t) /\ Goto(t, "trybusy") /\ UNCHANGED sem
  /\ UNCHANGED <<m_type, m_owner, m_count, hold>>

TryBusy(t) ==
  /\ pc[t] = "trybusy"
  /\ \/ /\ m_owner = t
        /\ m_count' = m_count + 1
        /\ ReturnHolding(t)
     \/ /\ m_owner # t
        /\ Return(t, "EBUSY")
        /\ UNCHANGED <<m_count, hold>>
  /\ UNCHANGED <<m_type, m_owner, sem>>

-----------------------------------------------------------------------------
(***************************************************************************)
(* pthread_mutex_unlock.  The two reads of m_owner are one step: between   *)
(* them another thread can only turn one refusal into the other.           *)
(***************************************************************************)
UnlockRefused(t) ==
  /\ \/ m_type = "null" /\ Return(t, "EINVAL")
     \/ m_type # "null" /\ m_owner = NoThread /\ Return(t, "EPERM")
     \/ m_type \in Live /\ m_owner \notin {NoThread, t} /\ Return(t, "EINVAL")
     \/ m_type = "zero" /\ m_owner # NoThread /\ Return(t, "EINVAL")
  /\ UNCHANGED <<m_owner, m_count, hold>>

\* The record is cleared first; the kernel semaphore is still t's.
UnlockAccepted(t) ==
  /\ m_type \in Live
  /\ m_owner = t
  /\ hold' = [hold EXCEPT ![t] = @ - 1]
  /\ \/ /\ m_type = COUNTING /\ m_count > 0
        /\ m_count' = m_count - 1
        /\ Return(t, "ok")
        /\ UNCHANGED m_owner
     \/ /\ m_type = FAST \/ m_count = 0
        /\ m_owner' = NoThread
        /\ Goto(t, "unlocking")
        /\ UNCHANGED m_count

UnlockEnter(t) ==
  /\ pc[t] = "idle"
  /\ UnlockRefused(t) \/ UnlockAccepted(t)
  /\ UNCHANGED <<m_type, sem>>

\* DosReleaseMutexSem(m_mutex); its result is ignored.
UnlockRelease(t) ==
  /\ pc[t] = "unlocking"
  /\ sem' = IF m_type = "zero" THEN sem ELSE Released(sem, t)
  /\ Return(t, "ok")
  /\ UNCHANGED <<m_type, m_owner, m_count, hold>>

-----------------------------------------------------------------------------
(***************************************************************************)
(* pthread_mutex_destroy.  The record is emptied, then the semaphore is    *)
(* closed in a loop that answers "busy" (rc 301) with a release, which     *)
(* does nothing unless the caller is the one who holds it.                 *)
(***************************************************************************)
Unused(t) == \A u \in Threads \ {t} : pc[u] = "idle" /\ hold[u] = 0

DestroyEnter(t) ==
  /\ pc[t] = "idle"
  /\ DestroyInUse \/ Unused(t)
  /\ \/ /\ m_type = "null"
        /\ Return(t, "EINVAL")
        /\ UNCHANGED <<m_type, m_owner, m_count, hold>>
     \/ /\ m_type = "zero"
        /\ m_owner' = NoThread
        /\ Return(t, "EINVAL")
        /\ UNCHANGED <<m_type, m_count, hold>>
     \/ /\ m_type \in Live
        /\ m_type' = "zero"
        /\ m_count' = 0
        /\ hold' = [hold EXCEPT ![t] = 0]
        /\ Goto(t, "destroy")
        /\ UNCHANGED m_owner
  /\ UNCHANGED sem

SemBusy == sem.owner # NoThread \/ \E u \in Threads : pc[u] = "blocked"

DestroyRetry(t) ==
  /\ pc[t] = "destroy"
  /\ SemBusy
  /\ sem' = Released(sem, t)
  /\ UNCHANGED <<m_type, m_owner, m_count, pc, ret, hold>>

DestroyClose(t) ==
  /\ pc[t] = "destroy"
  /\ ~SemBusy
  /\ m_owner' = NoThread
  /\ Return(t, "ok")
  /\ UNCHANGED <<m_type, m_count, sem, hold>>

-----------------------------------------------------------------------------
\* The calls an application makes, and the steps a call then takes by itself.
Call(t) == InitMutex(t) \/ LockEnter(t) \/ TryEnter(t) \/ UnlockEnter(t) \/ DestroyEnter(t)

Step(t) == \/ LockRequest(t) \/ LockGrant(t) \/ LockProbe(t) \/ LockBusy(t) \/ LockDone(t)
           \/ TryRequest(t) \/ TryProbe(t) \/ TryBusy(t)
           \/ UnlockRelease(t)
           \/ DestroyRetry(t) \/ DestroyClose(t)

Next == \E t \in Threads : Call(t) \/ Step(t)

Spec == Init /\ [][Next]_mutexVars

-----------------------------------------------------------------------------
(***************************************************************************)
(* Fairness.  A thread inside a call keeps running, so each step of a call *)
(* is weakly fair.  OS/2 hands a released semaphore to a waiter, but which *)
(* one, and whether a running thread slips in first, is not promised:      *)
(* LockGrant is strongly fair, or else the library promises a waiter       *)
(* nothing.  The application owes the unlock of what it locked.            *)
(***************************************************************************)
Fairness ==
  \A t \in Threads :
    /\ WF_mutexVars(Step(t))
    /\ SF_mutexVars(LockGrant(t))
    /\ WF_mutexVars(hold[t] > 0 /\ UnlockEnter(t))

FairSpec == Spec /\ Fairness

-----------------------------------------------------------------------------
\* At most one thread has more locks than unlocks that returned 0, whatever
\* the kind of the mutex, the kernel's answer to a relock, and destruction.
MutualExclusion ==
  \A t, u \in Threads : hold[t] > 0 /\ hold[u] > 0 => t = u

\* A thread that the record names as owner owns the kernel semaphore too, so
\* the tests of m_owner in pthread_mutex_lock, _trylock and _unlock never act
\* on the name of a thread that has let the semaphore go.
OwnerHoldsSem ==
  \A t \in Threads : m_owner = t => sem.owner = t \/ pc[t] = "destroy"

\* The owner and the count in the record agree with the locks and unlocks
\* that returned 0: pthread_mutex_unlock can be called as often as the lock
\* was taken, and no oftener.
RecordMatchesHolds ==
  m_type \in Live =>
    \A t \in Threads : hold[t] = IF m_owner = t THEN m_count + 1 ELSE 0

\* pthread_mutex_lock never makes a thread wait for itself: the double-lock
\* test of a FAST mutex and the rc 640 branch of a COUNTING one see to it.
NoSelfDeadlock ==
  \A t \in Threads : pc[t] = "blocked" => sem.owner # t

\* Nobody is inside a call and nobody holds the mutex: the semaphore is free,
\* and the next pthread_mutex_lock will not wait.
SemFreeWhenUnused ==
  (\A t \in Threads : pc[t] = "idle" /\ hold[t] = 0) => sem = Free

(***************************************************************************)
(* The invariant behind MutualExclusion and OwnerHoldsSem, for every kind  *)
(* of mutex, either kernel and any use of pthread_mutex_destroy.           *)
(***************************************************************************)
Inside        == {"got", "unlocking"}
CountingSteps == {"ilock", "busy", "itry", "trybusy"}

\* Inside a granted request, inside an unlock under way, or with locks left,
\* a thread owns the kernel semaphore; so does the thread the record names,
\* which has more locks left than m_count says.  Destroying takes them away.
EvidenceOfOwning ==
  \A t \in Threads :
    /\ pc[t] \in Inside => sem.owner = t
    /\ hold[t] > 0 => sem.owner = t
    /\ m_owner = t => pc[t] = "destroy" \/ (sem.owner = t /\ hold[t] > m_count)
    /\ pc[t] = "destroy" => hold[t] = 0 /\ m_type = "zero"

\* The kernel counts enough requests for the locks that will be given back.
CountsCover ==
  /\ sem.owner = NoThread <=> sem.count = 0
  /\ \A t \in Threads :
       sem.owner = t =>
         /\ pc[t] \in Inside => hold[t] + 1 <= sem.count
         /\ m_type # "zero" => hold[t] <= sem.count + m_count

\* Locks are counted by the kernel or in m_count, never by both, and m_count
\* is used for a COUNTING mutex that somebody owns only.
OneCounter ==
  /\ OwnerReenters => m_count = 0
  /\ ~OwnerReenters => sem.count <= 1
  /\ m_type # "zero" /\ m_count > 0 => m_owner # NoThread
  /\ m_type \in {"null", FAST} =>
       m_count = 0 /\ \A t \in Threads : pc[t] \notin CountingSteps

\* Where the kernel answers the owner of the semaphore with rc 0, a thread
\* that was told rc 640 does not own it.
BusyIsSomeoneElse ==
  OwnerReenters =>
    \A t \in Threads : pc[t] \in {"busy", "trybusy", "blocked"} => sem.owner # t

OwnershipInv == EvidenceOfOwning /\ CountsCover /\ OneCounter /\ BusyIsSomeoneElse

\* pthread.h:191 calls the COUNTING mutex recursive: a thread that still owes
\* unlocks is the owner that pthread_mutex_unlock wants to see.
RecursiveUnlock ==
  m_type = COUNTING =>
    \A t \in Threads : hold[t] > 0 /\ pc[t] = "idle" => m_owner = t

\* pthread_mutex_* is the recursive lock of AbstractMutex: the thread that
\* holds it is the one with locks left, and an error tells the truth.
Holder == IF \E t \in Threads : hold[t] > 0
          THEN CHOOSE t \in Threads : hold[t] > 0
          ELSE NoThread
Depth  == IF Holder = NoThread THEN 0 ELSE hold[Holder]

Abstract == INSTANCE AbstractMutex
              WITH holder <- Holder, depth <- Depth, result <- ret
ImplementsAbstractMutex == Abstract!Spec

\* A thread that waits for a FAST mutex in pthread_mutex_lock gets it, as long
\* as the holders unlock.  (The holder of a COUNTING mutex may relock it for
\* ever.)
LockReturns ==
  \A t \in Threads : (pc[t] = "blocked" /\ m_type = FAST) ~> (pc[t] # "blocked")

\* The loop of pthread_mutex_destroy around DosCloseMutexSem ends.
DestroyReturns ==
  \A t \in Threads : (pc[t] = "destroy") ~> (pc[t] = "idle")
=============================================================================
