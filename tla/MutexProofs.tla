----------------------------- MODULE MutexProofs -----------------------------
(***************************************************************************)
(* Proofs about Mutex, for every set of threads, every kind of mutex,      *)
(* either kernel and any use of pthread_mutex_destroy.                     *)
(***************************************************************************)
EXTENDS Mutex, TLAPS

IInv == TypeOK /\ OwnershipInv

(***************************************************************************)
(* A step leaves everything well typed.  Counts never go below zero: the   *)
(* unlock that is accepted finds a lock to take back, and the kernel a     *)
(* request.                                                                *)
(***************************************************************************)
LEMMA TypeStep == IInv /\ [Next]_mutexVars => TypeOK'
<1> SUFFICES ASSUME IInv, [Next]_mutexVars PROVE TypeOK'
  OBVIOUS
<1> USE ThreadAssumption, KindsAssumption
        DEF IInv, TypeOK, HMTX, Locations, Results, Live, FAST, COUNTING
<1>1. CASE UNCHANGED mutexVars
  BY <1>1 DEF mutexVars
<1>2. ASSUME NEW t \in Threads, Call(t) PROVE TypeOK'
  <2>1. CASE InitMutex(t)
    BY <2>1 DEF InitMutex, Return
  <2>2. CASE LockEnter(t)
    BY <2>2 DEF LockEnter, Goto, Return
  <2>3. CASE TryEnter(t)
    BY <2>3 DEF TryEnter, Goto, Return
  <2>4. CASE UnlockEnter(t)
    BY <2>4 DEF UnlockEnter, UnlockRefused, UnlockAccepted, Goto, Return,
                   OwnershipInv, EvidenceOfOwning
  <2>5. CASE DestroyEnter(t)
    BY <2>5 DEF DestroyEnter, Goto, Return
  <2> QED
    BY <1>2, <2>1, <2>2, <2>3, <2>4, <2>5 DEF Call
<1>3. ASSUME NEW t \in Threads, Step(t) PROVE TypeOK'
  <2> USE DEF Goto, Return, ReturnHolding, Take, Requested, Released, Free
  <2>1. CASE LockRequest(t)
    BY <2>1 DEF LockRequest
  <2>2. CASE LockGrant(t)
    BY <2>2 DEF LockGrant
  <2>3. CASE LockProbe(t)
    BY <2>3 DEF LockProbe
  <2>4. CASE LockBusy(t)
    BY <2>4 DEF LockBusy
  <2>5. CASE LockDone(t)
    BY <2>5 DEF LockDone
  <2>6. CASE TryRequest(t)
    BY <2>6 DEF TryRequest
  <2>7. CASE TryProbe(t)
    BY <2>7 DEF TryProbe
  <2>8. CASE TryBusy(t)
    BY <2>8 DEF TryBusy
  <2>9. CASE UnlockRelease(t)
    BY <2>9 DEF UnlockRelease, OwnershipInv, CountsCover
  <2>10. CASE DestroyRetry(t)
    BY <2>10 DEF DestroyRetry, OwnershipInv, CountsCover
  <2>11. CASE DestroyClose(t)
    BY <2>11 DEF DestroyClose
  <2> QED
    BY <1>3, <2>1, <2>2, <2>3, <2>4, <2>5, <2>6, <2>7, <2>8, <2>9, <2>10, <2>11
    DEF Step
<1> QED
  BY <1>1, <1>2, <1>3 DEF Next

-----------------------------------------------------------------------------
(***************************************************************************)
(* A step keeps the invariant.  Each operation disturbs the parts of it    *)
(* named under its step; for the others the argument is the same: the      *)
(* operation speaks of one thread, and the semaphore has one owner.        *)
(***************************************************************************)
LEMMA OwnershipStep == IInv /\ [Next]_mutexVars => OwnershipInv'
<1> SUFFICES ASSUME IInv, [Next]_mutexVars PROVE OwnershipInv'
  OBVIOUS
<1>1. TypeOK'
  BY TypeStep
<1> USE <1>1, ThreadAssumption, ReenterAssumption, KindsAssumption
        DEF IInv, TypeOK, HMTX, Live, FAST, COUNTING, Inside, CountingSteps
<1>2. CASE UNCHANGED mutexVars
  BY <1>2 DEF mutexVars, OwnershipInv, EvidenceOfOwning, CountsCover, OneCounter,
              BusyIsSomeoneElse
<1>3. ASSUME NEW t \in Threads, Call(t) PROVE OwnershipInv'
  <2> USE DEF Goto, Return
  <2>1. CASE InitMutex(t)
    <3>1. EvidenceOfOwning'
      BY <2>1 DEF InitMutex, OwnershipInv, EvidenceOfOwning
    <3>2. CountsCover'
      BY <2>1 DEF InitMutex, OwnershipInv, CountsCover
    <3>3. OneCounter'
      BY <2>1 DEF InitMutex, OwnershipInv, OneCounter
    <3>4. BusyIsSomeoneElse'
      BY <2>1 DEF InitMutex, OwnershipInv, BusyIsSomeoneElse
    <3> QED
      BY <3>1, <3>2, <3>3, <3>4 DEF OwnershipInv
  <2>2. CASE LockEnter(t)
    <3>1. EvidenceOfOwning'
      BY <2>2 DEF LockEnter, OwnershipInv, EvidenceOfOwning
    <3>2. CountsCover'
      BY <2>2 DEF LockEnter, OwnershipInv, CountsCover
    <3>3. OneCounter'
      BY <2>2 DEF LockEnter, OwnershipInv, OneCounter
    <3>4. BusyIsSomeoneElse'
      BY <2>2 DEF LockEnter, OwnershipInv, BusyIsSomeoneElse
    <3> QED
      BY <3>1, <3>2, <3>3, <3>4 DEF OwnershipInv
  <2>3. CASE TryEnter(t)
    <3>1. EvidenceOfOwning'
      BY <2>3 DEF TryEnter, OwnershipInv, EvidenceOfOwning
    <3>2. CountsCover'
      BY <2>3 DEF TryEnter, OwnershipInv, CountsCover
    <3>3. OneCounter'
      BY <2>3 DEF TryEnter, OwnershipInv, OneCounter
    <3>4. BusyIsSomeoneElse'
      BY <2>3 DEF TryEnter, OwnershipInv, BusyIsSomeoneElse
    <3> QED
      BY <3>1, <3>2, <3>3, <3>4 DEF OwnershipInv
  <2>4. CASE UnlockEnter(t)
    <3>1. EvidenceOfOwning'
      BY <2>4 DEF UnlockEnter, UnlockRefused, UnlockAccepted, OwnershipInv, EvidenceOfOwning
    <3>2. CountsCover'
      BY <2>4 DEF UnlockEnter, UnlockRefused, UnlockAccepted, OwnershipInv, EvidenceOfOwning, CountsCover, OneCounter
    <3>3. OneCounter'
      BY <2>4 DEF UnlockEnter, UnlockRefused, UnlockAccepted, OwnershipInv, OneCounter
    <3>4. BusyIsSomeoneElse'
      BY <2>4 DEF UnlockEnter, UnlockRefused, UnlockAccepted, OwnershipInv, BusyIsSomeoneElse
    <3> QED
      BY <3>1, <3>2, <3>3, <3>4 DEF OwnershipInv
  <2>5. CASE DestroyEnter(t)
    <3>1. EvidenceOfOwning'
      BY <2>5 DEF DestroyEnter, OwnershipInv, EvidenceOfOwning
    <3>2. CountsCover'
      BY <2>5 DEF DestroyEnter, OwnershipInv, CountsCover
    <3>3. OneCounter'
      BY <2>5 DEF DestroyEnter, OwnershipInv, OneCounter
    <3>4. BusyIsSomeoneElse'
      BY <2>5 DEF DestroyEnter, OwnershipInv, BusyIsSomeoneElse
    <3> QED
      BY <3>1, <3>2, <3>3, <3>4 DEF OwnershipInv
  <2> QED
    BY <1>3, <2>1, <2>2, <2>3, <2>4, <2>5 DEF Call
<1>4. ASSUME NEW t \in Threads, Step(t) PROVE OwnershipInv'
  <2> USE DEF Goto, Return, ReturnHolding, Take, Grantable, Requested, Released, Free
  <2>1. CASE LockRequest(t)
    <3>1. EvidenceOfOwning'
      BY <2>1 DEF LockRequest, OwnershipInv, EvidenceOfOwning
    <3>2. CountsCover'
      BY <2>1 DEF LockRequest, OwnershipInv, EvidenceOfOwning, CountsCover, OneCounter
    <3>3. OneCounter'
      BY <2>1 DEF LockRequest, OwnershipInv, CountsCover, OneCounter
    <3>4. BusyIsSomeoneElse'
      BY <2>1 DEF LockRequest, OwnershipInv, BusyIsSomeoneElse
    <3> QED
      BY <3>1, <3>2, <3>3, <3>4 DEF OwnershipInv
  <2>2. CASE LockGrant(t)
    <3>1. EvidenceOfOwning'
      BY <2>2 DEF LockGrant, OwnershipInv, EvidenceOfOwning
    <3>2. CountsCover'
      BY <2>2 DEF LockGrant, OwnershipInv, EvidenceOfOwning, CountsCover
    <3>3. OneCounter'
      BY <2>2 DEF LockGrant, OwnershipInv, CountsCover, OneCounter
    <3>4. BusyIsSomeoneElse'
      BY <2>2 DEF LockGrant, OwnershipInv, BusyIsSomeoneElse
    <3> QED
      BY <3>1, <3>2, <3>3, <3>4 DEF OwnershipInv
  <2>3. CASE LockProbe(t)
    <3>1. EvidenceOfOwning'
      BY <2>3 DEF LockProbe, OwnershipInv, EvidenceOfOwning
    <3>2. CountsCover'
      BY <2>3 DEF LockProbe, OwnershipInv, EvidenceOfOwning, CountsCover, OneCounter
    <3>3. OneCounter'
      BY <2>3 DEF LockProbe, OwnershipInv, CountsCover, OneCounter
    <3>4. BusyIsSomeoneElse'
      BY <2>3 DEF LockProbe, OwnershipInv, BusyIsSomeoneElse
    <3> QED
      BY <3>1, <3>2, <3>3, <3>4 DEF OwnershipInv
  <2>4. CASE LockBusy(t)
    <3>1. EvidenceOfOwning'
      BY <2>4 DEF LockBusy, OwnershipInv, EvidenceOfOwning
    <3>2. CountsCover'
      BY <2>4 DEF LockBusy, OwnershipInv, CountsCover
    <3>3. OneCounter'
      BY <2>4 DEF LockBusy, OwnershipInv, EvidenceOfOwning, OneCounter, BusyIsSomeoneElse
    <3>4. BusyIsSomeoneElse'
      BY <2>4 DEF LockBusy, OwnershipInv, BusyIsSomeoneElse
    <3> QED
      BY <3>1, <3>2, <3>3, <3>4 DEF OwnershipInv
  <2>5. CASE LockDone(t)
    <3>1. EvidenceOfOwning'
      BY <2>5 DEF LockDone, OwnershipInv, EvidenceOfOwning
    <3>2. CountsCover'
      BY <2>5 DEF LockDone, OwnershipInv, EvidenceOfOwning, CountsCover
    <3>3. OneCounter'
      BY <2>5 DEF LockDone, OwnershipInv, OneCounter
    <3>4. BusyIsSomeoneElse'
      BY <2>5 DEF LockDone, OwnershipInv, BusyIsSomeoneElse
    <3> QED
      BY <3>1, <3>2, <3>3, <3>4 DEF OwnershipInv
  <2>6. CASE TryRequest(t)
    <3>1. EvidenceOfOwning'
      BY <2>6 DEF TryRequest, OwnershipInv, EvidenceOfOwning
    <3>2. CountsCover'
      BY <2>6 DEF TryRequest, OwnershipInv, EvidenceOfOwning, CountsCover, OneCounter
    <3>3. OneCounter'
      BY <2>6 DEF TryRequest, OwnershipInv, CountsCover, OneCounter
    <3>4. BusyIsSomeoneElse'
      BY <2>6 DEF TryRequest, OwnershipInv, BusyIsSomeoneElse
    <3> QED
      BY <3>1, <3>2, <3>3, <3>4 DEF OwnershipInv
  <2>7. CASE TryProbe(t)
    <3>1. EvidenceOfOwning'
      BY <2>7 DEF TryProbe, OwnershipInv, EvidenceOfOwning
    <3>2. CountsCover'
      BY <2>7 DEF TryProbe, OwnershipInv, EvidenceOfOwning, CountsCover, OneCounter
    <3>3. OneCounter'
      BY <2>7 DEF TryProbe, OwnershipInv, CountsCover, OneCounter
    <3>4. BusyIsSomeoneElse'
      BY <2>7 DEF TryProbe, OwnershipInv, BusyIsSomeoneElse
    <3> QED
      BY <3>1, <3>2, <3>3, <3>4 DEF OwnershipInv
  <2>8. CASE TryBusy(t)
    <3>1. EvidenceOfOwning'
      BY <2>8 DEF TryBusy, OwnershipInv, EvidenceOfOwning
    <3>2. CountsCover'
      BY <2>8 DEF TryBusy, OwnershipInv, CountsCover
    <3>3. OneCounter'
      BY <2>8 DEF TryBusy, OwnershipInv, EvidenceOfOwning, OneCounter, BusyIsSomeoneElse
    <3>4. BusyIsSomeoneElse'
      BY <2>8 DEF TryBusy, OwnershipInv, BusyIsSomeoneElse
    <3> QED
      BY <3>1, <3>2, <3>3, <3>4 DEF OwnershipInv
  <2>9. CASE UnlockRelease(t)
    <3>1. EvidenceOfOwning'
      BY <2>9 DEF UnlockRelease, OwnershipInv, EvidenceOfOwning, CountsCover
    <3>2. CountsCover'
      BY <2>9 DEF UnlockRelease, OwnershipInv, CountsCover
    <3>3. OneCounter'
      BY <2>9 DEF UnlockRelease, OwnershipInv, OneCounter
    <3>4. BusyIsSomeoneElse'
      BY <2>9 DEF UnlockRelease, OwnershipInv, BusyIsSomeoneElse
    <3> QED
      BY <3>1, <3>2, <3>3, <3>4 DEF OwnershipInv
  <2>10. CASE DestroyRetry(t)
    <3>1. EvidenceOfOwning'
      BY <2>10 DEF DestroyRetry, OwnershipInv, EvidenceOfOwning
    <3>2. CountsCover'
      BY <2>10 DEF DestroyRetry, OwnershipInv, EvidenceOfOwning, CountsCover
    <3>3. OneCounter'
      BY <2>10 DEF DestroyRetry, OwnershipInv, OneCounter
    <3>4. BusyIsSomeoneElse'
      BY <2>10 DEF DestroyRetry, OwnershipInv, BusyIsSomeoneElse
    <3> QED
      BY <3>1, <3>2, <3>3, <3>4 DEF OwnershipInv
  <2>11. CASE DestroyClose(t)
    <3>1. EvidenceOfOwning'
      BY <2>11 DEF DestroyClose, OwnershipInv, EvidenceOfOwning
    <3>2. CountsCover'
      BY <2>11 DEF DestroyClose, OwnershipInv, CountsCover
    <3>3. OneCounter'
      BY <2>11 DEF DestroyClose, OwnershipInv, EvidenceOfOwning, OneCounter
    <3>4. BusyIsSomeoneElse'
      BY <2>11 DEF DestroyClose, OwnershipInv, BusyIsSomeoneElse
    <3> QED
      BY <3>1, <3>2, <3>3, <3>4 DEF OwnershipInv
  <2> QED
    BY <1>4, <2>1, <2>2, <2>3, <2>4, <2>5, <2>6, <2>7, <2>8, <2>9, <2>10, <2>11
    DEF Step
<1> QED
  BY <1>2, <1>3, <1>4 DEF Next

-----------------------------------------------------------------------------
LEMMA InitInv == Init => IInv
<1> SUFFICES ASSUME Init PROVE IInv
  OBVIOUS
<1> USE ThreadAssumption DEF Init
<1>1. TypeOK
  BY DEF TypeOK, HMTX, Free, Locations, Results
<1>2. OwnershipInv
  BY DEF OwnershipInv, EvidenceOfOwning, CountsCover, OneCounter, BusyIsSomeoneElse,
         Free, Inside, CountingSteps
<1> QED
  BY <1>1, <1>2 DEF IInv

LEMMA Invariance == Spec => []IInv
<1>1. IInv /\ [Next]_mutexVars => IInv'
  BY TypeStep, OwnershipStep DEF IInv
<1> QED
  BY InitInv, <1>1, PTL DEF Spec

-----------------------------------------------------------------------------
\* The record, the semaphore and every thread's place in its call stay well
\* typed; in particular no unlock takes a count below zero.
THEOREM TypeCorrect == Spec => []TypeOK
<1>1. IInv => TypeOK
  BY DEF IInv
<1> QED
  BY Invariance, <1>1, PTL

\* Whoever has evidence of owning the mutex owns the kernel semaphore, which
\* has counted requests enough for what pthread_mutex_unlock will give back.
THEOREM OwnershipAlways == Spec => []OwnershipInv
<1>1. IInv => OwnershipInv
  BY DEF IInv
<1> QED
  BY Invariance, <1>1, PTL

\* pthread_mutex_lock and pthread_mutex_trylock return 0 to a thread only
\* while no other thread has locks left.
THEOREM MutualExclusionHolds == Spec => []MutualExclusion
<1>1. IInv => MutualExclusion
  BY DEF IInv, OwnershipInv, EvidenceOfOwning, MutualExclusion
<1> QED
  BY Invariance, <1>1, PTL

\* The m_owner that pthread_mutex_lock, _trylock and _unlock test names a
\* thread that owns the semaphore, unless that thread is destroying it.
THEOREM OwnerHoldsSemAlways == Spec => []OwnerHoldsSem
<1>1. IInv => OwnerHoldsSem
  BY DEF IInv, OwnershipInv, EvidenceOfOwning, OwnerHoldsSem
<1> QED
  BY Invariance, <1>1, PTL

-----------------------------------------------------------------------------
(***************************************************************************)
(* What the kernel semaphore and the record of a mutex say of each other,  *)
(* and of the calls under way.                                             *)
(***************************************************************************)

\* Before pthread_mutex_init nothing has happened yet, and then the mutex is
\* of a kind the application asks for.
Untouched ==
  /\ m_type = "null" =>
       /\ m_owner = NoThread /\ sem.owner = NoThread
       /\ \A t \in Threads : pc[t] = "idle" /\ hold[t] = 0
  /\ m_type \in Live => m_type \in Kinds

\* The kernel counts no request that is neither a lock to be given back nor
\* part of a call under way: the converse of CountsCover.
NothingLeft ==
  m_type \in Live =>
    \A t \in Threads :
      sem.owner = t => sem.count <= hold[t] + (IF pc[t] \in Inside THEN 1 ELSE 0)

\* A destroyed mutex is at rest or somebody is still closing it.
AtRest ==
  m_type = "zero" =>
    \/ \E t \in Threads : pc[t] = "destroy"
    \/ sem.owner = NoThread /\ \A t \in Threads : pc[t] # "blocked"

SemInv == IInv /\ Untouched /\ NothingLeft /\ AtRest

\* A thread that waits for the semaphore, or has it before or after the
\* record says so, is not the owner the record names.  So the record is exact
\* unless the kernel grants the owner of a COUNTING mutex another request.
Asking == {"lock", "blocked", "try"} \cup Inside

RecordExact ==
  ~OwnerReenters \/ m_type = FAST =>
    /\ RecordMatchesHolds
    /\ m_type \in Live => \A t \in Threads : pc[t] \in Asking => m_owner # t

RecordInv == SemInv /\ RecordExact /\ NoSelfDeadlock

-----------------------------------------------------------------------------
LEMMA SemStep ==
  ASSUME SemInv, NEW t \in Threads, Call(t) \/ Step(t)
  PROVE  Untouched' /\ NothingLeft' /\ AtRest'
<1> USE ThreadAssumption, ReenterAssumption, KindsAssumption
        DEF SemInv, Untouched, NothingLeft, AtRest, IInv, TypeOK, HMTX, Live, FAST, COUNTING,
            OwnershipInv, EvidenceOfOwning, CountsCover, OneCounter, Inside, CountingSteps,
            Goto, Return, ReturnHolding, Take, Grantable, Requested, Released, Free
<1>1. CASE InitMutex(t)
  BY <1>1 DEF InitMutex
<1>2. CASE LockEnter(t)
  BY <1>2 DEF LockEnter
<1>3. CASE TryEnter(t)
  BY <1>3 DEF TryEnter
<1>4. CASE UnlockEnter(t)
  BY <1>4 DEF UnlockEnter, UnlockRefused, UnlockAccepted
<1>5. CASE DestroyEnter(t)
  BY <1>5 DEF DestroyEnter
<1>6. CASE LockRequest(t)
  BY <1>6 DEF LockRequest
<1>7. CASE LockGrant(t)
  BY <1>7 DEF LockGrant
<1>8. CASE LockProbe(t)
  BY <1>8 DEF LockProbe
<1>9. CASE LockBusy(t)
  BY <1>9 DEF LockBusy
<1>10. CASE LockDone(t)
  BY <1>10 DEF LockDone
<1>11. CASE TryRequest(t)
  BY <1>11 DEF TryRequest
<1>12. CASE TryProbe(t)
  BY <1>12 DEF TryProbe
<1>13. CASE TryBusy(t)
  BY <1>13 DEF TryBusy
<1>14. CASE UnlockRelease(t)
  BY <1>14 DEF UnlockRelease
<1>15. CASE DestroyRetry(t)
  BY <1>15 DEF DestroyRetry, SemBusy
<1>16. CASE DestroyClose(t)
  BY <1>16 DEF DestroyClose, SemBusy
<1> QED
  BY <1>1, <1>2, <1>3, <1>4, <1>5, <1>6, <1>7, <1>8, <1>9, <1>10, <1>11, <1>12, <1>13, <1>14, <1>15, <1>16
  DEF Call, Step

LEMMA RecordStep ==
  ASSUME RecordInv, NEW t \in Threads, Call(t) \/ Step(t)
  PROVE  RecordExact' /\ NoSelfDeadlock'
<1> USE ThreadAssumption, ReenterAssumption, KindsAssumption
        DEF RecordInv, RecordExact, RecordMatchesHolds, NoSelfDeadlock, Asking,
            SemInv, Untouched, NothingLeft, IInv, TypeOK, HMTX, Live, FAST, COUNTING,
            OwnershipInv, EvidenceOfOwning, CountsCover, OneCounter, BusyIsSomeoneElse,
            Inside, CountingSteps,
            Goto, Return, ReturnHolding, Take, Grantable, Requested, Released, Free
<1>1. CASE InitMutex(t)
  BY <1>1 DEF InitMutex
<1>2. CASE LockEnter(t)
  BY <1>2 DEF LockEnter
<1>3. CASE TryEnter(t)
  BY <1>3 DEF TryEnter
<1>4. CASE UnlockEnter(t)
  BY <1>4 DEF UnlockEnter, UnlockRefused, UnlockAccepted
<1>5. CASE DestroyEnter(t)
  BY <1>5 DEF DestroyEnter
<1>6. CASE LockRequest(t)
  BY <1>6 DEF LockRequest
<1>7. CASE LockGrant(t)
  BY <1>7 DEF LockGrant
<1>8. CASE LockProbe(t)
  BY <1>8 DEF LockProbe
<1>9. CASE LockBusy(t)
  BY <1>9 DEF LockBusy
<1>10. CASE LockDone(t)
  BY <1>10 DEF LockDone
<1>11. CASE TryRequest(t)
  BY <1>11 DEF TryRequest
<1>12. CASE TryProbe(t)
  BY <1>12 DEF TryProbe
<1>13. CASE TryBusy(t)
  BY <1>13 DEF TryBusy
<1>14. CASE UnlockRelease(t)
  BY <1>14 DEF UnlockRelease
<1>15. CASE DestroyRetry(t)
  BY <1>15 DEF DestroyRetry, SemBusy
<1>16. CASE DestroyClose(t)
  BY <1>16 DEF DestroyClose, SemBusy
<1> QED
  BY <1>1, <1>2, <1>3, <1>4, <1>5, <1>6, <1>7, <1>8, <1>9, <1>10, <1>11, <1>12, <1>13, <1>14, <1>15, <1>16
  DEF Call, Step

LEMMA RecordInitially == Init => RecordInv
<1>1. Init => IInv
  BY InitInv
<1> QED
  BY <1>1, ThreadAssumption
  DEF Init, RecordInv, SemInv, Untouched, NothingLeft, AtRest, RecordExact, RecordMatchesHolds,
      NoSelfDeadlock, Live, FAST, COUNTING, Free

LEMMA RecordInvariance == Spec => []RecordInv
<1>1. RecordInv /\ [Next]_mutexVars => RecordInv'
  <2> SUFFICES ASSUME RecordInv, [Next]_mutexVars PROVE RecordInv'
    OBVIOUS
  <2>1. IInv'
    BY TypeStep, OwnershipStep DEF RecordInv, SemInv, IInv
  <2>2. CASE UNCHANGED mutexVars
    BY <2>1, <2>2
    DEF RecordInv, SemInv, Untouched, NothingLeft, AtRest, RecordExact, RecordMatchesHolds,
        NoSelfDeadlock, mutexVars
  <2>3. CASE Next
    BY <2>1, <2>3, SemStep, RecordStep DEF RecordInv, SemInv, Next
  <2> QED
    BY <2>2, <2>3
<1> QED
  BY RecordInitially, <1>1, PTL DEF Spec

-----------------------------------------------------------------------------
\* However calls mix, destruction of a mutex in use included: with nobody
\* inside a call of uthread_mutex.c and no lock to be given back, the kernel
\* semaphore is free.
THEOREM SemFreeAlways == Spec => []SemFreeWhenUnused
<1>1. RecordInv => SemFreeWhenUnused
  BY DEF RecordInv, SemInv, IInv, TypeOK, HMTX, Live, OwnershipInv, CountsCover, Untouched,
         NothingLeft, AtRest, SemFreeWhenUnused, Free, Inside
<1> QED
  BY RecordInvariance, <1>1, PTL

\* pthread_mutex_lock never waits in the kernel for a semaphore that its
\* caller owns: on neither kernel, for neither kind.
THEOREM NoSelfDeadlockEver == Spec => []NoSelfDeadlock
<1>1. RecordInv => NoSelfDeadlock
  BY DEF RecordInv
<1> QED
  BY RecordInvariance, <1>1, PTL

\* The fields m_owner and m_count count the locks each thread has to give
\* back, provided that the kernel answers a relock with rc 640 or that no
\* mutex is COUNTING.
THEOREM RecordMatchesAlways ==
  ASSUME ~OwnerReenters \/ COUNTING \notin Kinds
  PROVE  Spec => []RecordMatchesHolds
<1>1. RecordInv => RecordMatchesHolds
  BY DEF RecordInv, SemInv, Untouched, RecordExact, RecordMatchesHolds, Live
<1> QED
  BY RecordInvariance, <1>1, PTL

-----------------------------------------------------------------------------
(***************************************************************************)
(* uthread_mutex.c implements AbstractMutex, for every set of threads and  *)
(* every depth: the initial state maps to the initial state, and each step *)
(* to a step of the abstract mutex or to none.                             *)
(***************************************************************************)

\* Of a destroyed mutex nobody has a lock, and the calls on it have failed.
NobodyLeft ==
  m_type = "zero" => \A t \in Threads : pc[t] \in {"idle", "destroy"} /\ hold[t] = 0

UseInv == RecordInv /\ NobodyLeft

-----------------------------------------------------------------------------
(***************************************************************************)
(* The refinement mapping.                                                 *)
(***************************************************************************)
LEMMA HolderIs ==
  ASSUME MutualExclusion, NEW t \in Threads, hold[t] > 0
  PROVE  Holder = t /\ Depth = hold[t]
<1>1. t # NoThread
  BY ThreadAssumption
<1>2. Holder = CHOOSE u \in Threads : hold[u] > 0
  BY DEF Holder
<1>3. Holder \in Threads /\ hold[Holder] > 0
  BY <1>2
<1>4. Holder = t
  BY <1>3 DEF MutualExclusion
<1> QED
  BY <1>1, <1>4 DEF Depth

LEMMA NoHolder ==
  ASSUME \A t \in Threads : hold[t] = 0
  PROVE  Holder = NoThread /\ Depth = 0
BY DEF Holder, Depth

\* The same in the next state.
LEMMA HolderBecomes ==
  ASSUME MutualExclusion', NEW t \in Threads, hold'[t] > 0
  PROVE  Holder' = t /\ Depth' = hold'[t]
<1>1. t # NoThread
  BY ThreadAssumption
<1>2. Holder' = CHOOSE u \in Threads : hold'[u] > 0
  BY DEF Holder
<1>3. Holder' \in Threads /\ hold'[Holder'] > 0
  BY <1>2
<1>4. Holder' = t
  BY <1>3 DEF MutualExclusion
<1> QED
  BY <1>1, <1>4 DEF Depth

LEMMA NoHolderNext ==
  ASSUME \A t \in Threads : hold'[t] = 0
  PROVE  Holder' = NoThread /\ Depth' = 0
BY DEF Holder, Depth

LEMMA HolderSame ==
  ASSUME UNCHANGED hold
  PROVE  UNCHANGED <<Holder, Depth>>
BY DEF Holder, Depth

-----------------------------------------------------------------------------
(***************************************************************************)
(* What the steps of the library are to the abstract mutex.                *)
(***************************************************************************)
LEMMA IsAcquire ==
  ASSUME UseInv, NEW t \in Threads, ReturnHolding(t), \A u \in Threads \ {t} : hold[u] = 0,
         MutualExclusion, MutualExclusion'
  PROVE  Abstract!Acquire(t)
<1> USE DEF UseInv, RecordInv, SemInv, IInv, TypeOK
<1>1. hold'[t] = hold[t] + 1 /\ hold[t] \in Nat
  BY DEF ReturnHolding
<1>2. Holder' = t /\ Depth' = hold[t] + 1
  BY <1>1, HolderBecomes
<1>3. Holder \in {NoThread, t} /\ Depth = hold[t]
  <2>1. CASE hold[t] > 0
    BY <2>1, HolderIs
  <2>2. CASE hold[t] = 0
    BY <2>2, NoHolder
  <2> QED
    BY <1>1, <2>1, <2>2
<1> QED
  BY <1>2, <1>3 DEF ReturnHolding, Return, Abstract!Acquire, Abstract!Answer

\* All unlocks that are accepted, and the destruction.
LEMMA IsLeave ==
  ASSUME UseInv, NEW t \in Threads, hold[t] > 1, Return(t, "ok"),
         hold' = [hold EXCEPT ![t] = @ - 1], MutualExclusion, MutualExclusion'
  PROVE  Abstract!Leave(t)
<1> USE DEF UseInv, RecordInv, SemInv, IInv, TypeOK
<1>1. hold'[t] = hold[t] - 1 /\ hold[t] \in Nat
  OBVIOUS
<1>2. Holder' = t /\ Depth' = hold[t] - 1
  BY <1>1, HolderBecomes
<1>3. Holder = t /\ Depth = hold[t]
  BY <1>1, HolderIs
<1> QED
  BY <1>2, <1>3 DEF Return, Abstract!Leave, Abstract!Answer

LEMMA IsAbandon ==
  ASSUME UseInv, NEW t \in Threads, hold[t] > 0, UNCHANGED ret,
         hold' = [hold EXCEPT ![t] = 0], MutualExclusion
  PROVE  Abstract!Abandon(t)
<1> USE DEF UseInv, RecordInv, SemInv, IInv, TypeOK
<1>1. \A u \in Threads : hold'[u] = 0
  BY DEF MutualExclusion
<1>2. Holder = t
  BY HolderIs
<1> QED
  BY <1>1, <1>2, NoHolderNext DEF Abstract!Abandon

\* An answer without a lock or an unlock.
LEMMA IsAnswer ==
  ASSUME NEW t \in Threads, NEW r, Return(t, r), UNCHANGED hold,
         \/ r = "EDEADLK" /\ Holder = t
         \/ r \in {"EPERM", "EINVAL", "ok"} /\ Holder # t
         \/ r = "ENOMEM" /\ Holder = NoThread
         \/ r = "EBUSY"
  PROVE  Abstract!Refuse(t) \/ Abstract!Finish(t)
BY HolderSame DEF Return, Abstract!Refuse, Abstract!Finish, Abstract!Answer

\* A thread without a lock is not the holder.
LEMMA NotHolder ==
  ASSUME UseInv, MutualExclusion, NEW t \in Threads, hold[t] = 0
  PROVE  Holder # t
<1>1. CASE \A u \in Threads : hold[u] = 0
  BY <1>1, NoHolder, ThreadAssumption
<1>2. ASSUME NEW u \in Threads, hold[u] # 0 PROVE Holder # t
  BY <1>2, HolderIs DEF UseInv, RecordInv, SemInv, IInv, TypeOK
<1> QED
  BY <1>1, <1>2

-----------------------------------------------------------------------------
(***************************************************************************)
(* The steps, one by one.                                                  *)
(***************************************************************************)
LEMMA NobodyLeftStep ==
  ASSUME ~DestroyInUse, UseInv, NEW t \in Threads, Call(t) \/ Step(t)
  PROVE  NobodyLeft'
<1> USE DEF UseInv, NobodyLeft, RecordInv, SemInv, IInv, TypeOK, Live, FAST, COUNTING,
            Goto, Return, ReturnHolding, Take
<1>1. CASE m_type # "zero"
  <2>1. CASE InitMutex(t) \/ LockEnter(t) \/ TryEnter(t) \/ UnlockEnter(t)
    BY <1>1, <2>1, KindsAssumption DEF InitMutex, LockEnter, TryEnter, UnlockEnter
  <2>2. CASE DestroyEnter(t)
    BY <1>1, <2>2 DEF DestroyEnter, Unused
  <2>3. CASE Step(t)
    BY <1>1, <2>3
    DEF Step, LockRequest, LockGrant, LockProbe, LockBusy, LockDone, TryRequest, TryProbe,
        TryBusy, UnlockRelease, DestroyRetry, DestroyClose, OwnershipInv, EvidenceOfOwning
  <2> QED
    BY <2>1, <2>2, <2>3 DEF Call
<1>2. CASE m_type = "zero"
  <2>1. CASE InitMutex(t) \/ LockEnter(t) \/ TryEnter(t) \/ UnlockEnter(t)
    BY <1>2, <2>1
    DEF InitMutex, LockEnter, TryEnter, UnlockEnter, UnlockRefused, UnlockAccepted
  <2>2. CASE DestroyEnter(t)
    BY <1>2, <2>2 DEF DestroyEnter
  <2>3. CASE Step(t)
    BY <1>2, <2>3
    DEF Step, LockRequest, LockGrant, LockProbe, LockBusy, LockDone, TryRequest, TryProbe,
        TryBusy, UnlockRelease, DestroyRetry, DestroyClose
  <2> QED
    BY <2>1, <2>2, <2>3 DEF Call
<1> QED
  BY <1>1, <1>2

\* Where the record is exact, with no lock in it that is not held.
LEMMA RecordIsExact ==
  ASSUME ~OwnerReenters \/ COUNTING \notin Kinds, UseInv
  PROVE  /\ RecordMatchesHolds /\ MutualExclusion
         /\ m_type = "null" => \A t \in Threads : hold[t] = 0
         /\ m_type \in Live => \A t \in Threads : pc[t] \in Asking => m_owner # t
BY DEF UseInv, RecordInv, SemInv, Untouched, RecordExact, RecordMatchesHolds, Live,
       IInv, OwnershipInv, EvidenceOfOwning, MutualExclusion

Implemented(t) ==
  \/ UNCHANGED <<Holder, Depth, ret>>
  \/ Abstract!Acquire(t) \/ Abstract!Leave(t) \/ Abstract!Abandon(t)
  \/ Abstract!Refuse(t) \/ Abstract!Finish(t)

LEMMA CallImplements ==
  ASSUME ~OwnerReenters \/ COUNTING \notin Kinds, UseInv, MutualExclusion',
         NEW t \in Threads, Call(t)
  PROVE  Implemented(t)
<1>0. /\ RecordMatchesHolds /\ MutualExclusion
      /\ m_type = "null" => \A u \in Threads : hold[u] = 0
  BY RecordIsExact
<1>1. /\ m_type \in {FAST, COUNTING, "null", "zero"} /\ m_count \in Nat /\ m_owner \in Threads \cup {NoThread}
      /\ hold \in [Threads -> Nat]
      /\ m_type = FAST => m_count = 0
      /\ m_type = "zero" => \A u \in Threads : hold[u] = 0
  BY DEF UseInv, NobodyLeft, RecordInv, SemInv, IInv, TypeOK, Live, OwnershipInv, OneCounter
<1>2. m_type \notin Live => Holder = NoThread
  BY <1>0, <1>1, NoHolder DEF Live
<1>3. t # NoThread
  BY ThreadAssumption
<1>4. m_type \in Live => hold[t] = IF m_owner = t THEN m_count + 1 ELSE 0
  BY <1>0 DEF RecordMatchesHolds
<1>5. m_type \in Live /\ m_owner = t => Holder = t
  BY <1>0, <1>1, <1>4, HolderIs
<1>6. m_type \in Live /\ m_owner # t => Holder # t
  BY <1>0, <1>1, <1>4, NotHolder
<1>7. CASE InitMutex(t)
  <2>1. UNCHANGED hold /\ (Return(t, "ok") \/ Return(t, "ENOMEM")) /\ m_type = "null"
    BY <1>7 DEF InitMutex
  <2>2. Holder = NoThread
    BY <1>2, <2>1 DEF Live, FAST, COUNTING
  <2> QED
    BY <1>3, <2>1, <2>2, IsAnswer DEF Implemented
<1>8. CASE LockEnter(t)
  <2>1. /\ UNCHANGED hold
        /\ \/ m_type \notin Live /\ Return(t, "EINVAL")
           \/ m_type \in Live /\ m_owner = t /\ Return(t, "EDEADLK")
           \/ UNCHANGED ret
    BY <1>8 DEF LockEnter, Goto, Live
  <2> QED
    BY <1>2, <1>3, <1>5, <2>1, IsAnswer, HolderSame DEF Implemented
<1>9. CASE TryEnter(t)
  <2>1. /\ UNCHANGED hold
        /\ \/ m_type \notin Live /\ Return(t, "EINVAL")
           \/ Return(t, "EBUSY")
           \/ UNCHANGED ret
    BY <1>9 DEF TryEnter, Goto
  <2> QED
    BY <1>2, <1>3, <2>1, IsAnswer, HolderSame DEF Implemented
<1>10. CASE UnlockEnter(t)
  <2>1. CASE UnlockRefused(t)
    <3>1. /\ UNCHANGED hold /\ (Return(t, "EINVAL") \/ Return(t, "EPERM"))
          /\ m_type \in Live => m_owner # t
      BY <1>3, <2>1 DEF UnlockRefused, Live, FAST, COUNTING
    <3> QED
      BY <1>2, <1>3, <1>6, <3>1, IsAnswer DEF Implemented
  <2>2. CASE UnlockAccepted(t)
    <3>1. /\ m_type \in Live /\ m_owner = t /\ hold[t] = m_count + 1
          /\ hold' = [hold EXCEPT ![t] = @ - 1]
          /\ \/ m_count > 0 /\ Return(t, "ok")
             \/ m_count = 0 /\ UNCHANGED ret
      BY <1>1, <1>4, <2>2 DEF UnlockAccepted, Goto
    <3>2. CASE m_count > 0 /\ Return(t, "ok")
      <4>1. hold[t] > 1
        BY <1>1, <3>1, <3>2
      <4> QED
        BY <1>0, <3>1, <3>2, <4>1, IsLeave DEF Implemented
    <3>3. CASE m_count = 0 /\ UNCHANGED ret
      <4>1. hold' = [hold EXCEPT ![t] = 0] /\ hold[t] > 0
        BY <1>1, <3>1, <3>3
      <4> QED
        BY <1>0, <3>3, <4>1, IsAbandon DEF Implemented
    <3> QED
      BY <3>1, <3>2, <3>3
  <2> QED
    BY <1>10, <2>1, <2>2 DEF UnlockEnter
<1>11. CASE DestroyEnter(t)
  <2>1. CASE m_type \notin Live
    <3>1. UNCHANGED hold /\ Return(t, "EINVAL")
      BY <1>11, <2>1 DEF DestroyEnter
    <3> QED
      BY <1>2, <1>3, <2>1, <3>1, IsAnswer DEF Implemented
  <2>2. CASE m_type \in Live
    <3>1. hold' = [hold EXCEPT ![t] = 0] /\ UNCHANGED ret
      BY <1>11, <2>2 DEF DestroyEnter, Goto, Live, FAST, COUNTING
    <3>2. CASE hold[t] > 0
      BY <1>0, <3>1, <3>2, IsAbandon DEF Implemented
    <3>3. CASE hold[t] = 0
      <4>1. UNCHANGED hold
        BY <1>1, <3>1, <3>3
      <4> QED
        BY <3>1, <4>1, HolderSame DEF Implemented
    <3> QED
      BY <1>1, <3>2, <3>3
  <2> QED
    BY <2>1, <2>2
<1> QED
  BY <1>7, <1>8, <1>9, <1>10, <1>11 DEF Call

LEMMA StepImplements ==
  ASSUME ~OwnerReenters \/ COUNTING \notin Kinds, UseInv, MutualExclusion',
         NEW t \in Threads, Step(t)
  PROVE  Implemented(t)
<1>0. /\ RecordMatchesHolds /\ MutualExclusion
      /\ m_type \in Live => \A u \in Threads : pc[u] \in Asking => m_owner # u
  BY RecordIsExact
<1>1. /\ m_type \in Live \cup {"null", "zero"} /\ hold \in [Threads -> Nat] /\ t # NoThread
      /\ m_type = "null" => pc[t] = "idle"
      /\ m_type = "zero" => pc[t] \in {"idle", "destroy"} /\ \A u \in Threads : hold[u] = 0
      /\ pc[t] = "destroy" => m_type = "zero"
  BY ThreadAssumption
  DEF UseInv, NobodyLeft, RecordInv, SemInv, Untouched, IInv, TypeOK, OwnershipInv, EvidenceOfOwning
<1>2. CASE LockRequest(t) \/ LockGrant(t) \/ LockProbe(t) \/ TryRequest(t) \/ TryProbe(t)
  <2>1. UNCHANGED hold /\ (UNCHANGED ret \/ Return(t, "EBUSY"))
    BY <1>1, <1>2 DEF LockRequest, LockGrant, LockProbe, TryRequest, TryProbe, Take, Goto
  <2> QED
    BY <2>1, IsAnswer, HolderSame DEF Implemented
<1>3. CASE LockBusy(t) \/ TryBusy(t)
  <2>1. \/ m_owner = t /\ ReturnHolding(t) /\ m_type \in Live
        \/ UNCHANGED hold /\ (UNCHANGED ret \/ Return(t, "EBUSY"))
    BY <1>1, <1>3 DEF LockBusy, TryBusy, Goto
  <2>2. CASE m_owner = t /\ ReturnHolding(t) /\ m_type \in Live
    <3>1. \A u \in Threads \ {t} : hold[u] = 0
      BY <1>0, <2>2 DEF RecordMatchesHolds
    <3> QED
      BY <1>0, <2>2, <3>1, IsAcquire DEF Implemented
  <2> QED
    BY <2>1, <2>2, IsAnswer, HolderSame DEF Implemented
<1>4. CASE LockDone(t)
  <2>1. sem.owner = t /\ ReturnHolding(t)
    BY <1>4 DEF LockDone, UseInv, RecordInv, SemInv, IInv, OwnershipInv, EvidenceOfOwning, Inside
  <2>2. \A u \in Threads \ {t} : hold[u] = 0
    BY <1>1, <2>1 DEF UseInv, RecordInv, SemInv, IInv, OwnershipInv, EvidenceOfOwning
  <2> QED
    BY <1>0, <2>1, <2>2, IsAcquire DEF Implemented
<1>5. CASE UnlockRelease(t)
  <2>1. UNCHANGED hold /\ Return(t, "ok") /\ pc[t] = "unlocking"
    BY <1>5 DEF UnlockRelease
  <2>2. m_type \in Live /\ m_owner # t
    BY <1>0, <1>1, <2>1 DEF Asking, Inside
  <2>3. hold[t] = 0
    BY <1>0, <2>2 DEF RecordMatchesHolds
  <2> QED
    BY <1>0, <2>1, <2>3, NotHolder, IsAnswer DEF Implemented
<1>6. CASE DestroyRetry(t)
  BY <1>6, HolderSame DEF DestroyRetry, Implemented
<1>7. CASE DestroyClose(t)
  <2>1. UNCHANGED hold /\ Return(t, "ok") /\ Holder = NoThread
    BY <1>1, <1>7, NoHolder DEF DestroyClose
  <2> QED
    BY <1>1, <2>1, IsAnswer DEF Implemented
<1> QED
  BY <1>2, <1>3, <1>4, <1>5, <1>6, <1>7 DEF Step

-----------------------------------------------------------------------------
LEMMA UseInvariance ==
  ASSUME ~DestroyInUse
  PROVE  Spec => []UseInv
<1>1. Init => NobodyLeft
  BY DEF Init, NobodyLeft
<1>2. RecordInv /\ NobodyLeft /\ [Next]_mutexVars => NobodyLeft'
  <2> SUFFICES ASSUME RecordInv, NobodyLeft, [Next]_mutexVars PROVE NobodyLeft'
    OBVIOUS
  <2>1. CASE UNCHANGED mutexVars
    BY <2>1 DEF mutexVars, NobodyLeft
  <2>2. CASE Next
    BY <2>2, NobodyLeftStep DEF Next, UseInv
  <2> QED
    BY <2>1, <2>2
<1> QED
  BY <1>1, <1>2, RecordInvariance, PTL DEF Spec, UseInv

\* uthread_mutex.c is the recursive lock that AbstractMutex describes: taken
\* when nobody else holds it, given up by its holder, with errors that tell
\* the truth.  This takes a kernel that answers a relock with rc 640, or no
\* COUNTING mutex, and a pthread_mutex_destroy of what nobody else uses.
THEOREM MutexImplements ==
  ASSUME ~OwnerReenters \/ COUNTING \notin Kinds, ~DestroyInUse
  PROVE  Spec => ImplementsAbstractMutex
<1>1. Init => Abstract!Init
  BY NoHolder DEF Init, Abstract!Init
<1>2. UseInv /\ UseInv' /\ [Next]_mutexVars => [Abstract!Next]_(Abstract!vars)
  <2> SUFFICES ASSUME UseInv, UseInv', [Next]_mutexVars
               PROVE  [Abstract!Next]_(Abstract!vars)
    OBVIOUS
  <2>1. MutualExclusion'
    BY DEF UseInv, RecordInv, SemInv, IInv, OwnershipInv, EvidenceOfOwning, MutualExclusion
  <2>2. CASE UNCHANGED mutexVars
    BY <2>2, HolderSame DEF mutexVars, Abstract!vars
  <2>3. ASSUME NEW t \in Threads, Call(t) \/ Step(t) PROVE [Abstract!Next]_(Abstract!vars)
    BY <2>1, <2>3, CallImplements, StepImplements DEF Implemented, Abstract!Next, Abstract!vars
  <2> QED
    BY <2>2, <2>3 DEF Next
<1> QED
  BY <1>1, <1>2, UseInvariance, PTL DEF Spec, ImplementsAbstractMutex, Abstract!Spec
=============================================================================
