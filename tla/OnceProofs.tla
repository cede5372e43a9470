----------------------------- MODULE OnceProofs -----------------------------
(***************************************************************************)
(* Proofs about KeyOnce, and through it about Once and ThreadData, for     *)
(* every set of threads, table of keys and either kernel.  What            *)
(* pthread_once promises rests on the invariant of its mutex, which        *)
(* MutexProofs proves of any use of the mutex.                             *)
(***************************************************************************)
EXTENDS KeyOnce, MutexProofs

\* A thread owns the mutex by its record from the end of its
\* pthread_mutex_lock to its pthread_mutex_unlock, and at no other time.
Place(t) ==
  /\ opc[t] \in {"start", "lock", "done"} => pc[t] = "idle" /\ m_owner # t
  /\ opc[t] = "locking" =>
       \/ pc[t] \in {"lock", "blocked", "got"} /\ m_owner # t
       \/ pc[t] = "idle" /\ m_owner = t
  /\ opc[t] \in {"running", "unlock"} => pc[t] = "idle" /\ m_owner = t
  /\ opc[t] = "unlocking" => pc[t] \in {"idle", "unlocking"} /\ m_owner # t

\* What state says of init_routine and of those who have come past it.
Progress ==
  \/ /\ state = "PTHREAD_NEEDS_INIT"
     /\ \A t \in Threads : opc[t] \notin {"unlock", "unlocking", "done"}
     /\ \/ runs = 1
        \/ runs = 0 /\ \A t \in Threads : opc[t] # "running"
     /\ runs = 1 => \E t \in Threads : opc[t] = "running"
  \/ /\ state = "PTHREAD_DONE_INIT"
     /\ runs = 1
     /\ \A t \in Threads : opc[t] # "running"

OnceInv ==
  /\ IInv
  /\ m_type = FAST
  /\ opc \in [Threads -> OncePlaces]
  /\ \A t \in Threads : Place(t)
  /\ Progress

-----------------------------------------------------------------------------
LEMMA OnceInitInv ==
  ASSUME ~StaticInit, OnceInit
  PROVE  OnceInv
<1> USE ThreadAssumption DEF OnceInit
<1>1. TypeOK
  BY DEF TypeOK, HMTX, Free, Locations, Results, Live
<1>2. OwnershipInv
  BY DEF OwnershipInv, EvidenceOfOwning, CountsCover, OneCounter, BusyIsSomeoneElse,
         Free, Inside, CountingSteps, FAST
<1> QED
  BY <1>1, <1>2 DEF IInv, OnceInv, Place, Progress, OncePlaces

\* Every step of pthread_once is one of the mutex, or none.
LEMMA OnceUsesMutex ==
  ASSUME NEW t \in Threads, OnceStep(t)
  PROVE  [Next]_mutexVars
BY DEF OnceStep, OnceEnter, OnceLock, OnceTest, OnceInitialised, OnceUnlock, OnceReturn,
       Next, Call, Step, mutexVars

LEMMA OnceStepInv ==
  ASSUME OnceInv, NEW t \in Threads, OnceStep(t)
  PROVE  OnceInv'
<1>1. IInv'
  BY OnceUsesMutex, TypeStep, OwnershipStep DEF OnceInv, IInv
<1> USE ThreadAssumption
        DEF OnceInv, Place, Progress, IInv, TypeOK, Locations, OncePlaces, OwnershipInv,
            EvidenceOfOwning, Inside, OnceAt, OnceGoto, Goto, Return, mutexVars, FAST
<1>2. CASE OnceEnter(t)
  BY <1>1, <1>2 DEF OnceEnter
<1>3. CASE OnceLock(t)
  BY <1>1, <1>3 DEF OnceLock, LockEnter, Live, COUNTING
<1>4. CASE OnceTest(t)
  BY <1>1, <1>4 DEF OnceTest
<1>5. CASE OnceInitialised(t)
  BY <1>1, <1>5 DEF OnceInitialised
<1>6. CASE OnceUnlock(t)
  BY <1>1, <1>6 DEF OnceUnlock, UnlockEnter, UnlockRefused, UnlockAccepted, Live, COUNTING
<1>7. CASE OnceReturn(t)
  BY <1>1, <1>7 DEF OnceReturn
<1>8. CASE LockRequest(t) /\ UNCHANGED <<state, opc, runs>>
  BY <1>1, <1>8 DEF LockRequest, Take
<1>9. CASE LockGrant(t) /\ UNCHANGED <<state, opc, runs>>
  BY <1>1, <1>9 DEF LockGrant, Take
<1>10. CASE LockDone(t) /\ UNCHANGED <<state, opc, runs>>
  BY <1>1, <1>10 DEF LockDone, ReturnHolding
<1>11. CASE UnlockRelease(t) /\ UNCHANGED <<state, opc, runs>>
  BY <1>1, <1>11 DEF UnlockRelease
<1> QED
  BY <1>2, <1>3, <1>4, <1>5, <1>6, <1>7, <1>8, <1>9, <1>10, <1>11 DEF OnceStep

\* Keys and values are none of its business, and init_routine is one of the
\* routines it may be given.
LEMMA KeyOnceUsesOnce == [KeyOnceNext]_keyOnceVars => [OnceNext]_onceVars
BY DEF KeyOnceNext, KeyOnceStep, OncePart, InitRoutine, Starts, OnceNext, OnceStep,
       keyOnceVars, onceVars

LEMMA OnceInvariance ==
  ASSUME ~StaticInit
  PROVE  KeyOnceSpec => []OnceInv
<1>1. KeyOnceInit => OnceInv
  BY OnceInitInv DEF KeyOnceInit
<1>2. OnceInv /\ [KeyOnceNext]_keyOnceVars => OnceInv'
  <2> SUFFICES ASSUME OnceInv, [KeyOnceNext]_keyOnceVars PROVE OnceInv'
    OBVIOUS
  <2>1. CASE OnceNext
    BY <2>1, OnceStepInv DEF OnceNext
  <2>2. CASE UNCHANGED onceVars
    <3>1. IInv'
      BY <2>2, TypeStep, OwnershipStep DEF onceVars, OnceInv, IInv
    <3> QED
      BY <2>2, <3>1 DEF onceVars, mutexVars, OnceInv, Place, Progress
  <2> QED
    BY <2>1, <2>2, KeyOnceUsesOnce
<1> QED
  BY <1>1, <1>2, PTL DEF KeyOnceSpec

-----------------------------------------------------------------------------
\* pthread_once calls init_routine once at most, provided that the mutex of
\* the pthread_once_t has been initialised.
THEOREM RunsOnceAlways ==
  ASSUME ~StaticInit
  PROVE  KeyOnceSpec => []RunsOnce
<1>1. OnceInv => RunsOnce
  BY DEF OnceInv, Progress, RunsOnce
<1> QED
  BY OnceInvariance, <1>1, PTL

\* Under the same condition no pthread_once returns while init_routine runs.
THEOREM ReturnsInitialisedAlways ==
  ASSUME ~StaticInit
  PROVE  KeyOnceSpec => []ReturnsInitialised
<1>1. OnceInv => ReturnsInitialised
  BY DEF OnceInv, Progress, ReturnsInitialised
<1> QED
  BY OnceInvariance, <1>1, PTL

-----------------------------------------------------------------------------
\* Once a thread has come past its handlers none is left, whatever calls of
\* pthread_setspecific its destructors are in.
HandlersInv ==
  /\ dpc \in [Threads -> DataPlaces]
  /\ from \in [Threads -> Callbacks \cup {"ready"}]
  /\ cleanup \in [Threads -> Int]
  /\ \A t \in Threads :
       \/ dpc[t] \in {"sweep", "dtor", "uncount", "gone"}
       \/ dpc[t] = "set" /\ from[t] = "dtor"
       => cleanup[t] = 0

LEMMA HandlersStep ==
  ASSUME HandlersInv, NEW t \in Threads,
         DataStep(t) \/ ExitData(t) \/ CallbackReturns(t) \/ UserCall(t) \/ CreateKey(t) \/ Ready(t)
  PROVE  HandlersInv'
<1> USE DEF HandlersInv, DataPlaces, Callbacks, DataAt, DataGoto, keyTable, ownData, handlers,
            loop, setCall
<1>1. CASE CreateKey(t) \/ CreateTest(t) \/ CreateCount(t) \/ CreateDestructor(t) \/ Ready(t)
  BY <1>1 DEF CreateKey, CreateTest, CreateCount, CreateDestructor, Ready
<1>2. CASE ExitData(t)
  BY <1>2 DEF ExitData
<1>3. CASE PopAll(t)
  BY <1>3 DEF PopAll
<1>4. CASE CallbackReturns(t)
  BY <1>4 DEF CallbackReturns
<1>5. CASE SweepValue(t) \/ SweepOn(t) \/ Uncount(t)
  BY <1>5 DEF SweepValue, SweepOn, Uncount, NextKey
<1>6. CASE SetValue(t)
  BY <1>6 DEF SetValue
<1>7. CASE UserCall(t)
  <2>1. CASE Push(t) \/ Pop(t)
    BY <2>1 DEF Push, Pop
  <2>2. ASSUME NEW k \in Keys, DeleteKey(t, k) PROVE HandlersInv'
    BY <2>2 DEF DeleteKey
  <2>3. ASSUME NEW k \in Keys, NEW v \in BOOLEAN, SetEnter(t, k, v) PROVE HandlersInv'
    BY <2>3 DEF SetEnter
  <2>4. ASSUME NEW k \in Keys, NEW v \in BOOLEAN, SetUnseen(t, k, v) PROVE HandlersInv'
    BY <2>4 DEF SetUnseen
  <2> QED
    BY <1>7, <2>1, <2>2, <2>3, <2>4 DEF UserCall
<1> QED
  BY <1>1, <1>2, <1>3, <1>4, <1>5, <1>6, <1>7 DEF DataStep

\* pthread_exit runs the first destructor of a thread after the last of its
\* cleanup handlers, also of those that handlers have pushed.
THEOREM HandlersFirstAlways == KeyOnceSpec => []HandlersFirst
<1>1. KeyOnceInit => HandlersInv
  BY DEF KeyOnceInit, DataInit, HandlersInv, DataPlaces, Callbacks
<1>2. HandlersInv /\ [KeyOnceNext]_keyOnceVars => HandlersInv'
  <2> SUFFICES ASSUME HandlersInv, [KeyOnceNext]_keyOnceVars PROVE HandlersInv'
    OBVIOUS
  <2>1. CASE UNCHANGED dataVars
    BY <2>1 DEF HandlersInv, dataVars, handlers, setCall
  <2>2. ASSUME NEW t \in Threads,
               DataStep(t) \/ ExitData(t) \/ CallbackReturns(t) \/ UserCall(t) \/ CreateKey(t) \/ Ready(t)
        PROVE  HandlersInv'
    BY <2>2, HandlersStep
  <2>3. \/ UNCHANGED dataVars
        \/ \E t \in Threads :
             DataStep(t) \/ ExitData(t) \/ CallbackReturns(t) \/ UserCall(t) \/ CreateKey(t) \/ Ready(t)
    BY DEF KeyOnceNext, KeyOnceStep, OncePart, InitRoutine, Starts, keyOnceVars
  <2> QED
    BY <2>1, <2>2, <2>3
<1>3. HandlersInv => HandlersFirst
  BY DEF HandlersInv, HandlersFirst
<1> QED
  BY <1>1, <1>2, <1>3, PTL DEF KeyOnceSpec
=============================================================================
